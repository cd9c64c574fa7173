--------------------------- MODULE FtMallocThreads ---------------------------
(***************************************************************************)
(* The calls of FtMalloc made by several threads, taken apart into the     *)
(* accesses they make to manage_free, with the global mutex around them.   *)
(* The mutex is a default pthread mutex: not recursive and not fair.       *)
(*                                                                         *)
(* A thread may fork.  The model then goes on with the child: it has a     *)
(* copy of all the memory, the mutex in it, but only the thread that       *)
(* forked.  The parent goes on as if nothing had happened.                 *)
(*                                                                         *)
(* A thread's pc names the code it is about to run:                        *)
(*   idle     outside the allocator                                        *)
(*   lock     pthread_mutex_lock                                           *)
(*   find     realloc_impl's lookup of ptr and what it decides             *)
(*   arena    the "if (!tiny_flag)" part of malloc_impl                    *)
(*   scan     find_free_zone               stamp    temp->client_size = .. *)
(*   map      the mmap of a LARGE block    enter    init_meta_data of it   *)
(*   record   client_size, large_request_sizes, large_cnt                  *)
(*   copy     ft_memcpy of realloc_impl    zero     ft_memset of callo_imp *)
(*   lookup   find_live_allocation in free_impl                            *)
(*   release  the bit or the munmap        drop     the updates of large[] *)
(*   show1, show2   the pools and the LARGE table in show_alloc_mem        *)
(*   unlock   pthread_mutex_unlock         exit     print_error            *)
(*   gone     nothing: the process is a child and the thread is not in it  *)
(***************************************************************************)
EXTENDS AllocImpl

CONSTANTS
  Threads,
  Sizes,       \* the sizes clients ask for
  Counts,      \* the first argument of calloc
  MaxCalls,    \* calls each thread makes (the bound on a run)
  MaxForks,    \* forks, one of the child of the other (the bound on a run)
  ExitFrees    \* TRUE if the program has an exit handler that calls free

NoThread == "no thread"

ASSUME ThreadsAssumption ==
  /\ Sizes \subseteq 0 .. SIZE_MAX /\ Counts \subseteq 0 .. SIZE_MAX
  /\ MaxCalls \in Nat /\ MaxForks \in Nat /\ ExitFrees \in BOOLEAN
  /\ NoThread \notin Threads

VARIABLES
  manage_free, \* the allocator
  mutex,       \* the thread that holds manage_free_mutex, or NoThread
  pc, frame,   \* per thread: where it is, and its local variables
  calls,       \* per thread: calls still to be made
  owned,       \* blocks in the hands of the client: pointer |-> length
  before,      \* the allocator when the mutex was last taken
  forks,       \* forks still to be made
  alive        \* FALSE once the process has ended

vars == <<manage_free, mutex, pc, frame, calls, owned, before, forks, alive>>

Ops == {"malloc", "free", "realloc", "calloc", "show"}

\* Local variables of the call: its arguments, what free and realloc found,
\* realloc's old block once it has to move, the return value, and the lines
\* show_alloc_mem has printed.
Line == [zone : Zones \cup {"large"}, from : Addr, to : Int, bytes : Int, unit : Int]
Frame == [op : Ops, ptr : Addr, count : Nat, size : Nat, owner : [zone : Zones \cup {"large", "none"}, slot : Int],
          moving : BOOLEAN, ret : Addr, refused : BOOLEAN, shown : SUBSET Line]
Call(op, ptr, size) ==
  [op |-> op, ptr |-> ptr, count |-> 1, size |-> size, owner |-> NoOwner, moving |-> FALSE,
   ret |-> NULL, refused |-> FALSE, shown |-> {}]

\* The bytes the call is to get: calloc's product, or the size.
Total(f) == f.count * f.size

Init ==
  /\ manage_free = InitState
  /\ mutex = NoThread
  /\ pc = [t \in Threads |-> "idle"]
  /\ frame = [t \in Threads |-> Call("show", NULL, 0)]
  /\ calls = [t \in Threads |-> MaxCalls]
  /\ owned = << >>
  /\ before = InitState
  /\ forks = MaxForks
  /\ alive = TRUE

-----------------------------------------------------------------------------
(***************************************************************************)
(* Steps of a thread.                                                      *)
(***************************************************************************)
At(t, label) == alive /\ pc[t] = label
Goto(t, label) == pc' = [pc EXCEPT ![t] = label]

\* The thread changes the allocator to s and its frame to f and goes on.
Step(t, s, f, label) ==
  /\ manage_free' = s
  /\ frame' = [frame EXCEPT ![t] = f]
  /\ Goto(t, label)
  /\ UNCHANGED <<mutex, calls, owned, before, forks, alive>>

\* malloc_impl goes to the pool's arena or to a LARGE mapping.
MallocLabel(n) == IF Class(AtLeastOne(n)) = "large" THEN "map" ELSE "arena"

FirstLabel(f) ==
  CASE f.op = "malloc" -> MallocLabel(f.size)
    [] f.op = "realloc" -> IF f.ptr = NULL THEN MallocLabel(f.size)
                           ELSE IF f.size = 0 THEN "lookup" ELSE "find"
    [] f.op = "calloc" -> IF f.count # 0 /\ f.size > SIZE_MAX \div f.count THEN "unlock"
                          ELSE MallocLabel(Total(f))
    [] f.op = "free" -> "lookup"
    [] f.op = "show" -> "show1"

\* A thread calls with any size and with NULL or any block in use, its own or
\* not; by the time it has the mutex the block may be gone, or another one.
Requests ==
  {Call("malloc", NULL, n) : n \in Sizes}
    \cup {Call("free", p, 0) : p \in DOMAIN owned}
    \cup {Call("realloc", p, n) : p \in DOMAIN owned \cup {NULL}, n \in Sizes}
    \cup {[Call("calloc", NULL, n) EXCEPT !.count = k] : k \in Counts, n \in Sizes}
    \cup {Call("show", NULL, 0)}

Enter(t) ==
  /\ At(t, "idle") /\ calls[t] > 0
  /\ \E f \in Requests :
       frame' = [frame EXCEPT ![t] = f]
  /\ calls' = [calls EXCEPT ![t] = @ - 1]
  /\ Goto(t, "lock")
  /\ UNCHANGED <<manage_free, mutex, owned, before, forks, alive>>

\* The holder of the mutex is not there to release it.
Orphaned == mutex # NoThread /\ pc[mutex] = "gone"

\* Bug variants: nobody waits; show_alloc_mem does not wait; a child takes the
\* mutex over from a thread it does not have.
CanLock_Never(t) == TRUE
CanLock_NotShow(t) == mutex = NoThread \/ frame[t].op = "show"

CanLock_TakesOver(t) == mutex = NoThread \/ Orphaned

CanLock(t) == mutex = NoThread

Lock(t) ==
  /\ At(t, "lock") /\ CanLock(t)
  /\ mutex' = t
  /\ before' = manage_free
  /\ Goto(t, FirstLabel(frame[t]))
  /\ UNCHANGED <<manage_free, frame, calls, owned, forks, alive>>

\* What a failed malloc_impl goes on to: the end of the call.
Fail(t, s, refused) == Step(t, s, [frame[t] EXCEPT !.ret = NULL, !.refused = refused], "unlock")

\* What follows malloc_impl's success.
AfterMalloc(f) == IF f.moving THEN "copy" ELSE IF f.op = "calloc" THEN "zero" ELSE "unlock"

Arena(t) ==
  /\ At(t, "arena")
  /\ \E e \in EnsureArena(manage_free, Class(AtLeastOne(Total(frame[t])))) :
       IF e.ret = NULL THEN Fail(t, e.st, e.refused) ELSE Step(t, e.st, frame[t], "scan")

Scan(t) ==
  LET zone == Class(AtLeastOne(Total(frame[t])))
      zone_byte == find_free_zone(manage_free, zone)
      head == Header(manage_free.arena[zone], zone, Decode(zone_byte))
  IN  /\ At(t, "scan")
      /\ IF zone_byte = NO_ZONE THEN Fail(t, manage_free, FALSE)
         ELSE Step(t, MarkSlot(manage_free, zone),
                   [frame[t] EXCEPT !.ret = head + METASIZE], "stamp")

StampSlot(t) ==
  /\ At(t, "stamp")
  /\ Step(t, Stamp(manage_free, frame[t].ret - METASIZE, AtLeastOne(Total(frame[t]))),
          frame[t], AfterMalloc(frame[t]))

Map(t) ==
  LET s == manage_free
      len == LargeLen(s, Total(frame[t]))
  IN  /\ At(t, "map")
      /\ IF s.large_cnt >= LARGES THEN Fail(t, s, FALSE)
         ELSE IF len = -1 THEN Fail(t, ClearTable(s), FALSE)
         ELSE \/ Fail(t, ClearTable(s), TRUE)
              \/ \E base \in FreeRuns(s, len) :
                   Step(t, MapPages(ClearTable(s), base, len),
                        [frame[t] EXCEPT !.ret = base + METASIZE], "enter")

EnterLarge(t) ==
  /\ At(t, "enter")
  /\ Step(t, InitLarge(manage_free, frame[t].ret - METASIZE, LargeLen(manage_free, Total(frame[t]))),
          frame[t], "record")

Record(t) ==
  /\ At(t, "record")
  /\ Step(t, RecordLarge(manage_free, frame[t].ret - METASIZE, Total(frame[t])),
          frame[t], AfterMalloc(frame[t]))

\* Bug variant: realloc gets its replacement from the public, locking ft_malloc.
Find_Relock(t) ==
  LET f == frame[t]
      owner == find_live_allocation(manage_free, f.ptr)
  IN  /\ At(t, "find") /\ owner # NoOwner
      /\ Step(t, manage_free, [f EXCEPT !.owner = owner, !.moving = TRUE], "lock")

Find(t) ==
  LET f == frame[t]
      owner == find_live_allocation(manage_free, f.ptr)
  IN  /\ At(t, "find")
      /\ IF owner = NoOwner THEN Fail(t, manage_free, FALSE)
         ELSE IF f.size <= Capacity(manage_free, owner)
         THEN Step(t, ResizeInPlace(manage_free, owner, f.size), [f EXCEPT !.ret = f.ptr], "unlock")
         ELSE Step(t, manage_free, [f EXCEPT !.owner = owner, !.moving = TRUE], MallocLabel(f.size))

Copy(t) ==
  LET f == frame[t]
  IN  /\ At(t, "copy")
      /\ Step(t, ft_memcpy(manage_free, f.ret, f.ptr, Requested(manage_free, f.owner)), f, "lookup")

Zero(t) ==
  LET f == frame[t]
  IN  /\ At(t, "zero")
      /\ Step(t, ft_memset(manage_free, f.ret, 0, Total(f)), f, "unlock")

Lookup(t) ==
  LET owner == find_live_allocation(manage_free, frame[t].ptr)
  IN  /\ At(t, "lookup")
      /\ Step(t, manage_free, [frame[t] EXCEPT !.owner = owner],
              IF owner = NoOwner THEN "unlock" ELSE "release")

Release(t) ==
  LET f == frame[t]
  IN  /\ At(t, "release")
      /\ IF f.owner.zone \in Zones
         THEN Step(t, ClearSlot(manage_free, f.owner), f, "unlock")
         ELSE \/ Step(t, Unmap(manage_free, f.owner), f, "drop")
              \/ Step(t, manage_free, f, "exit")

Drop(t) ==
  /\ At(t, "drop")
  /\ Step(t, DropEntry(manage_free, frame[t].owner), frame[t], "unlock")

Show1(t) ==
  /\ At(t, "show1")
  /\ Step(t, manage_free, [frame[t] EXCEPT !.shown = PoolLines(manage_free)], "show2")
Show2(t) ==
  /\ At(t, "show2")
  /\ Step(t, manage_free, [frame[t] EXCEPT !.shown = @ \cup LargeLines(manage_free)], "unlock")

-----------------------------------------------------------------------------
\* What the client has after the call: it gave p up and got r with n bytes.
Given(b, r, n) == [q \in DOMAIN b \cup {r} |-> IF q = r THEN n ELSE b[q]]
Taken(b, p) == [q \in DOMAIN b \ {p} |-> b[q]]

OwnedAfter(f) ==
  LET left == IF f.op \in {"free", "realloc"} THEN Taken(owned, f.ptr) ELSE owned
  IN  IF f.ret # NULL THEN Given(left, f.ret, AtLeastOne(Total(f)))
      ELSE IF f.op = "free" \/ (f.op = "realloc" /\ f.size = 0) THEN left ELSE owned

\* Bug variant: a call that found nothing to return goes without unlocking.
Unlock_NotNull(t) ==
  /\ At(t, "unlock")
  /\ mutex' = IF frame[t].refused THEN mutex ELSE NoThread
  /\ owned' = OwnedAfter(frame[t])
  /\ Goto(t, "idle")
  /\ UNCHANGED <<manage_free, frame, calls, before, forks, alive>>

Unlock(t) ==
  /\ At(t, "unlock")
  /\ mutex' = NoThread
  /\ owned' = OwnedAfter(frame[t])
  /\ Goto(t, "idle")
  /\ UNCHANGED <<manage_free, frame, calls, before, forks, alive>>

\* print_error: exit runs the handlers on this thread, which still holds the
\* mutex, and then ends the process.
ExitProcess(t) ==
  /\ At(t, "exit")
  /\ IF ExitFrees
     THEN Goto(t, "lock") /\ UNCHANGED alive
     ELSE alive' = FALSE /\ UNCHANGED pc
  /\ frame' = [frame EXCEPT ![t] = Call("free", frame[t].ptr, 0)]
  /\ UNCHANGED <<manage_free, mutex, calls, owned, before, forks>>

\* A step under the mutex, or of print_error.
Inside(t) ==
  \/ Arena(t) \/ Scan(t) \/ StampSlot(t)
  \/ Map(t) \/ EnterLarge(t) \/ Record(t)
  \/ Find(t) \/ Copy(t) \/ Zero(t) \/ Lookup(t) \/ Release(t) \/ Drop(t)
  \/ Show1(t) \/ Show2(t)
  \/ Unlock(t) \/ ExitProcess(t)

\* fork(): nothing in the code registers a handler that would see to the mutex.
Fork(t) ==
  /\ At(t, "idle") /\ forks > 0
  /\ forks' = forks - 1
  /\ pc' = [u \in Threads |-> IF u = t THEN "idle" ELSE "gone"]
  /\ frame' = [u \in Threads |-> IF u = t THEN frame[t] ELSE Call("show", NULL, 0)]
  /\ calls' = [u \in Threads |-> IF u = t THEN calls[t] ELSE 0]
  /\ UNCHANGED <<manage_free, mutex, owned, before, alive>>

\* The process has ended, or every thread in it has made its calls or waits
\* for a mutex that nobody will release.
Done ==
  \/ ~alive
  \/ \A t \in Threads : \/ pc[t] \in {"idle", "gone"} /\ calls[t] = 0
                        \/ pc[t] = "lock" /\ Orphaned
Terminated == Done /\ UNCHANGED vars

Next == (\E t \in Threads : Enter(t) \/ Lock(t) \/ Inside(t) \/ Fork(t)) \/ Terminated

(***************************************************************************)
(* A thread that is not blocked goes on.  The mutex promises no order, so  *)
(* a waiting thread may be overtaken as long as there are other callers:   *)
(* weak fairness is all that is assumed of Lock.                           *)
(***************************************************************************)
Fairness == \A t \in Threads : WF_vars(Lock(t)) /\ WF_vars(Inside(t))

Spec == Init /\ [][Next]_vars /\ Fairness

-----------------------------------------------------------------------------
Labels == {"idle", "lock", "find", "arena", "scan", "stamp", "map", "enter", "record",
           "copy", "zero", "lookup", "release", "drop", "show1", "show2", "unlock", "exit",
           "gone"}

TypeOK ==
  /\ manage_free \in StateType /\ before \in StateType
  /\ mutex \in Threads \cup {NoThread}
  /\ pc \in [Threads -> Labels]
  /\ frame \in [Threads -> Frame]
  /\ calls \in [Threads -> Nat]
  /\ DOMAIN owned \subseteq Addr /\ \A p \in DOMAIN owned : owned[p] \in Nat
  /\ forks \in Nat
  /\ alive \in BOOLEAN

(***************************************************************************)
(* Every call is atomic: when it is about to unlock, the allocator and its *)
(* return value are an outcome of the undivided *_impl function from the   *)
(* state in which the mutex was taken.  It is what lets FtMalloc make a    *)
(* call one step.                                                          *)
(***************************************************************************)
Outcomes(s, f) ==
  CASE f.op = "malloc" -> malloc_impl(s, f.size)
    [] f.op = "realloc" -> realloc_impl(s, f.ptr, f.size)
    [] f.op = "calloc" -> callo_imp(s, f.count, f.size)
    [] f.op = "free" -> free_impl(s, f.ptr)
    [] f.op = "show" -> {Return(s, NULL)}

CallsAreAtomic ==
  \A t \in Threads :
    pc[t] = "unlock" =>
      [st |-> manage_free, ret |-> frame[t].ret, refused |-> frame[t].refused, exit |-> FALSE]
        \in Outcomes(before, frame[t])

(***************************************************************************)
(* Whenever nobody is inside, the bitmaps and large[] say exactly what the *)
(* threads together hold, whichever thread allocated or freed it.          *)
(***************************************************************************)
LiveTables(s) ==
  {Header(s.arena[zs[1]], zs[1], zs[2]) + METASIZE :
     zs \in {z \in Zones \X Slots : z[2] \in s.bitmap[z[1]]}}
    \cup {s.large[entry] + METASIZE : entry \in {e \in Entries : s.large[e] # 0}}

TablesMatch ==
  mutex = NoThread =>
    /\ LiveTables(manage_free) = DOMAIN owned
    /\ manage_free.large_cnt = Cardinality({e \in Entries : manage_free.large[e] # 0})

(***************************************************************************)
(* No call works on what another one left half done: whoever holds the     *)
(* mutex and runs found tables that said exactly what the threads hold.    *)
(* This is so in the child of a fork too, because a child whose copy was   *)
(* made in the middle of a call never gets the mutex: it waits for ever    *)
(* rather than hand out memory from torn tables.                           *)
(***************************************************************************)
CallsStartWhole ==
  mutex # NoThread /\ ~Orphaned => LiveTables(before) = DOMAIN owned

(***************************************************************************)
(* What show_alloc_mem has printed is of one moment: a line for each block *)
(* held, with its length as an int, never the pools before and large[]     *)
(* after another thread's call.                                            *)
(***************************************************************************)
ShowIsSnapshot ==
  \A t \in Threads :
    pc[t] = "unlock" /\ frame[t].op = "show" =>
      {<<line.from + METASIZE, line.bytes>> : line \in frame[t].shown} =
        {<<p, ToInt(owned[p])>> : p \in DOMAIN owned}

(***************************************************************************)
(* The comment at src/ft_malloc.c:303 says of this scheme that no locking *)
(* is nested and so nothing deadlocks: no thread waits for its own mutex.  *)
(***************************************************************************)
NoSelfDeadlock == \A t \in Threads : ~(pc[t] = "lock" /\ mutex = t)

(***************************************************************************)
(* Every call comes back, unless print_error ends the process or the       *)
(* process is a child that was forked in the middle of another thread's    *)
(* call: nothing else leaves the mutex locked.                             *)
(***************************************************************************)
CallsReturn ==
  \A t \in Threads : pc[t] = "lock" ~> (pc[t] \in {"idle", "gone"} \/ ~alive \/ Orphaned)

=============================================================================
