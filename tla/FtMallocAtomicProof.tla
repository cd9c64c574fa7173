-------------------------- MODULE FtMallocAtomicProof --------------------------
(***************************************************************************)
(* Theorems about the calls of FtMallocThreads, for any number of threads, *)
(* calls and forks: the single accesses of a call add up to one outcome of *)
(* the undivided *_impl function, and the tables say what the threads      *)
(* together hold whenever nobody is inside.                                *)
(***************************************************************************)
EXTENDS FtMallocThreadsProof, AllocBlocksProof

USE DEF Zones, Slots, Entries, NULL, MAP_FAILED

-----------------------------------------------------------------------------
(***************************************************************************)
(* What is left to do.  At each label, what has been done since the mutex  *)
(* was taken, from the state s0, and what the rest of the call will do     *)
(* make together an outcome of the undivided function from s0.             *)
(***************************************************************************)
Fresh(f) == f.owner = NoOwner /\ ~f.moving /\ f.ret = NULL /\ ~f.refused /\ f.shown = {}

Length(f) == AtLeastOne(Total(f))
PoolOf(f) == Class(Length(f))
HeadOf(f) == f.ret - METASIZE

\* The call is in its malloc_impl; for realloc, because ptr is NULL or because
\* its block has to move.
Allocating(s0, f) ==
  /\ ~f.refused
  /\ \/ f.op = "malloc" /\ ~f.moving
     \/ f.op = "calloc" /\ ~f.moving /\ Total(f) <= SIZE_MAX
     \/ f.op = "realloc" /\ ~f.moving /\ f.ptr = NULL
     \/ /\ f.op = "realloc" /\ f.moving /\ f.ptr # NULL /\ f.size # 0
        /\ f.owner = find_live_allocation(s0, f.ptr) /\ f.owner # NoOwner
        /\ ~(f.size <= Capacity(s0, f.owner))

\* malloc_impl ends in s with the pointer that f has.
Served(s0, f, s) == Return(s, f.ret) \in malloc_impl(s0, Total(f))

\* What free_impl does from s is the end of the call.
Freeing(s0, f, s) ==
  /\ AllocOK(s) /\ ~f.refused /\ f.op \in {"free", "realloc"}
  /\ \A x \in free_impl(s, f.ptr) : [x EXCEPT !.ret = f.ret] \in Outcomes(s0, f)

Showing(s0, f, s) == s = s0 /\ f.op = "show" /\ ~f.refused /\ f.ret = NULL

Finished(s0, f, s) ==
  /\ [st |-> s, ret |-> f.ret, refused |-> f.refused, exit |-> FALSE] \in Outcomes(s0, f)
  /\ f.op = "show" => f.shown = ShownLines(s0)

Rest(label, s0, f, s) ==
  /\ label \in {"arena", "map"} => s = s0 /\ f.ret = NULL
  /\ label \in {"arena", "map", "scan", "stamp", "enter", "record", "copy", "zero"} =>
       Allocating(s0, f)
  /\ label \in {"arena", "scan", "stamp"} => PoolOf(f) \in Zones
  /\ label \in {"map", "enter", "record"} => PoolOf(f) = "large"
  /\ label \in {"stamp", "enter", "record", "copy", "zero"} => f.ret # NULL
  /\ label \in {"stamp", "enter", "record"} => HeadOf(f) \in Addr
  /\ label = "scan" =>
       /\ AllocOK(s) /\ s.zone_flag[PoolOf(f)] /\ f.ret = NULL
       /\ TakeSlot(s, PoolOf(f), Length(f)) \in malloc_impl(s0, Total(f))
  /\ label = "stamp" => Served(s0, f, Stamp(s, HeadOf(f), Length(f)))
  /\ label = "enter" =>
       Served(s0, f, RecordLarge(InitLarge(s, HeadOf(f), LargeLen(s, Total(f))), HeadOf(f), Total(f)))
  /\ label = "record" => Served(s0, f, RecordLarge(s, HeadOf(f), Total(f)))
  /\ label \in {"copy", "zero"} => Served(s0, f, s)
  /\ label = "copy" => f.moving
  /\ label = "zero" => f.op = "calloc"
  /\ label = "find" => s = s0 /\ f.op = "realloc" /\ f.ptr # NULL /\ f.size # 0 /\ Fresh(f)
  /\ label \in {"lookup", "release"} => Freeing(s0, f, s)
  /\ label = "release" => f.owner = find_live_allocation(s, f.ptr) /\ f.owner # NoOwner
  /\ label = "drop" => ~f.refused /\ f.op # "show" /\ Return(DropEntry(s, f.owner), f.ret) \in Outcomes(s0, f)
  /\ label \in {"show1", "show2"} => Showing(s0, f, s)
  /\ label = "show2" => f.shown = PoolLines(s0)
  /\ label = "unlock" => Finished(s0, f, s)

\* The allocator's blocks are those of b.
Good(s, b) == AllocOK(s) /\ \A p, n : BlockAt(s, p, n) <=> p \in DOMAIN b /\ n = b[p]

(***************************************************************************)
(* The inductive invariant: the mutex excludes, nobody inside means tables *)
(* that match, the one who is inside found them so, and what it has done   *)
(* and what is left to do make one undivided call.  Of the tables in a     *)
(* child whose copy was made in the middle of a call nothing is said.      *)
(***************************************************************************)
ThreadsInv ==
  /\ LockInv /\ TypeOK
  /\ \A t \in Threads : frame[t].op # "calloc" => frame[t].count = 1
  /\ \A t \in Threads : pc[t] = "lock" => Fresh(frame[t])
  /\ mutex = NoThread => Good(manage_free, owned)
  /\ mutex # NoThread /\ ~Orphaned => Good(before, owned)
  /\ \A t \in Threads : pc[t] \in Within => Rest(pc[t], before, frame[t], manage_free)

-----------------------------------------------------------------------------
(***************************************************************************)
(* Frames.                                                                 *)
(***************************************************************************)
SameCall(f, g) == g.op = f.op /\ g.ptr = f.ptr /\ g.count = f.count /\ g.size = f.size

OwnerType == [zone : Zones \cup {"large", "none"}, slot : Int]

LEMMA RetChange ==
  ASSUME NEW f \in Frame, NEW a \in Addr, NEW g, g = [f EXCEPT !.ret = a]
  PROVE  /\ g \in Frame /\ SameCall(f, g) /\ g.ret = a
         /\ g.owner = f.owner /\ g.moving = f.moving /\ g.refused = f.refused /\ g.shown = f.shown
  BY DEF Frame, SameCall

LEMMA FailChange ==
  ASSUME NEW f \in Frame, NEW b \in BOOLEAN, NEW g, g = [f EXCEPT !.ret = NULL, !.refused = b]
  PROVE  g \in Frame /\ SameCall(f, g) /\ g.ret = NULL /\ g.refused = b /\ g.shown = f.shown
<1>1. 0 \in Addr
  BY Positive DEF Addr
<1> QED
  BY <1>1 DEF Frame, SameCall

LEMMA OwnerChange ==
  ASSUME NEW f \in Frame, NEW o \in OwnerType, NEW g, g = [f EXCEPT !.owner = o]
  PROVE  /\ g \in Frame /\ SameCall(f, g) /\ g.owner = o /\ g.moving = f.moving
         /\ g.ret = f.ret /\ g.refused = f.refused /\ g.shown = f.shown
  BY DEF Frame, SameCall, OwnerType

LEMMA ShownChange ==
  ASSUME NEW f \in Frame, NEW L \in SUBSET Line, NEW g, g = [f EXCEPT !.shown = L]
  PROVE  /\ g \in Frame /\ SameCall(f, g) /\ g.shown = L
         /\ g.ret = f.ret /\ g.refused = f.refused
  BY DEF Frame, SameCall

LEMMA FrameFields ==
  ASSUME NEW f \in Frame
  PROVE  /\ IsFrame(f) /\ f.op \in Ops /\ f.ptr \in Addr /\ f.count \in Nat /\ f.size \in Nat
         /\ f.owner \in OwnerType /\ f.moving \in BOOLEAN /\ f.ret \in Addr
         /\ f.refused \in BOOLEAN /\ f.shown \in SUBSET Line
         /\ Total(f) \in Nat
  BY DEF Frame, IsFrame, OwnerType, Total

LEMMA ReturnChange ==
  ASSUME NEW s, NEW a, NEW b
  PROVE  /\ [Return(s, a) EXCEPT !.st = b] = Return(b, a)
         /\ [Return(s, a) EXCEPT !.ret = b] = Return(s, b)
<1> DEFINE r == Return(s, a)
           no == FALSE
<1>1. r = [st |-> s, ret |-> a, refused |-> no, exit |-> no]
  BY DEF Return
<1>2. \A x, y : Return(x, y) = [st |-> x, ret |-> y, refused |-> no, exit |-> no]
  BY DEF Return
<1> HIDE DEF r, no
<1>3. /\ [r EXCEPT !.st = b] = [st |-> b, ret |-> a, refused |-> no, exit |-> no]
      /\ [r EXCEPT !.ret = b] = [st |-> s, ret |-> b, refused |-> no, exit |-> no]
  BY <1>1
<1>4. [r EXCEPT !.st = b] = Return(b, a) /\ [r EXCEPT !.ret = b] = Return(s, b)
  BY <1>2, <1>3
<1> QED
  BY <1>4 DEF r

\* What was asked for is all that the outcomes depend on.
LEMMA SameOutcomes ==
  ASSUME NEW f, NEW g, SameCall(f, g)
  PROVE  /\ Total(g) = Total(f) /\ Length(g) = Length(f) /\ PoolOf(g) = PoolOf(f)
         /\ \A s : Outcomes(s, g) = Outcomes(s, f)
  BY DEF SameCall, Total, Length, PoolOf, Outcomes

LEMMA LengthFacts ==
  ASSUME NEW f \in Frame
  PROVE  /\ Length(f) \in Nat \ {0}
         /\ PoolOf(f) \in Zones \cup {"large"}
         /\ PoolOf(f) = "large" => Length(f) = Total(f) /\ Total(f) \in Nat \ {0}
                                     /\ SMALL - METASIZE < Total(f)
         /\ PoolOf(f) \in Zones => Length(f) \in 1 .. (Stride(PoolOf(f)) - METASIZE)
<1>1. Total(f) \in Nat
  BY FrameFields
<1> QED
  BY <1>1, SizesAssumption, Positive DEF Length, PoolOf, AtLeastOne, Class, Stride

-----------------------------------------------------------------------------
(***************************************************************************)
(* Steps under the mutex.                                                  *)
(***************************************************************************)
LEMMA HolderFacts ==
  ASSUME ThreadsInv, NEW t \in Threads, pc[t] \in Within
  PROVE  /\ mutex = t /\ mutex # NoThread /\ ~Orphaned
         /\ AllocOK(before) /\ Good(before, owned)
         /\ manage_free \in StateType /\ frame[t] \in Frame /\ IsFrame(frame[t])
         /\ frame[t].op # "calloc" => frame[t].count = 1
         /\ Rest(pc[t], before, frame[t], manage_free)
<1>1. mutex = t /\ mutex # NoThread /\ ~Orphaned
  BY ThreadsAssumption DEF ThreadsInv, LockInv, Orphaned, Within, Outside
<1> QED
  BY <1>1 DEF ThreadsInv, TypeOK, Good, LockInv

\* A step from label to label keeps the invariant if the new state and the
\* new frame are what the new label says.
LEMMA StepInv ==
  ASSUME ThreadsInv, NEW t \in Threads, pc[t] \in Within,
         NEW s \in StateType, NEW f \in Frame, SameCall(frame[t], f),
         NEW label \in Within, Step(t, s, f, label), Rest(label, before, f, s)
  PROVE  ThreadsInv'
<1>1. /\ mutex = t /\ mutex # NoThread /\ ~Orphaned /\ Good(before, owned)
      /\ frame[t].op # "calloc" => frame[t].count = 1
  BY HolderFacts
<1>2. /\ manage_free' = s /\ frame' = [frame EXCEPT ![t] = f] /\ pc' = [pc EXCEPT ![t] = label]
      /\ mutex' = mutex /\ calls' = calls /\ owned' = owned /\ before' = before
      /\ forks' = forks /\ alive' = alive
  BY DEF Step, Goto
<1>3. IsFrame(f) /\ label \in Labels /\ label # "gone" /\ label # "lock"
  BY FrameFields DEF Within, Outside
<1>4. LockInv'
  BY <1>3, StepKeeps DEF ThreadsInv
<1>5. TypeOK'
  BY <1>2, <1>3 DEF ThreadsInv, TypeOK
<1>6. /\ pc \in [Threads -> Labels] /\ frame \in [Threads -> Frame]
      /\ \A u \in Threads : pc[u] \in Within => mutex = u
  BY DEF ThreadsInv, TypeOK, LockInv
<1>7. /\ pc'[t] = label /\ frame'[t] = f
      /\ \A u \in Threads : u # t => pc'[u] = pc[u] /\ frame'[u] = frame[u] /\ pc[u] \notin Within
  BY <1>1, <1>2, <1>6
<1>8. \A u \in Threads : frame'[u].op # "calloc" => frame'[u].count = 1
  BY <1>1, <1>7 DEF ThreadsInv, SameCall
<1>9. \A u \in Threads : pc'[u] = "lock" => Fresh(frame'[u])
  BY <1>3, <1>7 DEF ThreadsInv
<1>10. mutex' # NoThread /\ Good(before', owned')
  BY <1>1, <1>2
<1>11. \A u \in Threads : pc'[u] \in Within => Rest(pc'[u], before', frame'[u], manage_free')
  BY <1>2, <1>7
<1> QED
  BY <1>4, <1>5, <1>8, <1>9, <1>10, <1>11 DEF ThreadsInv

\* A malloc_impl that fails ends the call.
LEMMA FailInv ==
  ASSUME ThreadsInv, NEW t \in Threads, pc[t] \in Within,
         NEW s \in StateType, NEW b \in BOOLEAN, Fail(t, s, b), frame[t].op # "show",
         [st |-> s, ret |-> NULL, refused |-> b, exit |-> FALSE] \in Outcomes(before, frame[t])
  PROVE  ThreadsInv'
<1>1. frame[t] \in Frame
  BY HolderFacts
<1>3. PICK f : f = [frame[t] EXCEPT !.ret = NULL, !.refused = b] /\ Step(t, s, f, "unlock")
  BY DEF Fail
<1>2. f \in Frame /\ SameCall(frame[t], f) /\ f.ret = NULL /\ f.refused = b
  <2>1. f = [frame[t] EXCEPT !.ret = NULL, !.refused = b]
    BY <1>3
  <2>2. f \in Frame
    BY <1>1, <2>1, FailChange
  <2>3. SameCall(frame[t], f)
    BY <1>1, <2>1, FailChange
  <2>4. f.ret = NULL
    BY <1>1, <2>1 DEF Frame
  <2>5. f.refused = b
    BY <1>1, <2>1 DEF Frame
  <2> QED
    BY <2>2, <2>3, <2>4, <2>5
<1>4. f.op # "show"
  BY <1>2 DEF SameCall
<1>5. Outcomes(before, f) = Outcomes(before, frame[t])
  BY <1>2, SameOutcomes
<1>6. Rest("unlock", before, f, s)
  BY <1>2, <1>4, <1>5 DEF Rest, Finished
<1>7. "unlock" \in Within
  BY DEF Within, Labels, Outside
<1> QED
  BY <1>2, <1>3, <1>6, <1>7, StepInv

-----------------------------------------------------------------------------
(***************************************************************************)
(* malloc_impl in steps.                                                   *)
(***************************************************************************)
\* What an outcome of malloc_impl still needs to be one of the call.
LEMMA Continues ==
  ASSUME NEW s0, NEW f \in Frame, f.op # "calloc" => f.count = 1, Allocating(s0, f),
         NEW m \in malloc_impl(s0, Total(f))
  PROVE  /\ f.op # "show"
         /\ m.ret = NULL => m \in Outcomes(s0, f)
         /\ m.ret # NULL /\ ~f.moving /\ f.op # "calloc" => m \in Outcomes(s0, f)
         /\ m.ret # NULL /\ ~f.moving /\ f.op = "calloc" =>
              [m EXCEPT !.st = ft_memset(m.st, m.ret, 0, Total(f))] \in Outcomes(s0, f)
         /\ m.ret # NULL /\ f.moving =>
              Move(m, f.ptr, f.owner) \subseteq Outcomes(s0, f)
<1>0. f.count \in Nat /\ f.size \in Nat /\ Total(f) \in Nat
  BY FrameFields
<1>1. f.op # "calloc" => Total(f) = f.size
  BY <1>0 DEF Total
<1>2. CASE f.op = "malloc" /\ ~f.moving
  <2>1. Outcomes(s0, f) = malloc_impl(s0, Total(f))
    BY <1>1, <1>2 DEF Outcomes
  <2> QED
    BY <1>2, <2>1
<1>3. CASE f.op = "calloc" /\ ~f.moving /\ Total(f) <= SIZE_MAX
  <2>1. /\ ~(f.count # 0 /\ f.size > SIZE_MAX \div f.count)
        /\ (f.count * f.size) % (SIZE_MAX + 1) = Total(f)
    <3>1. ~(f.count * f.size > SIZE_MAX)
      BY <1>0, <1>3, Positive DEF Total
    <3> QED
      BY <1>0, <1>3, <3>1, OverflowTest DEF Total
  <2>2. Outcomes(s0, f) = callo_imp(s0, f.count, f.size)
    BY <1>3 DEF Outcomes
  <2>3. callo_imp(s0, f.count, f.size) =
          {IF x.ret = NULL THEN x ELSE [x EXCEPT !.st = ft_memset(x.st, x.ret, 0, Total(f))] :
             x \in malloc_impl(s0, Total(f))}
    BY <2>1 DEF callo_imp
  <2> QED
    BY <1>3, <2>2, <2>3
<1>4. CASE f.op = "realloc"
  <2>1. Outcomes(s0, f) = realloc_impl(s0, f.ptr, Total(f)) /\ Total(f) = f.size
    BY <1>1, <1>4 DEF Outcomes
  <2>2. CASE ~f.moving /\ f.ptr = NULL
    BY <1>4, <2>1, <2>2 DEF realloc_impl
  <2>3. CASE /\ f.moving /\ f.ptr # NULL /\ f.size # 0
             /\ f.owner = find_live_allocation(s0, f.ptr) /\ f.owner # NoOwner
             /\ ~(f.size <= Capacity(s0, f.owner))
    <3>2. realloc_impl(s0, f.ptr, Total(f)) =
            UNION {IF x.ret = NULL THEN {x} ELSE Move(x, f.ptr, f.owner) :
                     x \in malloc_impl(s0, Total(f))}
      BY <2>1, <2>3 DEF realloc_impl
    <3> QED
      BY <1>4, <2>1, <2>3, <3>2
  <2> QED
    BY <1>4, <2>2, <2>3 DEF Allocating
<1> QED
  BY <1>2, <1>3, <1>4 DEF Allocating

\* Which branch of malloc_impl it is.
LEMMA MallocByClass ==
  ASSUME NEW s, NEW f \in Frame
  PROVE  /\ PoolOf(f) \in Zones =>
              malloc_impl(s, Total(f)) = MallocPool(s, PoolOf(f), Length(f))
         /\ PoolOf(f) = "large" => malloc_impl(s, Total(f)) = MallocLarge(s, Total(f))
<1>1. CASE PoolOf(f) \in Zones
  BY <1>1 DEF malloc_impl, PoolOf, Length
<1>2. CASE PoolOf(f) = "large"
  <2>1. Length(f) = Total(f)
    BY <1>2, LengthFacts
  <2> QED
    BY <1>2, <2>1 DEF malloc_impl, PoolOf, Length
<1> QED
  BY <1>1, <1>2

\* After a malloc_impl that has its pointer the call is over, or the block is
\* filled with zeros or with the old block's bytes.
LEMMA ServedInv ==
  ASSUME ThreadsInv, NEW t \in Threads, pc[t] \in Within, NEW s,
         Step(t, s, frame[t], AfterMalloc(frame[t])),
         Allocating(before, frame[t]), frame[t].ret # NULL, Served(before, frame[t], s)
  PROVE  ThreadsInv'
<1> DEFINE f == frame[t]
           m == Return(s, f.ret)
<1>1. AllocOK(before) /\ f \in Frame /\ (f.op # "calloc" => f.count = 1)
  BY HolderFacts
<1>2. m \in malloc_impl(before, Total(f)) /\ Total(f) \in Nat
  BY <1>1, FrameFields DEF Served
<1>3. m.st = s /\ m.ret = f.ret /\ m.ret # NULL
      /\ m = [st |-> s, ret |-> f.ret, refused |-> FALSE, exit |-> FALSE]
  BY DEF Return
<1>4. SameCall(f, f) /\ ~f.refused
  BY DEF SameCall, Allocating
<1> HIDE DEF f, m
<1>5. s \in StateType
  BY <1>1, <1>2, <1>3, MallocImplCorrect DEF AllocOK
<1>6. /\ f.op # "show"
      /\ ~f.moving /\ f.op # "calloc" => m \in Outcomes(before, f)
  BY <1>1, <1>2, <1>3, Continues DEF f
<1>7. {"unlock", "copy", "zero"} \subseteq Within
  BY DEF Within, Labels, Outside
<1>8. CASE f.moving
  <2>1. Rest("copy", before, f, s) /\ AfterMalloc(f) = "copy"
    BY <1>8 DEF Rest, AfterMalloc, f
  <2> QED
    BY <1>1, <1>4, <1>5, <1>7, <2>1, StepInv DEF f
<1>9. CASE ~f.moving /\ f.op = "calloc"
  <2>1. Rest("zero", before, f, s) /\ AfterMalloc(f) = "zero"
    BY <1>9 DEF Rest, AfterMalloc, f
  <2> QED
    BY <1>1, <1>4, <1>5, <1>7, <2>1, StepInv DEF f
<1>10. CASE ~f.moving /\ f.op # "calloc"
  <2>0. f.refused = FALSE
    <3>1. f.refused \in BOOLEAN
      BY <1>1, FrameFields
    <3> QED
      BY <1>4, <3>1
  <2>1. Finished(before, f, s)
    BY <1>3, <1>6, <1>10, <2>0 DEF Finished
  <2>2. Rest("unlock", before, f, s) /\ AfterMalloc(f) = "unlock"
    BY <1>10, <2>1 DEF Rest, AfterMalloc
  <2> QED
    BY <1>1, <1>4, <1>5, <1>7, <2>2, StepInv DEF f
<1> QED
  BY <1>8, <1>9, <1>10

\* An outcome of malloc_impl without a pointer ends the call.
LEMMA NullInv ==
  ASSUME ThreadsInv, NEW t \in Threads, pc[t] \in Within, Allocating(before, frame[t]),
         NEW m \in malloc_impl(before, Total(frame[t])), m.ret = NULL,
         NEW s, s = m.st, NEW b, b = m.refused, Fail(t, s, b)
  PROVE  ThreadsInv'
<1>1. /\ AllocOK(before) /\ frame[t] \in Frame
      /\ frame[t].op # "calloc" => frame[t].count = 1
  BY HolderFacts
<1>2. Total(frame[t]) \in Nat
  BY <1>1, FrameFields
<1>3. IsOutcome(m) /\ ~m.exit /\ s \in StateType
  BY <1>1, <1>2, MallocOutcome, MallocImplAddsOne, MallocImplCorrect DEF AllocOK
<1>4. m = [st |-> m.st, ret |-> m.ret, refused |-> m.refused, exit |-> m.exit]
      /\ m.refused \in BOOLEAN /\ m.exit = FALSE
  BY <1>3 DEF IsOutcome
<1>5. m = [st |-> s, ret |-> NULL, refused |-> b, exit |-> FALSE]
  BY <1>4
<1>6. m \in Outcomes(before, frame[t]) /\ frame[t].op # "show"
  BY <1>1, Continues
<1>7. b \in BOOLEAN
  BY <1>4
<1> QED
  BY <1>3, <1>5, <1>6, <1>7, FailInv

LEMMA ArenaInv ==
  ASSUME ThreadsInv, NEW t \in Threads, Arena(t)
  PROVE  ThreadsInv'
<1> DEFINE f == frame[t]
           zone == PoolOf(f)
<1>1. pc[t] = "arena" /\ pc[t] \in Within /\ "scan" \in Within
  BY DEF Arena, At, Within, Labels, Outside
<1>2. /\ AllocOK(before) /\ f \in Frame /\ Rest("arena", before, f, manage_free)
  BY <1>1, HolderFacts
<1>3. manage_free = before /\ f.ret = NULL /\ Allocating(before, f) /\ zone \in Zones
  BY <1>2 DEF Rest
<1>4. PICK e \in EnsureArena(before, zone) :
        IF e.ret = NULL THEN Fail(t, e.st, e.refused) ELSE Step(t, e.st, f, "scan")
  BY <1>3 DEF Arena, PoolOf, Length
<1>5. malloc_impl(before, Total(f)) = MallocPool(before, zone, Length(f))
  BY <1>2, <1>3, MallocByClass
<1>6. (IF e.ret = NULL THEN e ELSE TakeSlot(e.st, zone, Length(f))) \in malloc_impl(before, Total(f))
  BY <1>5 DEF MallocPool
<1>7. CASE e.ret = NULL
  BY <1>1, <1>3, <1>4, <1>6, <1>7, NullInv
<1>8. CASE e.ret # NULL
  <2>1. AllocOK(e.st) /\ e.st.zone_flag[zone] /\ e.st \in StateType
    BY <1>2, <1>3, <1>8, EnsureArenaOK DEF AllocOK
  <2>2. TakeSlot(e.st, zone, Length(f)) \in malloc_impl(before, Total(f))
    BY <1>6, <1>8
  <2>3. Rest("scan", before, f, e.st)
    BY <1>3, <2>1, <2>2 DEF Rest
  <2>4. SameCall(f, f) /\ Step(t, e.st, f, "scan")
    BY <1>4, <1>8 DEF SameCall
  <2> QED
    BY <1>1, <1>2, <2>1, <2>3, <2>4, StepInv
<1> QED
  BY <1>7, <1>8

\* The bit that find_free_zone sets is that of the slot its byte names.
LEMMA ScanFinds ==
  ASSUME NEW s, AllocOK(s), NEW zone \in Zones, s.zone_flag[zone],
         NEW byte, byte = find_free_zone(s, zone), byte # NO_ZONE
  PROVE  /\ Header(s.arena[zone], zone, Decode(byte)) \in Addr
         /\ Header(s.arena[zone], zone, Decode(byte)) + METASIZE \in Addr \ {0}
         /\ MarkSlot(s, zone) \in StateType
<1> DEFINE free == FreeSlots(s, zone)
           slot == Min(free)
<1>1. s \in StateType
  BY DEF AllocOK
<1>2. free \in SUBSET Slots /\ free \in SUBSET Nat
  BY Positive DEF FreeSlots
<1>3. free # {} /\ byte = Encode(slot)
  BY DEF find_free_zone
<1> HIDE DEF free
<1>4. slot \in free /\ slot \in Slots
  BY <1>2, <1>3, MinIsLeast
<1>5. MarkSlot(s, zone) = [s EXCEPT !.bitmap[zone] = @ \cup {slot}]
  BY DEF MarkSlot, free
<1> HIDE DEF slot
<1>6. Decode(byte) = slot
  BY <1>3, <1>4, ZoneRoundTrip
<1>7. [s.bitmap EXCEPT ![zone] = @ \cup {slot}] \in [Zones -> SUBSET Slots]
  BY <1>1, <1>4 DEF StateType
<1>8. MarkSlot(s, zone) \in StateType
  BY <1>1, <1>5, <1>7 DEF StateType
<1> QED
  BY <1>4, <1>6, <1>8, SlotPage

LEMMA ScanInv ==
  ASSUME ThreadsInv, NEW t \in Threads, Scan(t)
  PROVE  ThreadsInv'
<1> DEFINE f == frame[t]
           zone == PoolOf(f)
           s == manage_free
           byte == find_free_zone(s, zone)
           head == Header(s.arena[zone], zone, Decode(byte))
<1>1. pc[t] = "scan" /\ pc[t] \in Within /\ "stamp" \in Within
  BY DEF Scan, At, Within, Labels, Outside
<1>2. f \in Frame /\ Rest("scan", before, f, s) /\ s \in StateType
  BY <1>1, HolderFacts
<1>3. /\ Allocating(before, f) /\ zone \in Zones
      /\ AllocOK(s) /\ s.zone_flag[zone]
      /\ TakeSlot(s, zone, Length(f)) \in malloc_impl(before, Total(f))
  BY <1>2 DEF Rest
<1>4. IF byte = NO_ZONE THEN Fail(t, s, FALSE)
      ELSE Step(t, MarkSlot(s, zone), [f EXCEPT !.ret = head + METASIZE], "stamp")
  BY DEF Scan, PoolOf, Length
<1>5. TakeSlot(s, zone, Length(f)) =
        IF byte = NO_ZONE THEN Return(s, NULL)
        ELSE Return(Stamp(MarkSlot(s, zone), head, Length(f)), head + METASIZE)
  BY DEF TakeSlot
<1>6. CASE byte = NO_ZONE
  <2>1. Return(s, NULL) \in malloc_impl(before, Total(f))
    BY <1>3, <1>5, <1>6
  <2>2. Return(s, NULL).ret = NULL /\ Return(s, NULL).st = s /\ Return(s, NULL).refused = FALSE
    BY DEF Return
  <2>3. Fail(t, s, FALSE)
    BY <1>4, <1>6
  <2> QED
    BY <1>1, <1>3, <2>1, <2>2, <2>3, NullInv
<1>7. CASE byte # NO_ZONE
  <2>1. head \in Addr /\ head + METASIZE \in Addr \ {0} /\ MarkSlot(s, zone) \in StateType
    BY <1>3, <1>7, ScanFinds
  <2>2. head \in Int /\ METASIZE \in Int
    BY <2>1, Positive DEF Addr
  <2> HIDE DEF f, zone, s, byte, head
  <2>3. PICK g : /\ g = [f EXCEPT !.ret = head + METASIZE]
                 /\ Step(t, MarkSlot(s, zone), g, "stamp")
    BY <1>4, <1>7
  <2>4. /\ g \in Frame /\ SameCall(f, g) /\ g.ret = head + METASIZE
        /\ g.owner = f.owner /\ g.moving = f.moving /\ g.refused = f.refused
    BY <1>2, <2>1, <2>3, RetChange
  <2>5. HeadOf(g) = head /\ HeadOf(g) \in Addr /\ g.ret # NULL
    BY <2>1, <2>2, <2>4 DEF HeadOf
  <2>6. Total(g) = Total(f) /\ Length(g) = Length(f) /\ PoolOf(g) = zone
    BY <2>4, SameOutcomes DEF zone
  <2>7. Allocating(before, g)
    BY <1>3, <2>4, <2>6 DEF Allocating, SameCall
  <2>8. Served(before, g, Stamp(MarkSlot(s, zone), HeadOf(g), Length(g)))
    BY <1>3, <1>5, <1>7, <2>4, <2>5, <2>6 DEF Served
  <2>9. Rest("stamp", before, g, MarkSlot(s, zone))
    BY <1>3, <2>5, <2>6, <2>7, <2>8 DEF Rest
  <2> QED
    BY <1>1, <2>1, <2>3, <2>4, <2>9, StepInv DEF f
<1> QED
  BY <1>6, <1>7

LEMMA StampInv ==
  ASSUME ThreadsInv, NEW t \in Threads, StampSlot(t)
  PROVE  ThreadsInv'
<1> DEFINE f == frame[t]
           s == Stamp(manage_free, HeadOf(f), Length(f))
<1>1. pc[t] = "stamp" /\ pc[t] \in Within
  BY DEF StampSlot, At, Within, Labels, Outside
<1>2. Rest("stamp", before, f, manage_free)
  BY <1>1, HolderFacts
<1>3. Allocating(before, f) /\ f.ret # NULL /\ Served(before, f, s)
  BY <1>2 DEF Rest
<1>4. Step(t, s, f, AfterMalloc(f))
  BY DEF StampSlot, HeadOf, Length
<1> QED
  BY <1>1, <1>3, <1>4, ServedInv

\* A LARGE mapping has room for the header and the block.
LEMMA LargeLenBounds ==
  ASSUME NEW s, NEW n \in Nat, SMALL - METASIZE < n, NEW len, len = LargeLen(s, n), len # -1
  PROVE  len \in Nat \ {0} /\ n + METASIZE <= len
<1>1. n + METASIZE \in Nat /\ n + METASIZE > SMALL /\ n + METASIZE > TINY
  BY SizesAssumption, Positive
<1>2. len = calculater_page_size(s, n + METASIZE)
  BY DEF LargeLen
<1>3. n + METASIZE \notin {TINY, SMALL}
  BY <1>1, SizesAssumption
<1>4. len = RoundUp(n + METASIZE)
  BY <1>1, <1>2, <1>3, PageSize
<1>5. len \in Nat /\ n + METASIZE <= len
  BY <1>1, <1>4, RoundUpBounds
<1> QED
  BY <1>1, <1>5, SizesAssumption

\* The length depends on nothing that the steps of malloc_impl change.
LEMMA SameLargeLen ==
  ASSUME NEW s, NEW t, t.page_flag = s.page_flag
  PROVE  \A n : LargeLen(t, n) = LargeLen(s, n)
<1>1. \A zone : Flag(t, zone) = Flag(s, zone)
  BY DEF Flag
<1>2. \A n : calculater_page_size(t, n) = calculater_page_size(s, n)
  BY <1>1 DEF calculater_page_size
<1> QED
  BY <1>2 DEF LargeLen

LEMMA ClearedFields ==
  ASSUME NEW s \in StateType
  PROVE  /\ ClearTable(s) \in StateType
         /\ ClearTable(s).page_flag = s.page_flag /\ ClearTable(s).pages = s.pages
<1>1. CASE s.large_flag
  BY <1>1 DEF ClearTable
<1>2. CASE ~s.large_flag
  <2> DEFINE L == [entry \in 0 .. LARGES |-> 0]
  <2>1. L \in [0 .. LARGES -> Addr]
    BY Positive DEF Addr
  <2>2. ClearTable(s) = [s EXCEPT !.large = L, !.large_flag = TRUE]
    BY <1>2 DEF ClearTable
  <2> HIDE DEF L
  <2>3. [s EXCEPT !.large = L, !.large_flag = TRUE] \in StateType
    BY <2>1 DEF StateType
  <2>4. /\ [s EXCEPT !.large = L, !.large_flag = TRUE].page_flag = s.page_flag
        /\ [s EXCEPT !.large = L, !.large_flag = TRUE].pages = s.pages
    BY DEF StateType
  <2> QED
    BY <2>2, <2>3, <2>4
<1> QED
  BY <1>1, <1>2

LEMMA MappedFields ==
  ASSUME NEW s \in StateType, NEW base, NEW len, PagesOf(base, len) \subseteq 1 .. (PAGES - 1)
  PROVE  MapPages(s, base, len) \in StateType /\ MapPages(s, base, len).page_flag = s.page_flag
  BY DEF MapPages, StateType

LEMMA MapInv ==
  ASSUME ThreadsInv, NEW t \in Threads, Map(t)
  PROVE  ThreadsInv'
<1> DEFINE f == frame[t]
           s == manage_free
           n == Total(f)
           len == LargeLen(s, n)
           ready == ClearTable(s)
           Made(base) == RecordLarge(InitLarge(MapPages(ready, base, len), base, len), base, n)
<1>1. pc[t] = "map" /\ pc[t] \in Within /\ "enter" \in Within
  BY DEF Map, At, Within, Labels, Outside
<1>2. f \in Frame /\ Rest("map", before, f, s) /\ s \in StateType
  BY <1>1, HolderFacts
<1>3. s = before /\ Allocating(before, f) /\ PoolOf(f) = "large"
  BY <1>2 DEF Rest
<1>4. n \in Nat /\ SMALL - METASIZE < n /\ malloc_impl(before, n) = MallocLarge(s, n)
  BY <1>2, <1>3, LengthFacts, MallocByClass
<1>5. ready \in StateType /\ ready.page_flag = s.page_flag /\ ready.pages = s.pages
  BY <1>2, ClearedFields
<1>6. LargeLen(ready, n) = len
  BY <1>5, SameLargeLen
<1>7. MallocLarge(s, n) =
        IF s.large_cnt >= LARGES THEN {Return(s, NULL)}
        ELSE IF len = -1 THEN {Return(ready, NULL)}
        ELSE {Refused(ready)} \cup {Return(Made(base), base + METASIZE) : base \in FreeRuns(ready, len)}
  BY <1>6 DEF MallocLarge
<1>8. IF s.large_cnt >= LARGES THEN Fail(t, s, FALSE)
      ELSE IF len = -1 THEN Fail(t, ready, FALSE)
      ELSE \/ Fail(t, ready, TRUE)
           \/ \E base \in FreeRuns(s, len) :
                Step(t, MapPages(ready, base, len), [f EXCEPT !.ret = base + METASIZE], "enter")
  BY DEF Map
<1>9. FreeRuns(ready, len) = FreeRuns(s, len)
  BY <1>5 DEF FreeRuns
<1>10. \A x : Return(x, NULL).ret = NULL /\ Return(x, NULL).st = x /\ Return(x, NULL).refused = FALSE
  BY DEF Return
<1>11. Refused(ready).ret = NULL /\ Refused(ready).st = ready /\ Refused(ready).refused = TRUE
  BY DEF Refused, Return
<1> HIDE DEF n, len, ready, Made
<1>12. CASE s.large_cnt >= LARGES
  <2>1. Return(s, NULL) \in malloc_impl(before, n) /\ Fail(t, s, FALSE)
    BY <1>4, <1>7, <1>8, <1>12
  <2> QED
    BY <1>1, <1>3, <1>10, <2>1, NullInv DEF n
<1>13. CASE ~(s.large_cnt >= LARGES) /\ len = -1
  <2>1. Return(ready, NULL) \in malloc_impl(before, n) /\ Fail(t, ready, FALSE)
    BY <1>4, <1>7, <1>8, <1>13
  <2> QED
    BY <1>1, <1>3, <1>10, <2>1, NullInv DEF n
<1>14. CASE ~(s.large_cnt >= LARGES) /\ len # -1 /\ Fail(t, ready, TRUE)
  <2>1. Refused(ready) \in malloc_impl(before, n)
    BY <1>4, <1>7, <1>14
  <2> QED
    BY <1>1, <1>3, <1>11, <1>14, <2>1, NullInv DEF n
<1>15. ASSUME ~(s.large_cnt >= LARGES), len # -1, NEW base \in FreeRuns(s, len),
              Step(t, MapPages(ready, base, len), [f EXCEPT !.ret = base + METASIZE], "enter")
       PROVE  ThreadsInv'
  <2> DEFINE m == MapPages(ready, base, len)
  <2>1. len \in Nat \ {0} /\ n + METASIZE <= len
    BY <1>4, <1>15, LargeLenBounds DEF len
  <2>2. /\ base \in Addr \ {0} /\ Region(base, len) \subseteq Addr
        /\ PagesOf(base, len) \subseteq 1 .. (PAGES - 1)
    BY <1>2, <1>15, <2>1, FreshRun
  <2>3. base + METASIZE \in Addr /\ base + METASIZE # NULL /\ base \in Int
    <3>1. base + METASIZE \in Region(base, len)
      BY <1>4, <2>1, <2>2, SizesAssumption, Positive DEF Region, Addr
    <3> QED
      BY <2>2, <3>1, Positive DEF Addr
  <2>4. m \in StateType /\ m.page_flag = ready.page_flag
    BY <1>5, <2>2, MappedFields
  <2>5. LargeLen(m, n) = len
    BY <1>5, <2>4, SameLargeLen DEF len
  <2>6. Return(Made(base), base + METASIZE) \in malloc_impl(before, n)
    BY <1>4, <1>7, <1>9, <1>15
  <2>7. Made(base) = RecordLarge(InitLarge(m, base, len), base, n)
    BY DEF Made
  <2> HIDE DEF f, s, m
  <2>8. PICK g : g = [f EXCEPT !.ret = base + METASIZE] /\ Step(t, m, g, "enter")
    BY <1>15 DEF m
  <2>9. /\ g \in Frame /\ SameCall(f, g) /\ g.ret = base + METASIZE
        /\ g.owner = f.owner /\ g.moving = f.moving /\ g.refused = f.refused
    BY <1>2, <2>3, <2>8, RetChange
  <2>10. HeadOf(g) = base /\ HeadOf(g) \in Addr /\ g.ret # NULL
    BY <2>2, <2>3, <2>9, Positive DEF HeadOf
  <2>11. Total(g) = n /\ PoolOf(g) = "large"
    BY <1>3, <2>9, SameOutcomes DEF n
  <2>12. Allocating(before, g)
    BY <1>3, <2>9, <2>11 DEF Allocating, SameCall, n
  <2>13. Served(before, g, RecordLarge(InitLarge(m, HeadOf(g), LargeLen(m, Total(g))), HeadOf(g), Total(g)))
    BY <2>5, <2>6, <2>7, <2>9, <2>10, <2>11 DEF Served
  <2>14. Rest("enter", before, g, m)
    BY <2>10, <2>11, <2>12, <2>13 DEF Rest
  <2> QED
    BY <1>1, <2>4, <2>8, <2>9, <2>14, StepInv DEF f
<1> QED
  BY <1>8, <1>12, <1>13, <1>14, <1>15

\* The header of a new mapping and its entry have the types they need.
LEMMA InitLargeType ==
  ASSUME NEW s \in StateType, NEW base \in Addr, NEW len \in Int
  PROVE  InitLarge(s, base, len) \in StateType
<1> DEFINE entry == FreeEntry(s)
           M == [size |-> len, position |-> entry, client_size |-> 0]
           L == IF entry \in Entries THEN [s.large EXCEPT ![entry] = base] ELSE s.large
           D == [s.meta EXCEPT ![base] = M]
           F == {e \in Entries : s.large[e] = 0}
<1>1. entry \in Nat
  <2>1. F \cup {LARGES} \in SUBSET Nat /\ F \cup {LARGES} # {}
    BY Positive
  <2>2. entry = Min(F \cup {LARGES})
    BY DEF FreeEntry
  <2> HIDE DEF entry, F
  <2> QED
    BY <2>1, <2>2, MinIsLeast
<1>2. s.large \in [0 .. LARGES -> Addr] /\ s.meta \in [Addr -> Meta]
  BY DEF StateType
<1>3. InitLarge(s, base, len) = [s EXCEPT !.large = L, !.meta = D]
  BY DEF InitLarge
<1> HIDE DEF entry
<1>4. M \in Meta
  BY <1>1 DEF Meta
<1> HIDE DEF M
<1>5. L \in [0 .. LARGES -> Addr] /\ D \in [Addr -> Meta]
  BY <1>2, <1>4
<1> HIDE DEF L, D
<1> QED
  BY <1>3, <1>5 DEF StateType

LEMMA EnterLargeInv ==
  ASSUME ThreadsInv, NEW t \in Threads, EnterLarge(t)
  PROVE  ThreadsInv'
<1> DEFINE f == frame[t]
           n == Total(f)
           len == LargeLen(manage_free, n)
           s == InitLarge(manage_free, HeadOf(f), len)
<1>1. pc[t] = "enter" /\ pc[t] \in Within /\ "record" \in Within
  BY DEF EnterLarge, At, Within, Labels, Outside
<1>2. f \in Frame /\ Rest("enter", before, f, manage_free) /\ manage_free \in StateType
  BY <1>1, HolderFacts
<1>3. /\ Allocating(before, f) /\ PoolOf(f) = "large" /\ f.ret # NULL /\ HeadOf(f) \in Addr
      /\ Served(before, f, RecordLarge(s, HeadOf(f), n))
  BY <1>2 DEF Rest
<1>4. Step(t, s, f, "record") /\ SameCall(f, f)
  BY DEF EnterLarge, HeadOf, SameCall
<1>5. len \in Int
  <2>1. n \in Nat /\ SMALL - METASIZE < n
    BY <1>2, <1>3, LengthFacts
  <2> HIDE DEF n
  <2>2. len # -1 => len \in Nat
    BY <2>1, LargeLenBounds
  <2> QED
    BY <2>2
<1> HIDE DEF len
<1>6. s \in StateType
  BY <1>2, <1>3, <1>5, InitLargeType
<1>7. Rest("record", before, f, s)
  BY <1>3 DEF Rest
<1> QED
  BY <1>1, <1>2, <1>4, <1>6, <1>7, StepInv

LEMMA RecordInv ==
  ASSUME ThreadsInv, NEW t \in Threads, Record(t)
  PROVE  ThreadsInv'
<1> DEFINE f == frame[t]
           s == RecordLarge(manage_free, HeadOf(f), Total(f))
<1>1. pc[t] = "record" /\ pc[t] \in Within
  BY DEF Record, At, Within, Labels, Outside
<1>2. Rest("record", before, f, manage_free)
  BY <1>1, HolderFacts
<1>3. Allocating(before, f) /\ f.ret # NULL /\ Served(before, f, s)
  BY <1>2 DEF Rest
<1>4. Step(t, s, f, AfterMalloc(f))
  BY DEF Record, HeadOf
<1> QED
  BY <1>1, <1>3, <1>4, ServedInv

-----------------------------------------------------------------------------
(***************************************************************************)
(* The rest of a call: realloc_impl's decision, the copy, the zeros, and   *)
(* free_impl.                                                              *)
(***************************************************************************)
LEMMA OwnerTyped ==
  ASSUME NEW s, AllocOK(s), NEW ptr \in Addr, NEW owner, owner = find_live_allocation(s, ptr)
  PROVE  owner \in OwnerType
<1>1. owner = NoOwner \/ owner \in Owners
  BY LookupExact
<1>2. Slots \subseteq Int /\ Entries \subseteq Int
  BY Positive
<1> QED
  BY <1>1, <1>2 DEF NoOwner, Owners, OwnerType

\* Every outcome of a call from a well-formed state is well formed.
LEMMA OutcomesOK ==
  ASSUME NEW s0, AllocOK(s0), NEW f \in Frame, NEW o \in Outcomes(s0, f)
  PROVE  AllocOK(o.st) /\ o.ret \in Addr
<1>1. f.op \in Ops /\ f.ptr \in Addr /\ f.count \in Nat /\ f.size \in Nat
  BY FrameFields
<1>2. CASE f.op = "malloc"
  BY <1>1, <1>2, MallocImplCorrect DEF Outcomes
<1>3. CASE f.op = "realloc"
  BY <1>1, <1>3, ReallocImplCorrect DEF Outcomes
<1>4. CASE f.op = "calloc"
  BY <1>1, <1>4, CalloImpCorrect DEF Outcomes
<1>5. CASE f.op = "free"
  <2>1. 0 \in Addr
    BY Positive DEF Addr
  <2> QED
    BY <1>1, <1>5, <2>1, FreeImplCorrect DEF Outcomes
<1>6. CASE f.op = "show"
  <2>1. 0 \in Addr
    BY Positive DEF Addr
  <2> QED
    BY <1>6, <2>1 DEF Outcomes, Return
<1> QED
  BY <1>1, <1>2, <1>3, <1>4, <1>5, <1>6 DEF Ops

\* The code that malloc_impl starts with.
LEMMA StartsAllocating ==
  ASSUME NEW s0, NEW f \in Frame, Allocating(s0, f), f.ret = NULL
  PROVE  /\ MallocLabel(Total(f)) \in Within
         /\ Rest(MallocLabel(Total(f)), s0, f, s0)
<1>1. PoolOf(f) \in Zones \cup {"large"}
  BY LengthFacts
<1>2. MallocLabel(Total(f)) = IF PoolOf(f) = "large" THEN "map" ELSE "arena"
  BY DEF MallocLabel, PoolOf, Length
<1>3. {"map", "arena"} \subseteq Within
  BY DEF Within, Labels, Outside
<1>4. CASE PoolOf(f) = "large"
  BY <1>2, <1>3, <1>4 DEF Rest
<1>5. CASE PoolOf(f) \in Zones
  <2>1. MallocLabel(Total(f)) = "arena"
    BY <1>2, <1>5
  <2>2. Rest("arena", s0, f, s0)
    BY <1>5 DEF Rest
  <2> QED
    BY <1>3, <2>1, <2>2
<1> QED
  BY <1>1, <1>4, <1>5

LEMMA FindInv ==
  ASSUME ThreadsInv, NEW t \in Threads, Find(t)
  PROVE  ThreadsInv'
<1> DEFINE f == frame[t]
           s == manage_free
           owner == find_live_allocation(s, f.ptr)
<1>1. pc[t] = "find" /\ pc[t] \in Within /\ "unlock" \in Within
  BY DEF Find, At, Within, Labels, Outside
<1>2. /\ f \in Frame /\ Rest("find", before, f, s) /\ AllocOK(before)
      /\ f.op # "calloc" => f.count = 1
  BY <1>1, HolderFacts
<1>3. s = before /\ f.op = "realloc" /\ f.ptr # NULL /\ f.size # 0 /\ Fresh(f)
  BY <1>2 DEF Rest
<1>4. /\ f.ptr \in Addr /\ f.size \in Nat /\ f.refused = FALSE /\ f.ret = NULL
      /\ Total(f) = f.size
  BY <1>2, <1>3, FrameFields DEF Fresh, Total
<1>5. AllocOK(s) /\ s \in StateType /\ owner \in OwnerType
  BY <1>2, <1>3, <1>4, OwnerTyped DEF AllocOK
<1>6. IF owner = NoOwner THEN Fail(t, s, FALSE)
      ELSE IF f.size <= Capacity(s, owner)
      THEN Step(t, ResizeInPlace(s, owner, f.size), [f EXCEPT !.ret = f.ptr], "unlock")
      ELSE Step(t, s, [f EXCEPT !.owner = owner, !.moving = TRUE], MallocLabel(f.size))
  BY DEF Find
<1>7. Outcomes(before, f) = realloc_impl(s, f.ptr, f.size)
  BY <1>3 DEF Outcomes
<1> DEFINE u == ResizeInPlace(s, owner, f.size)
<1>8. /\ owner = NoOwner => Return(s, NULL) \in Outcomes(before, f)
      /\ owner # NoOwner /\ f.size <= Capacity(s, owner) =>
           Return(u, f.ptr) \in Outcomes(before, f)
  BY <1>3, <1>7 DEF realloc_impl
<1>9. \A x, p : Return(x, p) = [st |-> x, ret |-> p, refused |-> FALSE, exit |-> FALSE]
  BY DEF Return
<1> HIDE DEF u
<1>10. CASE owner = NoOwner
  <2>1. Fail(t, s, FALSE)
    BY <1>6, <1>10
  <2>2. [st |-> s, ret |-> NULL, refused |-> FALSE, exit |-> FALSE] \in Outcomes(before, f)
    BY <1>8, <1>9, <1>10
  <2>3. f.op # "show"
    BY <1>3
  <2> QED
    BY <1>1, <1>5, <2>1, <2>2, <2>3, FailInv
<1>11. CASE owner # NoOwner /\ f.size <= Capacity(s, owner)
  <2>1. Return(u, f.ptr) \in Outcomes(before, f)
    BY <1>8, <1>11
  <2>2. u \in StateType
    <3>1. Return(u, f.ptr).st = u
      BY <1>9
    <3> QED
      BY <1>2, <2>1, <3>1, OutcomesOK DEF AllocOK
  <2> HIDE DEF f, s, owner
  <2>3. PICK g : g = [f EXCEPT !.ret = f.ptr] /\ Step(t, u, g, "unlock")
    BY <1>6, <1>11 DEF u
  <2>4. /\ g \in Frame /\ SameCall(f, g) /\ g.ret = f.ptr /\ g.refused = f.refused
    BY <1>2, <1>4, <2>3, RetChange
  <2>5. Outcomes(before, g) = Outcomes(before, f)
    BY <2>4, SameOutcomes
  <2>6. [st |-> u, ret |-> g.ret, refused |-> g.refused, exit |-> FALSE] \in Outcomes(before, g)
    BY <1>4, <1>9, <2>1, <2>4, <2>5
  <2>7. Finished(before, g, u)
    BY <1>3, <2>4, <2>6 DEF Finished, SameCall
  <2>8. Rest("unlock", before, g, u)
    BY <2>7 DEF Rest
  <2> QED
    BY <1>1, <2>2, <2>3, <2>4, <2>8, StepInv DEF f
<1>12. CASE owner # NoOwner /\ ~(f.size <= Capacity(s, owner))
  <2>1. owner = find_live_allocation(before, f.ptr)
    BY <1>3
  <2>2. ~(f.size <= Capacity(before, owner))
    BY <1>3, <1>12
  <2> HIDE DEF f, s, owner
  <2>3. PICK g : /\ g = [f EXCEPT !.owner = owner, !.moving = TRUE]
                 /\ Step(t, s, g, MallocLabel(f.size))
    BY <1>6, <1>12
  <2>4. /\ g \in Frame /\ SameCall(f, g) /\ g.owner = owner /\ g.moving
        /\ g.ret = f.ret /\ g.refused = f.refused
    <3>1. f \in Frame /\ owner \in OwnerType /\ g = [f EXCEPT !.owner = owner, !.moving = TRUE]
      BY <1>2, <1>5, <2>3
    <3>2. g \in Frame /\ SameCall(f, g)
      BY <3>1 DEF Frame, OwnerType, SameCall
    <3>3. g.owner = owner /\ g.ret = f.ret /\ g.refused = f.refused
      BY <3>1 DEF Frame
    <3>4. g.moving
      BY <3>1 DEF Frame
    <3> QED
      BY <3>2, <3>3, <3>4
  <2>5. Total(g) = f.size
    BY <1>4, <2>4, SameOutcomes
  <2>6. Allocating(before, g)
    BY <1>3, <1>4, <1>12, <2>1, <2>2, <2>4 DEF Allocating, SameCall
  <2>7. /\ MallocLabel(f.size) \in Within
        /\ Rest(MallocLabel(f.size), before, g, s)
    BY <1>3, <1>4, <2>4, <2>5, <2>6, StartsAllocating
  <2> QED
    BY <1>1, <1>5, <2>3, <2>4, <2>7, StepInv DEF f
<1> QED
  BY <1>10, <1>11, <1>12

LEMMA CopyInv ==
  ASSUME ThreadsInv, NEW t \in Threads, Copy(t)
  PROVE  ThreadsInv'
<1> DEFINE f == frame[t]
           s == manage_free
           m == Return(s, f.ret)
           u == ft_memcpy(s, f.ret, f.ptr, Requested(s, f.owner))
<1>1. pc[t] = "copy" /\ pc[t] \in Within /\ "lookup" \in Within
  BY DEF Copy, At, Within, Labels, Outside
<1>2. /\ f \in Frame /\ Rest("copy", before, f, s) /\ AllocOK(before)
      /\ f.op # "calloc" => f.count = 1
  BY <1>1, HolderFacts
<1>3. Allocating(before, f) /\ f.moving /\ f.ret # NULL /\ m \in malloc_impl(before, Total(f))
  BY <1>2 DEF Rest, Served
<1>4. /\ f.op = "realloc" /\ ~f.refused
      /\ f.owner = find_live_allocation(before, f.ptr) /\ f.owner # NoOwner
  BY <1>3 DEF Allocating
<1>5. f.ptr \in Addr /\ f.ret \in Addr /\ Total(f) \in Nat
  BY <1>2, FrameFields
<1>6. m.st = s /\ m.ret = f.ret
  BY DEF Return
<1>7. Move(m, f.ptr, f.owner) \subseteq Outcomes(before, f)
  BY <1>2, <1>3, <1>6, Continues
<1>8. Move(m, f.ptr, f.owner) = {[x EXCEPT !.ret = f.ret] : x \in free_impl(u, f.ptr)}
  BY <1>6 DEF Move
<1>9. Step(t, u, f, "lookup") /\ SameCall(f, f)
  BY DEF Copy, SameCall
<1> HIDE DEF m
<1>10. AllocOK(s) /\ Extends(before, s)
  BY <1>2, <1>3, <1>5, <1>6, MallocImplCorrect
<1>11. SlotOwner(s, f.owner, f.ptr) \/ EntryOwner(s, f.owner, f.ptr)
  BY <1>2, <1>4, <1>5, <1>10, OwnerFound, OwnerKept
<1>12. AllocOK(u) /\ u \in StateType
  <2>1. /\ Requested(s, f.owner) \in Nat
        /\ \A i \in 0 .. (Requested(s, f.owner) - 1) : f.ptr + i \in Addr
    BY <1>5, <1>10, <1>11, RequestedInside
  <2>2. AllocOK(u)
    BY <1>5, <1>10, <2>1, MemcpyOK
  <2> QED
    BY <2>2 DEF AllocOK
<1> HIDE DEF f, s, u
<1>13. Freeing(before, f, u)
  BY <1>4, <1>7, <1>8, <1>12 DEF Freeing
<1>14. Rest("lookup", before, f, u)
  BY <1>13 DEF Rest
<1> QED
  BY <1>1, <1>2, <1>9, <1>12, <1>14, StepInv DEF f

LEMMA ZeroInv ==
  ASSUME ThreadsInv, NEW t \in Threads, Zero(t)
  PROVE  ThreadsInv'
<1> DEFINE f == frame[t]
           s == manage_free
           m == Return(s, f.ret)
           u == ft_memset(s, f.ret, 0, Total(f))
<1>1. pc[t] = "zero" /\ pc[t] \in Within /\ "unlock" \in Within
  BY DEF Zero, At, Within, Labels, Outside
<1>2. /\ f \in Frame /\ Rest("zero", before, f, s) /\ AllocOK(before)
      /\ f.op # "calloc" => f.count = 1
  BY <1>1, HolderFacts
<1>3. /\ Allocating(before, f) /\ f.op = "calloc" /\ f.ret # NULL
      /\ m \in malloc_impl(before, Total(f))
  BY <1>2 DEF Rest, Served
<1>4. ~f.moving /\ ~f.refused /\ f.refused \in BOOLEAN
  BY <1>2, <1>3, FrameFields DEF Allocating
<1>5. m = [st |-> s, ret |-> f.ret, refused |-> FALSE, exit |-> FALSE] /\ m.st = s /\ m.ret = f.ret
  BY DEF Return
<1>6. [m EXCEPT !.st = u] \in Outcomes(before, f)
  BY <1>2, <1>3, <1>4, <1>5, Continues
<1>7. Step(t, u, f, "unlock") /\ SameCall(f, f)
  BY DEF Zero, SameCall
<1> HIDE DEF f, s, u
<1>8. [m EXCEPT !.st = u] = Return(u, f.ret)
  BY ReturnChange
<1>9. /\ Return(u, f.ret) = [st |-> u, ret |-> f.ret, refused |-> FALSE, exit |-> FALSE]
       /\ Return(u, f.ret).st = u
  BY DEF Return
<1> HIDE DEF m
<1>10. u \in StateType
  BY <1>2, <1>6, <1>8, <1>9, OutcomesOK DEF AllocOK
<1>11. f.refused = FALSE
  BY <1>4
<1>12. Finished(before, f, u)
  BY <1>3, <1>6, <1>8, <1>9, <1>11 DEF Finished
<1>13. Rest("unlock", before, f, u)
  BY <1>12 DEF Rest
<1> QED
  BY <1>1, <1>2, <1>7, <1>10, <1>13, StepInv DEF f

\* What free_impl still does once it has found the owner.
LEMMA FreeingFields ==
  ASSUME NEW s0, NEW f \in Frame, NEW s, Freeing(s0, f, s),
         NEW owner, owner = find_live_allocation(s, f.ptr)
  PROVE  /\ owner = NoOwner => Return(s, f.ret) \in Outcomes(s0, f)
         /\ owner # NoOwner /\ owner.zone \in Zones =>
              Return(ClearSlot(s, owner), f.ret) \in Outcomes(s0, f)
         /\ owner # NoOwner /\ owner.zone \notin Zones =>
              Return(DropEntry(Unmap(s, owner), owner), f.ret) \in Outcomes(s0, f)
<1>1. ASSUME NEW t, Return(t, NULL) \in free_impl(s, f.ptr)
      PROVE  Return(t, f.ret) \in Outcomes(s0, f)
  <2>1. [Return(t, NULL) EXCEPT !.ret = f.ret] \in Outcomes(s0, f)
    BY <1>1 DEF Freeing
  <2>2. [Return(t, NULL) EXCEPT !.ret = f.ret] = Return(t, f.ret)
    BY ReturnChange
  <2> QED
    BY <2>1, <2>2
<1>2. /\ owner = NoOwner => Return(s, NULL) \in free_impl(s, f.ptr)
      /\ owner # NoOwner /\ owner.zone \in Zones =>
           Return(ClearSlot(s, owner), NULL) \in free_impl(s, f.ptr)
      /\ owner # NoOwner /\ owner.zone \notin Zones =>
           Return(DropEntry(Unmap(s, owner), owner), NULL) \in free_impl(s, f.ptr)
  BY DEF free_impl, ClearLarge
<1> QED
  BY <1>1, <1>2

\* A call that is over is where its Return says.
LEMMA FinishedReturn ==
  ASSUME NEW s0, AllocOK(s0), NEW f \in Frame, NEW s, Return(s, f.ret) \in Outcomes(s0, f),
         ~f.refused, f.op = "show" => f.shown = ShownLines(s0)
  PROVE  s \in StateType /\ Rest("unlock", s0, f, s)
<1>1. Return(s, f.ret) = [st |-> s, ret |-> f.ret, refused |-> FALSE, exit |-> FALSE]
      /\ Return(s, f.ret).st = s
  BY DEF Return
<1>2. f.refused = FALSE
  BY FrameFields
<1>3. Finished(s0, f, s)
  BY <1>1, <1>2 DEF Finished
<1>4. s \in StateType
  BY <1>1, OutcomesOK DEF AllocOK
<1> QED
  BY <1>3, <1>4 DEF Rest

LEMMA LookupInv ==
  ASSUME ThreadsInv, NEW t \in Threads, Lookup(t)
  PROVE  ThreadsInv'
<1> DEFINE f == frame[t]
           s == manage_free
           owner == find_live_allocation(s, f.ptr)
<1>1. pc[t] = "lookup" /\ pc[t] \in Within /\ {"unlock", "release"} \subseteq Within
  BY DEF Lookup, At, Within, Labels, Outside
<1>2. f \in Frame /\ Rest("lookup", before, f, s) /\ AllocOK(before) /\ s \in StateType
  BY <1>1, HolderFacts
<1>3. Freeing(before, f, s)
  BY <1>2 DEF Rest
<1>4. AllocOK(s) /\ f.ptr \in Addr /\ owner \in OwnerType
  BY <1>2, <1>3, FrameFields, OwnerTyped DEF Freeing
<1>5. Step(t, s, [f EXCEPT !.owner = owner], IF owner = NoOwner THEN "unlock" ELSE "release")
  BY DEF Lookup
<1>6. owner = find_live_allocation(s, f.ptr)
  OBVIOUS
<1> HIDE DEF f, s, owner
<1>7. PICK g : /\ g = [f EXCEPT !.owner = owner]
               /\ Step(t, s, g, IF owner = NoOwner THEN "unlock" ELSE "release")
  BY <1>5
<1>8. /\ g \in Frame /\ SameCall(f, g) /\ g.owner = owner
      /\ g.ret = f.ret /\ g.refused = f.refused
  BY <1>2, <1>4, <1>7, OwnerChange
<1>9. Freeing(before, g, s) /\ g.ptr = f.ptr /\ g.op # "show" /\ ~g.refused
  BY <1>3, <1>8, SameOutcomes DEF Freeing, SameCall
<1>10. CASE owner = NoOwner
  <2>1. Return(s, g.ret) \in Outcomes(before, g)
    BY <1>6, <1>8, <1>9, <1>10, FreeingFields
  <2>2. Rest("unlock", before, g, s)
    BY <1>2, <1>8, <1>9, <2>1, FinishedReturn
  <2> QED
    BY <1>1, <1>2, <1>7, <1>8, <1>10, <2>2, StepInv DEF f
<1>11. CASE owner # NoOwner
  <2>1. Rest("release", before, g, s)
    BY <1>6, <1>8, <1>9, <1>11 DEF Rest
  <2> QED
    BY <1>1, <1>2, <1>7, <1>8, <1>11, <2>1, StepInv DEF f
<1> QED
  BY <1>10, <1>11

LEMMA UnmapType ==
  ASSUME NEW s \in StateType, NEW owner
  PROVE  Unmap(s, owner) \in StateType
<1> DEFINE base == s.large[owner.slot]
           len == s.meta[base].size
           M == [a \in Addr |-> IF a \in Region(base, len) THEN ZeroMeta ELSE s.meta[a]]
           V == [a \in Addr |-> IF a \in Region(base, len) THEN 0 ELSE s.mem[a]]
           P == s.pages \ PagesOf(base, len)
<1>1. Unmap(s, owner) = [s EXCEPT !.pages = P, !.meta = M, !.mem = V]
  BY DEF Unmap, UnmapPages
<1>2. ZeroMeta \in Meta /\ 0 \in Values
  BY ValuesAssumption DEF ZeroMeta, Meta
<1>3. /\ s.pages \in SUBSET (1 .. (PAGES - 1))
      /\ s.meta \in [Addr -> Meta] /\ s.mem \in [Addr -> Values]
  BY DEF StateType
<1> HIDE DEF base, len
<1>4. P \in SUBSET (1 .. (PAGES - 1)) /\ M \in [Addr -> Meta] /\ V \in [Addr -> Values]
  BY <1>2, <1>3
<1> HIDE DEF M, V, P
<1> QED
  BY <1>1, <1>4 DEF StateType

LEMMA ReleaseInv ==
  ASSUME ThreadsInv, NEW t \in Threads, Release(t)
  PROVE  ThreadsInv'
<1> DEFINE f == frame[t]
           s == manage_free
           owner == f.owner
<1>1. pc[t] = "release" /\ pc[t] \in Within /\ {"unlock", "drop", "exit"} \subseteq Within
  BY DEF Release, At, Within, Labels, Outside
<1>2. f \in Frame /\ Rest("release", before, f, s) /\ AllocOK(before) /\ s \in StateType
  BY <1>1, HolderFacts
<1>3. /\ Freeing(before, f, s) /\ owner = find_live_allocation(s, f.ptr) /\ owner # NoOwner
  BY <1>2 DEF Rest
<1>4. ~f.refused /\ f.op # "show" /\ SameCall(f, f)
  BY <1>3 DEF Freeing, SameCall
<1>5. IF owner.zone \in Zones
      THEN Step(t, ClearSlot(s, owner), f, "unlock")
      ELSE Step(t, Unmap(s, owner), f, "drop") \/ Step(t, s, f, "exit")
  BY DEF Release
<1>6. CASE owner.zone \in Zones
  <2>1. Return(ClearSlot(s, owner), f.ret) \in Outcomes(before, f)
    BY <1>2, <1>3, <1>6, FreeingFields
  <2>2. ClearSlot(s, owner) \in StateType /\ Rest("unlock", before, f, ClearSlot(s, owner))
    BY <1>2, <1>4, <2>1, FinishedReturn
  <2> QED
    BY <1>1, <1>2, <1>4, <1>5, <1>6, <2>2, StepInv
<1>7. CASE owner.zone \notin Zones /\ Step(t, Unmap(s, owner), f, "drop")
  <2>1. Return(DropEntry(Unmap(s, owner), owner), f.ret) \in Outcomes(before, f)
    BY <1>2, <1>3, <1>7, FreeingFields
  <2>2. Rest("drop", before, f, Unmap(s, owner))
    BY <1>4, <2>1 DEF Rest
  <2>3. Unmap(s, owner) \in StateType
    BY <1>2, UnmapType
  <2> QED
    BY <1>1, <1>2, <1>4, <1>7, <2>2, <2>3, StepInv
<1>8. CASE Step(t, s, f, "exit")
  <2>1. Rest("exit", before, f, s)
    BY DEF Rest
  <2> QED
    BY <1>1, <1>2, <1>4, <1>8, <2>1, StepInv
<1> QED
  BY <1>5, <1>6, <1>7, <1>8

LEMMA DropInv ==
  ASSUME ThreadsInv, NEW t \in Threads, Drop(t)
  PROVE  ThreadsInv'
<1> DEFINE f == frame[t]
           s == DropEntry(manage_free, f.owner)
<1>1. pc[t] = "drop" /\ pc[t] \in Within /\ "unlock" \in Within
  BY DEF Drop, At, Within, Labels, Outside
<1>2. f \in Frame /\ Rest("drop", before, f, manage_free) /\ AllocOK(before)
  BY <1>1, HolderFacts
<1>3. ~f.refused /\ f.op # "show" /\ Return(s, f.ret) \in Outcomes(before, f)
  BY <1>2 DEF Rest
<1>4. Step(t, s, f, "unlock") /\ SameCall(f, f)
  BY DEF Drop, SameCall
<1>5. s \in StateType /\ Rest("unlock", before, f, s)
  BY <1>2, <1>3, FinishedReturn
<1> QED
  BY <1>1, <1>2, <1>4, <1>5, StepInv

-----------------------------------------------------------------------------
(***************************************************************************)
(* show_alloc_mem.                                                         *)
(***************************************************************************)
LEMMA LinesTyped ==
  ASSUME NEW s, AllocOK(s)
  PROVE  PoolLines(s) \in SUBSET Line /\ LargeLines(s) \in SUBSET Line
<1>0. s.meta \in [Addr -> Meta]
  BY DEF AllocOK, StateType
<1>1. ASSUME NEW zone \in Zones, NEW slot \in Slots, slot \in s.bitmap[zone]
      PROVE  ShownLine(s, zone, Header(s.arena[zone], zone, slot)) \in Line
  <2> DEFINE head == Header(s.arena[zone], zone, slot)
             size == s.meta[head].size
  <2>1. s.zone_flag[zone]
    BY <1>1 DEF AllocOK, PoolOK
  <2>2. head \in Addr /\ head \in Int
    BY <2>1, SlotPage, Positive DEF Addr
  <2>3. size = Stride(zone) + slot \div BITS
    BY <2>1 DEF AllocOK, PoolOK, SlotOK
  <2>4. size - (size % INDEX_UNIT) \in Nat
    BY <2>3, MaskIndex, StrideFacts
  <2>5. s.meta[head].client_size \in Int
    BY <1>0, <2>2 DEF Meta
  <2>6. zone # "large"
    OBVIOUS
  <2> DEFINE unit == ToInt(size - (size % INDEX_UNIT))
             bytes == s.meta[head].client_size
  <2>7. unit \in Int
    BY <2>4, ToIntInt
  <2>8. ShownLine(s, zone, head) =
          [zone |-> zone, from |-> head, to |-> head + bytes, bytes |-> bytes, unit |-> unit]
    BY <2>6 DEF ShownLine
  <2> HIDE DEF head, size, unit, bytes
  <2>9. bytes \in Int /\ head + bytes \in Int
    BY <2>2, <2>5 DEF bytes
  <2>10. ShownLine(s, zone, head) \in Line
    BY <2>2, <2>7, <2>8, <2>9 DEF Line
  <2> QED
    BY <2>10 DEF head
<1>2. ASSUME NEW entry \in LiveEntries(s)
      PROVE  ShownLine(s, "large", s.large[entry]) \in Line
  <2> DEFINE head == s.large[entry]
             size == s.meta[head].size
             unit == ToInt(size)
             bytes == s.meta[head].client_size
  <2>1. head \in Addr /\ head \in Int /\ size \in Nat
    BY EntryPage, Positive DEF Addr
  <2>2. bytes \in Int
    BY <1>0, <2>1 DEF Meta
  <2>3. ShownLine(s, "large", head) =
          [zone |-> "large", from |-> head, to |-> head + bytes, bytes |-> bytes, unit |-> unit]
    BY DEF ShownLine
  <2>4. unit \in Int
    BY <2>1, ToIntInt
  <2> HIDE DEF head, size, unit, bytes
  <2>5. head + bytes \in Int
    BY <2>1, <2>2
  <2>6. ShownLine(s, "large", head) \in Line
    BY <2>1, <2>2, <2>3, <2>4, <2>5 DEF Line
  <2> QED
    BY <2>6 DEF head
<1>3. PoolLines(s) \in SUBSET Line
  BY <1>1 DEF PoolLines
<1>4. LargeLines(s) \in SUBSET Line
  BY <1>2 DEF LargeLines, LiveEntries
<1> QED
  BY <1>3, <1>4

LEMMA ShowInv ==
  ASSUME ThreadsInv, NEW t \in Threads, Show1(t) \/ Show2(t)
  PROVE  ThreadsInv'
<1> DEFINE f == frame[t]
           s == manage_free
<1>1. /\ pc[t] \in {"show1", "show2"} /\ pc[t] \in Within
      /\ {"show2", "unlock"} \subseteq Within
  <2>1. pc[t] \in {"show1", "show2"}
    BY DEF Show1, Show2, At
  <2> QED
    BY <2>1 DEF Within, Labels, Outside
<1>2. f \in Frame /\ Rest(pc[t], before, f, s) /\ AllocOK(before) /\ s \in StateType
  BY <1>1, HolderFacts
<1>3. s = before /\ f.op = "show" /\ ~f.refused /\ f.ret = NULL
  BY <1>1, <1>2 DEF Rest, Showing
<1>4. PoolLines(s) \in SUBSET Line /\ LargeLines(s) \in SUBSET Line
  BY <1>2, <1>3, LinesTyped
<1>5. CASE Show1(t)
  <2>1. Step(t, s, [f EXCEPT !.shown = PoolLines(s)], "show2")
    BY <1>5 DEF Show1
  <2> HIDE DEF f, s
  <2>2. PICK g : g = [f EXCEPT !.shown = PoolLines(s)] /\ Step(t, s, g, "show2")
    BY <2>1
  <2>3. /\ g \in Frame /\ SameCall(f, g) /\ g.shown = PoolLines(s)
        /\ g.ret = f.ret /\ g.refused = f.refused
    BY <1>2, <1>4, <2>2, ShownChange
  <2>4. Rest("show2", before, g, s)
    BY <1>3, <2>3 DEF Rest, Showing, SameCall
  <2> QED
    BY <1>1, <1>2, <2>2, <2>3, <2>4, StepInv DEF f
<1>6. CASE Show2(t)
  <2>1. Step(t, s, [f EXCEPT !.shown = @ \cup LargeLines(s)], "unlock") /\ pc[t] = "show2"
    BY <1>6 DEF Show2, At
  <2>2. f.shown = PoolLines(s)
    BY <1>2, <1>3, <2>1 DEF Rest
  <2> HIDE DEF f, s
  <2>3. PICK g : g = [f EXCEPT !.shown = ShownLines(s)] /\ Step(t, s, g, "unlock")
    BY <2>1, <2>2 DEF ShownLines
  <2>4. ShownLines(s) \in SUBSET Line
    BY <1>4 DEF ShownLines
  <2>5. /\ g \in Frame /\ SameCall(f, g) /\ g.shown = ShownLines(s)
        /\ g.ret = f.ret /\ g.refused = f.refused
    BY <1>2, <2>3, <2>4, ShownChange
  <2>6. Return(s, g.ret) \in Outcomes(before, g)
    BY <1>3, <2>5 DEF Outcomes, SameCall
  <2>7. Rest("unlock", before, g, s)
    BY <1>2, <1>3, <2>5, <2>6, FinishedReturn
  <2> QED
    BY <1>1, <1>2, <2>3, <2>5, <2>7, StepInv DEF f
<1> QED
  BY <1>5, <1>6

-----------------------------------------------------------------------------
(***************************************************************************)
(* The start of a call.                                                    *)
(***************************************************************************)
LEMMA FirstRest ==
  ASSUME NEW s, AllocOK(s), NEW f \in Frame, f.op # "calloc" => f.count = 1, Fresh(f)
  PROVE  Rest(FirstLabel(f), s, f, s)
<1>1. /\ f.op \in Ops /\ f.ptr \in Addr /\ f.count \in Nat /\ f.size \in Nat
      /\ Total(f) = f.count * f.size
  BY FrameFields DEF Total
<1>2. ~f.refused /\ ~f.moving /\ f.ret = NULL
  BY DEF Fresh
<1>3. f.op # "calloc" => Total(f) = f.size
  BY <1>1
<1>4. ASSUME f.op \in {"free", "realloc"}, Outcomes(s, f) = free_impl(s, f.ptr)
      PROVE  Rest("lookup", s, f, s)
  <2>1. ASSUME NEW x \in free_impl(s, f.ptr)
        PROVE  [x EXCEPT !.ret = f.ret] \in Outcomes(s, f)
    <3>1. x.ret = NULL /\ x = [st |-> x.st, ret |-> x.ret, refused |-> x.refused, exit |-> x.exit]
      BY <1>1, FreeImplCorrect, FreeOutcome DEF IsOutcome
    <3>2. [x EXCEPT !.ret = NULL] = x
      BY <3>1
    <3> QED
      BY <1>2, <1>4, <3>2
  <2>2. Freeing(s, f, s)
    BY <1>2, <1>4, <2>1 DEF Freeing
  <2> QED
    BY <2>2 DEF Rest
<1>5. CASE f.op = "malloc"
  <2>1. Allocating(s, f)
    BY <1>2, <1>5 DEF Allocating
  <2>2. FirstLabel(f) = MallocLabel(Total(f))
    BY <1>3, <1>5 DEF FirstLabel
  <2> QED
    BY <1>2, <2>1, <2>2, StartsAllocating
<1>6. CASE f.op = "realloc" /\ f.ptr = NULL
  <2>1. Allocating(s, f)
    BY <1>2, <1>6 DEF Allocating
  <2>2. FirstLabel(f) = MallocLabel(Total(f))
    BY <1>3, <1>6 DEF FirstLabel
  <2> QED
    BY <1>2, <2>1, <2>2, StartsAllocating
<1>7. CASE f.op = "realloc" /\ f.ptr # NULL /\ f.size = 0
  <2>1. FirstLabel(f) = "lookup"
    BY <1>7 DEF FirstLabel
  <2>2. Outcomes(s, f) = free_impl(s, f.ptr)
    BY <1>7 DEF Outcomes, realloc_impl
  <2> QED
    BY <1>4, <1>7, <2>1, <2>2
<1>8. CASE f.op = "realloc" /\ f.ptr # NULL /\ f.size # 0
  <2>1. FirstLabel(f) = "find"
    BY <1>8 DEF FirstLabel
  <2>2. Rest("find", s, f, s)
    BY <1>8 DEF Rest
  <2> QED
    BY <2>1, <2>2
<1>9. CASE f.op = "calloc" /\ f.count # 0 /\ f.size > SIZE_MAX \div f.count
  <2>1. FirstLabel(f) = "unlock"
    BY <1>9 DEF FirstLabel
  <2>2. Return(s, f.ret) \in Outcomes(s, f)
    BY <1>2, <1>9 DEF Outcomes, callo_imp
  <2>3. Rest("unlock", s, f, s)
    BY <1>2, <1>9, <2>2, FinishedReturn
  <2> QED
    BY <2>1, <2>3
<1>10. CASE f.op = "calloc" /\ ~(f.count # 0 /\ f.size > SIZE_MAX \div f.count)
  <2>1. ~(f.count * f.size > SIZE_MAX)
    BY <1>1, <1>10, OverflowTest
  <2>2. Total(f) <= SIZE_MAX
    <3>1. Total(f) \in Nat /\ ~(Total(f) > SIZE_MAX)
      BY <1>1, <2>1, FrameFields
    <3> QED
      BY <3>1, Positive
  <2>3. Allocating(s, f)
    BY <1>2, <1>10, <2>2 DEF Allocating
  <2>4. FirstLabel(f) = MallocLabel(Total(f))
    BY <1>10 DEF FirstLabel
  <2> QED
    BY <1>2, <2>3, <2>4, StartsAllocating
<1>11. CASE f.op = "free"
  <2>1. FirstLabel(f) = "lookup"
    BY <1>11 DEF FirstLabel
  <2>2. Outcomes(s, f) = free_impl(s, f.ptr)
    BY <1>11 DEF Outcomes
  <2> QED
    BY <1>4, <1>11, <2>1, <2>2
<1>12. CASE f.op = "show"
  <2>1. FirstLabel(f) = "show1"
    BY <1>12 DEF FirstLabel
  <2>2. Rest("show1", s, f, s)
    BY <1>2, <1>12 DEF Rest, Showing
  <2> QED
    BY <2>1, <2>2
<1> QED
  BY <1>1, <1>5, <1>6, <1>7, <1>8, <1>9, <1>10, <1>11, <1>12 DEF Ops

LEMMA LockTakenInv ==
  ASSUME ThreadsInv, NEW t \in Threads, Lock(t)
  PROVE  ThreadsInv'
<1> DEFINE f == frame[t]
           label == FirstLabel(f)
<1>1. /\ mutex = NoThread /\ pc[t] = "lock"
      /\ mutex' = t /\ before' = manage_free /\ pc' = [pc EXCEPT ![t] = label]
      /\ manage_free' = manage_free /\ frame' = frame /\ calls' = calls /\ owned' = owned
      /\ forks' = forks /\ alive' = alive
  BY DEF Lock, CanLock, At, Goto
<1>2. /\ LockInv /\ TypeOK /\ Fresh(f) /\ Good(manage_free, owned)
      /\ f.op # "calloc" => f.count = 1
  BY <1>1 DEF ThreadsInv
<1>3. f \in Frame /\ IsFrame(f)
  BY <1>2 DEF TypeOK, LockInv
<1>4. AllocOK(manage_free)
  BY <1>2 DEF Good
<1>5. Rest(label, manage_free, f, manage_free)
  BY <1>2, <1>3, <1>4, FirstRest
<1>6. label \in Within /\ label \in Labels /\ label # "gone" /\ label # "lock"
  BY <1>3, FirstWithin DEF Within, Outside
<1> HIDE DEF label
<1>7. LockInv'
  BY <1>2, LockKeeps
<1>8. TypeOK'
  BY <1>1, <1>2, <1>6 DEF TypeOK
<1>9. /\ pc'[t] = label /\ pc \in [Threads -> Labels]
      /\ \A u \in Threads : u # t => pc'[u] = pc[u] /\ pc[u] \notin Within
  BY <1>1, <1>2, ThreadsAssumption DEF LockInv
<1>10. \A u \in Threads : frame'[u].op # "calloc" => frame'[u].count = 1
  BY <1>1 DEF ThreadsInv
<1>11. \A u \in Threads : pc'[u] = "lock" => Fresh(frame'[u])
  BY <1>1, <1>6, <1>9 DEF ThreadsInv
<1>12. mutex' # NoThread /\ Good(before', owned')
  BY <1>1, <1>2, ThreadsAssumption
<1>13. \A u \in Threads : pc'[u] \in Within => Rest(pc'[u], before', frame'[u], manage_free')
  BY <1>1, <1>5, <1>9
<1> QED
  BY <1>7, <1>8, <1>10, <1>11, <1>12, <1>13 DEF ThreadsInv

-----------------------------------------------------------------------------
(***************************************************************************)
(* The end of a call: what the client has is what the allocator has.       *)
(***************************************************************************)
LEMMA SameGood ==
  ASSUME NEW s, NEW b, Good(s, b), NEW t, AllocOK(t), SameBlocks(s, t)
  PROVE  Good(t, b)
  BY DEF Good, SameBlocks

LEMMA TakenGood ==
  ASSUME NEW s, NEW b, Good(s, b), NEW t, AllocOK(t), NEW q, Removes(s, t, q)
  PROVE  Good(t, Taken(b, q))
<1>1. \A p : p \in DOMAIN Taken(b, q) <=> p \in DOMAIN b /\ p # q
  BY DEF Taken
<1>2. \A p \in DOMAIN Taken(b, q) : Taken(b, q)[p] = b[p]
  BY DEF Taken
<1> QED
  BY <1>1, <1>2 DEF Good, Removes

LEMMA GivenGood ==
  ASSUME NEW b, NEW t, AllocOK(t), NEW r, NEW k,
         \A p, n : BlockAt(t, p, n) <=> (p \in DOMAIN b /\ p # r /\ n = b[p]) \/ (p = r /\ n = k)
  PROVE  Good(t, Given(b, r, k))
<1>1. \A p : p \in DOMAIN Given(b, r, k) <=> p \in DOMAIN b \/ p = r
  BY DEF Given
<1>2. \A p \in DOMAIN Given(b, r, k) : Given(b, r, k)[p] = IF p = r THEN k ELSE b[p]
  BY DEF Given
<1> QED
  BY <1>1, <1>2 DEF Good

LEMMA AddedGood ==
  ASSUME NEW s, NEW b, Good(s, b), NEW t, AllocOK(t), NEW r, NEW k, Adds(s, t, r, k)
  PROVE  Good(t, Given(b, r, k))
<1>1. \A p, n : BlockAt(t, p, n) <=> (p \in DOMAIN b /\ p # r /\ n = b[p]) \/ (p = r /\ n = k)
  BY DEF Good, Adds
<1> QED
  BY <1>1, GivenGood

LEMMA MovedGood ==
  ASSUME NEW s, NEW b, Good(s, b), NEW t, AllocOK(t), NEW q, NEW r, NEW k,
         (Resizes(s, t, q, k) /\ r = q) \/ Moves(s, t, q, r, k)
  PROVE  Good(t, Given(Taken(b, q), r, k))
<1>1. \A p : p \in DOMAIN Taken(b, q) <=> p \in DOMAIN b /\ p # q
  BY DEF Taken
<1>2. \A p \in DOMAIN Taken(b, q) : Taken(b, q)[p] = b[p]
  BY DEF Taken
<1>3. \A p, n : BlockAt(s, p, n) <=> p \in DOMAIN b /\ n = b[p]
  BY DEF Good
<1>4. \A p, n : BlockAt(t, p, n) <=> (BlockAt(s, p, n) /\ p # q) \/ (p = r /\ n = k)
  <2>1. CASE Resizes(s, t, q, k) /\ r = q
    BY <2>1 DEF Resizes
  <2>2. CASE Moves(s, t, q, r, k)
    BY <2>2 DEF Moves
  <2> QED
    BY <2>1, <2>2
<1>5. r = q \/ r \notin DOMAIN b
  <2>1. CASE Moves(s, t, q, r, k)
    BY <1>3, <2>1 DEF Moves
  <2> QED
    BY <2>1
<1>6. \A p, n : BlockAt(t, p, n) <=>
        (p \in DOMAIN Taken(b, q) /\ p # r /\ n = Taken(b, q)[p]) \/ (p = r /\ n = k)
  BY <1>1, <1>2, <1>3, <1>4, <1>5
<1> QED
  BY <1>6, GivenGood

\* Every block is at an address and has a length.
LEMMA GoodTypes ==
  ASSUME NEW s, NEW b, Good(s, b)
  PROVE  DOMAIN b \subseteq Addr /\ (\A p \in DOMAIN b : b[p] \in Nat) /\ NULL \notin DOMAIN b
<1>1. \A p \in DOMAIN b : p \in Addr \ {0} /\ b[p] \in Nat
  BY BlockLength DEF Good
<1> QED
  BY <1>1

LEMMA MallocGood ==
  ASSUME NEW s, NEW b, Good(s, b), NEW n \in Nat, NEW o \in malloc_impl(s, n)
  PROVE  IF o.ret = NULL THEN Good(o.st, b) ELSE Good(o.st, Given(b, o.ret, AtLeastOne(n)))
<1>1. AllocOK(s)
  BY DEF Good
<1>2. AllocOK(o.st)
  BY <1>1, MallocImplCorrect
<1>3. IF o.ret = NULL THEN SameBlocks(s, o.st) ELSE Adds(s, o.st, o.ret, AtLeastOne(n))
  BY <1>1, MallocImplAddsOne
<1> QED
  BY <1>2, <1>3, SameGood, AddedGood

LEMMA FreeGood ==
  ASSUME NEW s, NEW b, Good(s, b), NEW ptr \in Addr, NEW o \in free_impl(s, ptr), ~o.exit
  PROVE  o.ret = NULL /\ Good(o.st, Taken(b, ptr))
<1>1. AllocOK(s)
  BY DEF Good
<1>2. AllocOK(o.st) /\ o.ret = NULL
  BY <1>1, FreeImplCorrect
<1>3. \/ o.st = s /\ \A n : ~BlockAt(s, ptr, n)
      \/ Removes(s, o.st, ptr)
  BY <1>1, FreeImplRemovesOne
<1>4. Removes(s, o.st, ptr)
  BY <1>3 DEF Removes
<1> QED
  BY <1>2, <1>4, TakenGood

LEMMA ReallocGood ==
  ASSUME NEW s, NEW b, Good(s, b), NEW ptr \in Addr \ {0}, NEW n \in Nat \ {0},
         NEW o \in realloc_impl(s, ptr, n), ~o.exit
  PROVE  IF o.ret = NULL THEN Good(o.st, b) ELSE Good(o.st, Given(Taken(b, ptr), o.ret, n))
<1>1. AllocOK(s)
  BY DEF Good
<1>2. AllocOK(o.st)
  BY <1>1, ReallocImplCorrect
<1>3. \/ o = Return(s, NULL)
      \/ o.ret = NULL /\ SameBlocks(s, o.st)
      \/ o.ret = ptr /\ Resizes(s, o.st, ptr, n)
      \/ o.ret \notin {NULL, ptr} /\ Moves(s, o.st, ptr, o.ret, n)
  BY <1>1, ReallocImplResizesOne
<1>4. CASE o = Return(s, NULL)
  <2>1. o.ret = NULL /\ o.st = s
    BY <1>4 DEF Return
  <2> QED
    BY <2>1
<1>5. CASE o.ret = NULL /\ SameBlocks(s, o.st)
  BY <1>2, <1>5, SameGood
<1>6. CASE o.ret = ptr /\ Resizes(s, o.st, ptr, n)
  BY <1>2, <1>6, MovedGood
<1>7. CASE o.ret \notin {NULL, ptr} /\ Moves(s, o.st, ptr, o.ret, n)
  BY <1>2, <1>7, MovedGood
<1> QED
  BY <1>3, <1>4, <1>5, <1>6, <1>7

LEMMA CalloGood ==
  ASSUME NEW s, NEW b, Good(s, b), NEW k \in Nat, NEW n \in Nat, NEW o \in callo_imp(s, k, n)
  PROVE  IF o.ret = NULL THEN Good(o.st, b) ELSE Good(o.st, Given(b, o.ret, AtLeastOne(k * n)))
<1>1. AllocOK(s)
  BY DEF Good
<1>2. AllocOK(o.st)
  BY <1>1, CalloImpCorrect
<1>3. IF o.ret = NULL THEN SameBlocks(s, o.st) ELSE Adds(s, o.st, o.ret, AtLeastOne(k * n))
  BY <1>1, CalloImpAddsZeros
<1> QED
  BY <1>2, <1>3, SameGood, AddedGood

\* Giving up what one does not have changes nothing.
LEMMA TakenNothing ==
  ASSUME NEW s, NEW b, Good(s, b), NEW t, NEW p, p \notin DOMAIN b
  PROVE  /\ Good(t, b) => Good(t, Taken(b, p))
         /\ \A r, k : Good(t, Given(b, r, k)) => Good(t, Given(Taken(b, p), r, k))
<1>1. \A q : q \in DOMAIN Taken(b, p) <=> q \in DOMAIN b
  BY DEF Taken
<1>2. \A q \in DOMAIN Taken(b, p) : Taken(b, p)[q] = b[q]
  BY DEF Taken
<1>3. ASSUME NEW r, NEW k, Good(t, Given(b, r, k)) PROVE Good(t, Given(Taken(b, p), r, k))
  <2>1. \A c, q : /\ q \in DOMAIN Given(c, r, k) <=> q \in DOMAIN c \/ q = r
                  /\ q \in DOMAIN Given(c, r, k) =>
                       Given(c, r, k)[q] = IF q = r THEN k ELSE c[q]
    BY DEF Given
  <2>2. AllocOK(t) /\ \A q, n : BlockAt(t, q, n) <=> q \in DOMAIN Given(b, r, k) /\ n = Given(b, r, k)[q]
    BY <1>3 DEF Good
  <2>3. \A q, n : BlockAt(t, q, n) <=>
          (q \in DOMAIN Taken(b, p) /\ q # r /\ n = Taken(b, p)[q]) \/ (q = r /\ n = k)
    BY <1>1, <1>2, <2>1, <2>2
  <2> QED
    BY <2>2, <2>3, GivenGood
<1> QED
  BY <1>1, <1>2, <1>3 DEF Good

\* The client's hands after the call of f.
LEMMA AfterGood ==
  ASSUME NEW s0, Good(s0, owned), NEW f \in Frame, f.op # "calloc" => f.count = 1,
         NEW s, Finished(s0, f, s)
  PROVE  Good(s, OwnedAfter(f))
<1> DEFINE b == owned
           o == [st |-> s, ret |-> f.ret, refused |-> f.refused, exit |-> FALSE]
           left == IF f.op \in {"free", "realloc"} THEN Taken(b, f.ptr) ELSE b
<1>1. o \in Outcomes(s0, f) /\ o.st = s /\ o.ret = f.ret /\ ~o.exit
  BY DEF Finished
<1>2. /\ f.op \in Ops /\ f.ptr \in Addr /\ f.count \in Nat /\ f.size \in Nat
      /\ f.op # "calloc" => Total(f) = f.size
  BY FrameFields DEF Total
<1>3. NULL \notin DOMAIN b
  BY GoodTypes
<1>4. OwnedAfter(f) =
        IF f.ret # NULL THEN Given(left, f.ret, AtLeastOne(Total(f)))
        ELSE IF f.op = "free" \/ (f.op = "realloc" /\ f.size = 0) THEN left ELSE b
  BY DEF OwnedAfter
<1> HIDE DEF o
<1>5. CASE f.op = "malloc"
  <2>1. o \in malloc_impl(s0, f.size)
    BY <1>1, <1>5 DEF Outcomes
  <2>2. IF f.ret = NULL THEN Good(s, b) ELSE Good(s, Given(b, f.ret, AtLeastOne(Total(f))))
    BY <1>1, <1>2, <1>5, <2>1, MallocGood
  <2>3. OwnedAfter(f) = IF f.ret # NULL THEN Given(b, f.ret, AtLeastOne(Total(f))) ELSE b
    BY <1>4, <1>5
  <2> QED
    BY <2>2, <2>3
<1>6. CASE f.op = "calloc"
  <2>1. o \in callo_imp(s0, f.count, f.size)
    BY <1>1, <1>6 DEF Outcomes
  <2>2. IF f.ret = NULL THEN Good(s, b) ELSE Good(s, Given(b, f.ret, AtLeastOne(Total(f))))
    BY <1>1, <1>2, <2>1, CalloGood DEF Total
  <2>3. OwnedAfter(f) = IF f.ret # NULL THEN Given(b, f.ret, AtLeastOne(Total(f))) ELSE b
    BY <1>4, <1>6
  <2> QED
    BY <2>2, <2>3
<1>7. CASE f.op = "free" \/ (f.op = "realloc" /\ f.ptr # NULL /\ f.size = 0)
  <2>1. o \in free_impl(s0, f.ptr)
    BY <1>1, <1>7 DEF Outcomes, realloc_impl
  <2>2. f.ret = NULL /\ Good(s, Taken(b, f.ptr))
    BY <1>1, <1>2, <2>1, FreeGood
  <2>3. OwnedAfter(f) = Taken(b, f.ptr)
    BY <1>4, <1>7, <2>2
  <2> QED
    BY <2>2, <2>3
<1>8. CASE f.op = "realloc" /\ f.ptr # NULL /\ f.size # 0
  <2>1. o \in realloc_impl(s0, f.ptr, f.size)
    BY <1>1, <1>8 DEF Outcomes
  <2>2. IF f.ret = NULL THEN Good(s, b) ELSE Good(s, Given(Taken(b, f.ptr), f.ret, f.size))
    BY <1>1, <1>2, <1>8, <2>1, ReallocGood
  <2>3. AtLeastOne(Total(f)) = f.size
    BY <1>2, <1>8 DEF AtLeastOne
  <2>4. OwnedAfter(f) = IF f.ret # NULL THEN Given(Taken(b, f.ptr), f.ret, f.size) ELSE b
    BY <1>4, <1>8, <2>3
  <2> QED
    BY <2>2, <2>4
<1>9. CASE f.op = "realloc" /\ f.ptr = NULL
  <2>1. o \in malloc_impl(s0, f.size)
    BY <1>1, <1>9 DEF Outcomes, realloc_impl
  <2>2. IF f.ret = NULL THEN Good(s, b) ELSE Good(s, Given(b, f.ret, AtLeastOne(Total(f))))
    BY <1>1, <1>2, <1>9, <2>1, MallocGood
  <2>3. /\ Good(s, b) => Good(s, Taken(b, f.ptr))
        /\ Good(s, Given(b, f.ret, AtLeastOne(Total(f)))) =>
             Good(s, Given(Taken(b, f.ptr), f.ret, AtLeastOne(Total(f))))
    BY <1>3, <1>9, TakenNothing
  <2>4. \/ f.ret # NULL /\ OwnedAfter(f) = Given(Taken(b, f.ptr), f.ret, AtLeastOne(Total(f)))
        \/ f.ret = NULL /\ OwnedAfter(f) \in {Taken(b, f.ptr), b}
    BY <1>4, <1>9
  <2> QED
    BY <2>2, <2>3, <2>4
<1>10. CASE f.op = "show"
  <2>1. o = Return(s0, NULL)
    BY <1>1, <1>10 DEF Outcomes
  <2>2. f.ret = NULL /\ s = s0
    BY <1>1, <2>1 DEF Return
  <2>3. OwnedAfter(f) = b
    BY <1>4, <1>10, <2>2
  <2> QED
    BY <2>2, <2>3
<1> QED
  BY <1>2, <1>5, <1>6, <1>7, <1>8, <1>9, <1>10 DEF Ops

-----------------------------------------------------------------------------
(***************************************************************************)
(* The steps outside the mutex.                                            *)
(***************************************************************************)
LEMMA CallIsFresh ==
  ASSUME NEW op \in Ops, NEW ptr \in Addr, NEW n \in Nat
  PROVE  /\ Call(op, ptr, n) \in Frame /\ Fresh(Call(op, ptr, n))
         /\ Call(op, ptr, n).count = 1
<1>1. NoOwner \in OwnerType /\ 0 \in Addr
  BY Positive DEF NoOwner, OwnerType, Addr
<1>2. Call(op, ptr, n) \in Frame
  BY <1>1 DEF Call, Frame, OwnerType
<1>3. /\ Call(op, ptr, n).owner = NoOwner /\ Call(op, ptr, n).ret = NULL
      /\ Call(op, ptr, n).shown = {} /\ Call(op, ptr, n).count = 1
  BY DEF Call
<1>4. ~Call(op, ptr, n).moving /\ ~Call(op, ptr, n).refused
  BY DEF Call
<1> QED
  BY <1>2, <1>3, <1>4 DEF Fresh

LEMMA CountedCall ==
  ASSUME NEW n \in Nat, NEW k \in Nat,
         NEW g, g = [Call("calloc", NULL, n) EXCEPT !.count = k]
  PROVE  g \in Frame /\ Fresh(g) /\ g.op = "calloc"
<1>1. NoOwner \in OwnerType /\ 0 \in Addr
  BY Positive DEF NoOwner, OwnerType, Addr
<1> DEFINE h == [op |-> "calloc", ptr |-> NULL, count |-> k, size |-> n, owner |-> NoOwner,
                 moving |-> FALSE, ret |-> NULL, refused |-> FALSE, shown |-> {}]
<1>2. g = h
  BY DEF Call
<1>3. h \in Frame
  BY <1>1 DEF Frame, OwnerType, Ops
<1>4. g.owner = NoOwner /\ g.ret = NULL /\ g.shown = {} /\ g.op = "calloc"
  BY <1>2
<1>5. ~g.moving /\ ~g.refused
  BY <1>2
<1> QED
  BY <1>2, <1>3, <1>4, <1>5 DEF Fresh

\* What a client asks for is a call that has done nothing yet.
LEMMA RequestsFresh ==
  ASSUME TypeOK, NEW f \in Requests
  PROVE  f \in Frame /\ Fresh(f) /\ (f.op # "calloc" => f.count = 1)
<1>1. Sizes \subseteq Nat /\ Counts \subseteq Nat
  BY ThreadsAssumption, Positive
<1>2. DOMAIN owned \subseteq Addr /\ 0 \in Addr /\ 0 \in Nat
  BY Positive DEF TypeOK, Addr
<1>3. CASE \E op \in Ops \ {"calloc"} : \E p \in Addr, n \in Nat : f = Call(op, p, n)
  BY <1>3, CallIsFresh
<1>4. CASE \E k \in Counts, n \in Sizes : f = [Call("calloc", NULL, n) EXCEPT !.count = k]
  <2>1. PICK k \in Nat, n \in Nat : f = [Call("calloc", NULL, n) EXCEPT !.count = k]
    BY <1>1, <1>4
  <2> QED
    BY <2>1, CountedCall
<1>5. {"malloc", "free", "realloc", "show"} \subseteq Ops \ {"calloc"}
  BY DEF Ops
<1>6. \/ \E op \in Ops \ {"calloc"} : \E p \in Addr, n \in Nat : f = Call(op, p, n)
      \/ \E k \in Counts, n \in Sizes : f = [Call("calloc", NULL, n) EXCEPT !.count = k]
  BY <1>1, <1>2, <1>5 DEF Requests
<1> QED
  BY <1>3, <1>4, <1>6

LEMMA EnterInv ==
  ASSUME ThreadsInv, NEW t \in Threads, Enter(t)
  PROVE  ThreadsInv'
<1>1. PICK f \in Requests : frame' = [frame EXCEPT ![t] = f]
  BY DEF Enter
<1>2. /\ pc[t] = "idle" /\ calls[t] > 0 /\ pc' = [pc EXCEPT ![t] = "lock"]
      /\ calls' = [calls EXCEPT ![t] = @ - 1]
      /\ manage_free' = manage_free /\ mutex' = mutex /\ owned' = owned /\ before' = before
      /\ forks' = forks /\ alive' = alive
  BY DEF Enter, At, Goto
<1>3. LockInv /\ TypeOK
  BY DEF ThreadsInv
<1>4. f \in Frame /\ Fresh(f) /\ (f.op # "calloc" => f.count = 1)
  BY <1>3, RequestsFresh
<1>5. LockInv'
  BY <1>3, EnterKeeps
<1>6. {"idle", "lock"} \subseteq Labels /\ {"idle", "lock", "gone"} \cap Within = {}
  BY DEF Within, Outside, Labels
<1>7. TypeOK'
  BY <1>1, <1>2, <1>3, <1>4, <1>6 DEF TypeOK
<1>8. /\ pc'[t] = "lock" /\ frame'[t] = f
      /\ \A u \in Threads : u # t => pc'[u] = pc[u] /\ frame'[u] = frame[u]
  BY <1>1, <1>2, <1>3 DEF TypeOK
<1>9. \A u \in Threads : frame'[u].op # "calloc" => frame'[u].count = 1
  BY <1>4, <1>8 DEF ThreadsInv
<1>10. \A u \in Threads : pc'[u] = "lock" => Fresh(frame'[u])
  BY <1>4, <1>8 DEF ThreadsInv
<1>11. mutex' = NoThread => Good(manage_free', owned')
  BY <1>2 DEF ThreadsInv
<1>12. mutex' # NoThread /\ ~Orphaned' => Good(before', owned')
  <2>1. SUFFICES ASSUME mutex' # NoThread, ~Orphaned' PROVE Good(before', owned')
    OBVIOUS
  <2>2. mutex \in Threads /\ mutex # NoThread
    BY <1>2, <1>3, <2>1 DEF LockInv
  <2>3. ~Orphaned
    BY <1>2, <1>8, <2>1, <2>2 DEF Orphaned
  <2> QED
    BY <1>2, <2>2, <2>3 DEF ThreadsInv
<1>13. \A u \in Threads : pc'[u] \in Within => Rest(pc'[u], before', frame'[u], manage_free')
  BY <1>2, <1>6, <1>8 DEF ThreadsInv
<1> QED
  BY <1>5, <1>7, <1>9, <1>10, <1>11, <1>12, <1>13 DEF ThreadsInv

LEMMA UnlockInv ==
  ASSUME ThreadsInv, NEW t \in Threads, Unlock(t)
  PROVE  ThreadsInv'
<1> DEFINE f == frame[t]
           b == OwnedAfter(f)
<1>1. /\ pc[t] = "unlock" /\ pc' = [pc EXCEPT ![t] = "idle"] /\ mutex' = NoThread /\ owned' = b
      /\ manage_free' = manage_free /\ frame' = frame /\ calls' = calls /\ before' = before
      /\ forks' = forks /\ alive' = alive
  BY DEF Unlock, At, Goto
<1>2. /\ "idle" \in Labels /\ {"idle", "lock"} \cap Within = {} /\ pc[t] \in Within
      /\ "idle" # "lock"
  BY <1>1 DEF Within, Outside, Labels
<1>3. LockInv /\ TypeOK
  BY DEF ThreadsInv
<1>4. /\ mutex = t /\ Good(before, owned) /\ f \in Frame /\ (f.op # "calloc" => f.count = 1)
      /\ Rest("unlock", before, f, manage_free)
  BY <1>1, <1>2, HolderFacts
<1>5. Finished(before, f, manage_free)
  BY <1>4 DEF Rest
<1>6. Good(manage_free, b)
  BY <1>4, <1>5, AfterGood
<1> HIDE DEF b
<1>7. LockInv'
  BY <1>3, UnlockKeeps
<1>8. DOMAIN b \subseteq Addr /\ \A p \in DOMAIN b : b[p] \in Nat
  BY <1>6, GoodTypes
<1>9. TypeOK'
  BY <1>1, <1>2, <1>3, <1>8 DEF TypeOK
<1>10. /\ pc'[t] = "idle"
       /\ \A u \in Threads : u # t => pc'[u] = pc[u] /\ pc[u] \notin Within
  BY <1>1, <1>3, <1>4 DEF LockInv
<1>11. \A u \in Threads : frame'[u].op # "calloc" => frame'[u].count = 1
  BY <1>1 DEF ThreadsInv
<1>12. \A u \in Threads : pc'[u] = "lock" => Fresh(frame'[u])
  BY <1>1, <1>2, <1>10 DEF ThreadsInv
<1>13. mutex' = NoThread /\ Good(manage_free', owned')
  BY <1>1, <1>6
<1>14. \A u \in Threads : pc'[u] \notin Within
  BY <1>2, <1>10
<1> QED
  BY <1>7, <1>9, <1>11, <1>12, <1>13, <1>14 DEF ThreadsInv

LEMMA ExitInv ==
  ASSUME ~ExitFrees, ThreadsInv, NEW t \in Threads, ExitProcess(t)
  PROVE  ThreadsInv'
<1> DEFINE f == Call("free", frame[t].ptr, 0)
<1>1. /\ pc[t] = "exit" /\ pc' = pc /\ alive' = FALSE
      /\ frame' = [frame EXCEPT ![t] = f]
      /\ manage_free' = manage_free /\ mutex' = mutex /\ calls' = calls /\ owned' = owned
      /\ before' = before /\ forks' = forks
  BY DEF ExitProcess, At
<1>2. LockInv /\ TypeOK
  BY DEF ThreadsInv
<1>3. f \in Frame /\ f.op = "free" /\ f.count = 1
  <2>1. frame[t].ptr \in Addr
    BY <1>2, FrameFields DEF TypeOK
  <2>2. f \in Frame /\ f.count = 1
    BY <2>1, CallIsFresh DEF Ops
  <2> QED
    BY <2>2 DEF Call
<1> HIDE DEF f
<1>4. LockInv'
  BY <1>2, ExitKeeps
<1>5. TypeOK'
  BY <1>1, <1>2, <1>3 DEF TypeOK
<1>6. /\ frame'[t] = f
      /\ \A u \in Threads : u # t => frame'[u] = frame[u]
  BY <1>1, <1>2 DEF TypeOK
<1>7. \A u \in Threads : frame'[u].op # "calloc" => frame'[u].count = 1
  BY <1>3, <1>6 DEF ThreadsInv
<1>8. \A u \in Threads : pc'[u] = "lock" => Fresh(frame'[u])
  BY <1>1, <1>6 DEF ThreadsInv
<1>9. /\ mutex' = NoThread => Good(manage_free', owned')
      /\ mutex' # NoThread /\ ~Orphaned' => Good(before', owned')
  BY <1>1 DEF ThreadsInv, Orphaned
<1>10. Rest("exit", before, f, manage_free)
  BY DEF Rest
<1>11. \A u \in Threads : pc'[u] \in Within => Rest(pc'[u], before', frame'[u], manage_free')
  BY <1>1, <1>6, <1>10 DEF ThreadsInv
<1> QED
  BY <1>4, <1>5, <1>7, <1>8, <1>9, <1>11 DEF ThreadsInv

LEMMA ForkInv ==
  ASSUME ThreadsInv, NEW t \in Threads, Fork(t)
  PROVE  ThreadsInv'
<1> DEFINE f == Call("show", NULL, 0)
<1>1. /\ pc[t] = "idle" /\ forks > 0 /\ forks' = forks - 1
      /\ pc' = [u \in Threads |-> IF u = t THEN "idle" ELSE "gone"]
      /\ frame' = [u \in Threads |-> IF u = t THEN frame[t] ELSE f]
      /\ calls' = [u \in Threads |-> IF u = t THEN calls[t] ELSE 0]
      /\ manage_free' = manage_free /\ mutex' = mutex /\ owned' = owned
      /\ before' = before /\ alive' = alive
  BY DEF Fork, At
<1>2. LockInv /\ TypeOK
  BY DEF ThreadsInv
<1>3. f \in Frame /\ f.count = 1
  <2>1. 0 \in Addr
    BY Positive DEF Addr
  <2> QED
    BY <2>1, CallIsFresh DEF Ops
<1> HIDE DEF f
<1>4. /\ {"idle", "gone"} \subseteq Labels /\ {"idle", "gone", "lock"} \cap Within = {}
      /\ "lock" \notin {"idle", "gone"}
  BY DEF Within, Outside, Labels
<1>5. LockInv'
  BY <1>2, ForkKeeps
<1>6. TypeOK'
  BY <1>1, <1>2, <1>3, <1>4 DEF TypeOK
<1>7. /\ \A u \in Threads : pc'[u] \in {"idle", "gone"}
      /\ \A u \in Threads : u # t => pc'[u] = "gone"
      /\ \A u \in Threads : frame'[u] = IF u = t THEN frame[t] ELSE f
  BY <1>1
<1>8. \A u \in Threads : frame'[u].op # "calloc" => frame'[u].count = 1
  BY <1>3, <1>7 DEF ThreadsInv
<1>9. \A u \in Threads : pc'[u] \notin Within /\ pc'[u] # "lock"
  BY <1>4, <1>7
<1>10. mutex' = NoThread => Good(manage_free', owned')
  BY <1>1 DEF ThreadsInv
<1>11. mutex' # NoThread => Orphaned'
  <2>1. mutex # t
    BY <1>1, <1>2, <1>4 DEF LockInv
  <2> QED
    BY <1>1, <1>2, <1>7, <2>1 DEF Orphaned, LockInv
<1> QED
  BY <1>5, <1>6, <1>8, <1>9, <1>10, <1>11 DEF ThreadsInv

-----------------------------------------------------------------------------
(***************************************************************************)
(* The invariant holds.                                                    *)
(***************************************************************************)
LEMMA InsideInv ==
  ASSUME ~ExitFrees, ThreadsInv, NEW t \in Threads, Inside(t)
  PROVE  ThreadsInv'
<1>1. CASE Arena(t) \/ Scan(t) \/ StampSlot(t)
  BY <1>1, ArenaInv, ScanInv, StampInv
<1>2. CASE Map(t) \/ EnterLarge(t) \/ Record(t)
  BY <1>2, MapInv, EnterLargeInv, RecordInv
<1>3. CASE Find(t) \/ Copy(t) \/ Zero(t)
  BY <1>3, FindInv, CopyInv, ZeroInv
<1>4. CASE Lookup(t) \/ Release(t) \/ Drop(t)
  BY <1>4, LookupInv, ReleaseInv, DropInv
<1>5. CASE Show1(t) \/ Show2(t) \/ Unlock(t) \/ ExitProcess(t)
  BY <1>5, ShowInv, UnlockInv, ExitInv
<1> QED
  BY <1>1, <1>2, <1>3, <1>4, <1>5 DEF Inside

LEMMA InitThreadsInv == Init => ThreadsInv
<1> SUFFICES ASSUME Init PROVE ThreadsInv
  OBVIOUS
<1> DEFINE f == Call("show", NULL, 0)
<1>1. /\ manage_free = InitState /\ before = InitState /\ mutex = NoThread
      /\ pc = [t \in Threads |-> "idle"] /\ frame = [t \in Threads |-> f]
      /\ calls = [t \in Threads |-> MaxCalls] /\ owned = << >> /\ forks = MaxForks /\ alive = TRUE
  BY DEF Init
<1>2. f \in Frame /\ f.count = 1 /\ IsFrame(f)
  <2>1. 0 \in Addr
    BY Positive DEF Addr
  <2> QED
    BY <2>1, CallIsFresh, FrameFields DEF Ops
<1> HIDE DEF f
<1>3. AllocOK(InitState) /\ InitState \in StateType
  BY InitStateOK DEF AllocOK
<1>4. "idle" \in Labels /\ "idle" \notin Within /\ "idle" # "lock"
  BY DEF Within, Labels, Outside
<1>5. DOMAIN owned = {}
  BY <1>1
<1>6. LockInv
  BY <1>1, <1>2, <1>4, ThreadsAssumption DEF LockInv
<1>7. TypeOK
  BY <1>1, <1>2, <1>3, <1>4, <1>5, ThreadsAssumption DEF TypeOK
<1>8. \A p, n : ~BlockAt(InitState, p, n)
  <2>1. \A o \in Owners : ~InUse(InitState, o)
    <3>1. \A e \in Entries : InitState.large[e] = 0
      BY Positive DEF InitState
    <3>2. LiveEntries(InitState) = {}
      BY <3>1 DEF LiveEntries
    <3>3. \A zone \in Zones : InitState.bitmap[zone] = {}
      BY DEF InitState
    <3> QED
      BY <3>2, <3>3, OwnerCases DEF InUse
  <2> QED
    BY <2>1 DEF BlockAt
<1>9. Good(manage_free, owned)
  BY <1>1, <1>3, <1>5, <1>8 DEF Good
<1>10. \A t \in Threads : pc[t] = "idle" /\ frame[t] = f
  BY <1>1
<1> QED
  BY <1>1, <1>2, <1>4, <1>6, <1>7, <1>9, <1>10 DEF ThreadsInv

(***************************************************************************)
(* The inductive invariant of the calls by several threads, as long as no  *)
(* exit handler frees.                                                     *)
(***************************************************************************)
THEOREM ThreadsInvHolds ==
  ASSUME ~ExitFrees
  PROVE  Spec => []ThreadsInv
<1>1. Init => ThreadsInv
  BY InitThreadsInv
<1>2. ThreadsInv /\ [Next]_vars => ThreadsInv'
  <2> SUFFICES ASSUME ThreadsInv, [Next]_vars PROVE ThreadsInv'
    OBVIOUS
  <2>1. ASSUME NEW t \in Threads, Enter(t) PROVE ThreadsInv'
    BY <2>1, EnterInv
  <2>2. ASSUME NEW t \in Threads, Lock(t) PROVE ThreadsInv'
    BY <2>2, LockTakenInv
  <2>3. ASSUME NEW t \in Threads, Inside(t) PROVE ThreadsInv'
    BY <2>3, InsideInv
  <2>4. ASSUME NEW t \in Threads, Fork(t) PROVE ThreadsInv'
    BY <2>4, ForkInv
  <2>5. CASE UNCHANGED vars
    BY <2>5 DEF vars, ThreadsInv, LockInv, TypeOK, Orphaned
  <2> QED
    BY <2>1, <2>2, <2>3, <2>4, <2>5 DEF Next, Terminated
<1> QED
  BY <1>1, <1>2, PTL DEF Spec

(***************************************************************************)
(* Every variable of FtMallocThreads has its type, in whichever order the  *)
(* accesses of the threads' calls come.                                    *)
(***************************************************************************)
THEOREM ThreadsTypeCorrect ==
  ASSUME ~ExitFrees
  PROVE  Spec => []TypeOK
<1>1. ThreadsInv => TypeOK
  BY DEF ThreadsInv
<1> QED
  BY <1>1, ThreadsInvHolds, PTL

(***************************************************************************)
(* Every call is atomic: when it is about to unlock, what it has done to   *)
(* manage_free since its pthread_mutex_lock and what it returns are an     *)
(* outcome of the undivided *_impl function.                               *)
(***************************************************************************)
THEOREM CallsAreAtomicCorrect ==
  ASSUME ~ExitFrees
  PROVE  Spec => []CallsAreAtomic
<1>1. ThreadsInv => CallsAreAtomic
  <2> SUFFICES ASSUME ThreadsInv, NEW t \in Threads, pc[t] = "unlock"
               PROVE  [st |-> manage_free, ret |-> frame[t].ret,
                       refused |-> frame[t].refused, exit |-> FALSE]
                        \in Outcomes(before, frame[t])
    BY DEF CallsAreAtomic
  <2>1. pc[t] \in Within
    BY DEF Within, Labels, Outside
  <2>2. Rest("unlock", before, frame[t], manage_free)
    BY <2>1, HolderFacts
  <2> QED
    BY <2>2 DEF Rest, Finished
<1> QED
  BY <1>1, ThreadsInvHolds, PTL

\* The pointers in the tables are those of the blocks.
LEMMA TablesAreBlocks ==
  ASSUME NEW s, AllocOK(s)
  PROVE  \A p : p \in LiveTables(s) <=> \E n : BlockAt(s, p, n)
<1>1. ASSUME NEW p, p \in LiveTables(s) PROVE \E n : BlockAt(s, p, n)
  <2>1. CASE \E zs \in {z \in Zones \X Slots : z[2] \in s.bitmap[z[1]]} :
               p = Header(s.arena[zs[1]], zs[1], zs[2]) + METASIZE
    <3>1. PICK zone \in Zones, slot \in Slots : /\ slot \in s.bitmap[zone]
                                                /\ p = Header(s.arena[zone], zone, slot) + METASIZE
      BY <2>1
    <3> DEFINE o == [zone |-> zone, slot |-> slot]
    <3>2. o \in Owners /\ InUse(s, o) /\ p = OwnerHeader(s, o) + METASIZE
      BY <3>1, OwnersMade DEF InUse, OwnerHeader
    <3> QED
      BY <3>2 DEF BlockAt
  <2>2. CASE \E e \in {x \in Entries : s.large[x] # 0} : p = s.large[e] + METASIZE
    <3>1. PICK e \in Entries : e \in LiveEntries(s) /\ p = s.large[e] + METASIZE
      BY <2>2 DEF LiveEntries
    <3> DEFINE o == [zone |-> "large", slot |-> e]
    <3>2. o \in Owners /\ InUse(s, o) /\ p = OwnerHeader(s, o) + METASIZE
      BY <3>1, OwnersMade DEF InUse, OwnerHeader
    <3> QED
      BY <3>2 DEF BlockAt
  <2> QED
    BY <1>1, <2>1, <2>2 DEF LiveTables
<1>2. ASSUME NEW p, NEW n, BlockAt(s, p, n) PROVE p \in LiveTables(s)
  <2>1. PICK o \in Owners : InUse(s, o) /\ p = OwnerHeader(s, o) + METASIZE
    BY <1>2 DEF BlockAt
  <2>2. CASE o.zone = "large"
    BY <2>1, <2>2 DEF InUse, OwnerHeader, LiveTables, LiveEntries
  <2>3. CASE o.zone \in Zones
    <3> DEFINE zs == <<o.zone, o.slot>>
    <3>1. o.slot \in Slots /\ o.slot \in s.bitmap[o.zone]
      BY <2>1, <2>3 DEF InUse, AllocOK, StateType
    <3>2. /\ zs \in {z \in Zones \X Slots : z[2] \in s.bitmap[z[1]]}
          /\ p = Header(s.arena[zs[1]], zs[1], zs[2]) + METASIZE
      BY <2>1, <2>3, <3>1 DEF OwnerHeader
    <3> QED
      BY <3>2 DEF LiveTables
  <2> QED
    BY <2>2, <2>3, OwnerCases
<1> QED
  BY <1>1, <1>2

LEMMA GoodTables ==
  ASSUME NEW s, NEW b, Good(s, b)
  PROVE  LiveTables(s) = DOMAIN b
<1>1. \A p : p \in LiveTables(s) <=> p \in DOMAIN b
  BY TablesAreBlocks DEF Good
<1> QED
  BY <1>1, Zenon

(***************************************************************************)
(* Whenever nobody is inside, the bitmaps and large[] hold the pointers    *)
(* the threads have, each once, and large_cnt their LARGE blocks.          *)
(***************************************************************************)
THEOREM TablesMatchCorrect ==
  ASSUME ~ExitFrees
  PROVE  Spec => []TablesMatch
<1>1. ThreadsInv => TablesMatch
  <2> SUFFICES ASSUME ThreadsInv, mutex = NoThread
               PROVE  /\ LiveTables(manage_free) = DOMAIN owned
                      /\ manage_free.large_cnt = Cardinality({e \in Entries : manage_free.large[e] # 0})
    BY DEF TablesMatch
  <2>1. Good(manage_free, owned)
    BY DEF ThreadsInv
  <2>2. manage_free.large_cnt = Cardinality({e \in Entries : manage_free.large[e] # 0})
    BY <2>1 DEF Good, AllocOK, LargeOK, LiveEntries
  <2> QED
    BY <2>1, <2>2, GoodTables
<1> QED
  BY <1>1, ThreadsInvHolds, PTL

(***************************************************************************)
(* Whoever holds the mutex and runs took it over whole tables, also in the *)
(* child of a fork: no call works on what another has half done.           *)
(***************************************************************************)
THEOREM CallsStartWholeCorrect ==
  ASSUME ~ExitFrees
  PROVE  Spec => []CallsStartWhole
<1>1. ThreadsInv => CallsStartWhole
  BY GoodTables DEF ThreadsInv, CallsStartWhole
<1> QED
  BY <1>1, ThreadsInvHolds, PTL

(***************************************************************************)
(* What show_alloc_mem has printed when it unlocks is of one moment: the   *)
(* pools and large[] as they were when it took the mutex, a line for each  *)
(* block the threads then held and hold.                                   *)
(***************************************************************************)
THEOREM ShowIsSnapshotCorrect ==
  ASSUME ~ExitFrees
  PROVE  Spec => []ShowIsSnapshot
<1>1. ThreadsInv => ShowIsSnapshot
  <2> SUFFICES ASSUME ThreadsInv, NEW t \in Threads, pc[t] = "unlock", frame[t].op = "show"
               PROVE  {<<line.from + METASIZE, line.bytes>> : line \in frame[t].shown} =
                        {<<p, ToInt(owned[p])>> : p \in DOMAIN owned}
    BY DEF ShowIsSnapshot
  <2> DEFINE s == before
             lines == ShownLines(s)
  <2>1. pc[t] \in Within
    BY DEF Within, Labels, Outside
  <2>2. Rest("unlock", before, frame[t], manage_free) /\ Good(s, owned) /\ AllocOK(s)
    BY <2>1, HolderFacts
  <2>3. frame[t].shown = lines
    BY <2>2 DEF Rest, Finished
  <2>4. \A p, n : BlockAt(s, p, n) <=> p \in DOMAIN owned /\ n = owned[p]
    BY <2>2 DEF Good
  <2> HIDE DEF s, lines
  <2>5. ASSUME NEW line \in lines
        PROVE  \E p \in DOMAIN owned : <<line.from + METASIZE, line.bytes>> = <<p, ToInt(owned[p])>>
    <3>1. PICK o \in Owners : InUse(s, o) /\ line = LineOf(s, o)
      BY <2>2, <2>5, LinesOfPlaces DEF lines
    <3> DEFINE p == OwnerHeader(s, o) + METASIZE
    <3>2. p \in DOMAIN owned /\ Requested(s, o) = owned[p]
      BY <2>4, <3>1 DEF BlockAt
    <3>3. line.from = OwnerHeader(s, o) /\ line.bytes = ToInt(Requested(s, o))
      BY <2>2, <3>1, LineOfBlock
    <3> QED
      BY <3>2, <3>3
  <2>6. ASSUME NEW p \in DOMAIN owned
        PROVE  \E line \in lines : <<line.from + METASIZE, line.bytes>> = <<p, ToInt(owned[p])>>
    <3>1. BlockAt(s, p, owned[p])
      BY <2>4
    <3>2. PICK o \in Owners : /\ InUse(s, o) /\ p = OwnerHeader(s, o) + METASIZE
                              /\ owned[p] = Requested(s, o)
      BY <3>1 DEF BlockAt
    <3>3. LineOf(s, o) \in lines
      BY <2>2, <3>2, LinesOfPlaces DEF lines
    <3>4. LineOf(s, o).from = OwnerHeader(s, o) /\ LineOf(s, o).bytes = ToInt(Requested(s, o))
      BY <2>2, <3>2, LineOfBlock
    <3> QED
      BY <3>2, <3>3, <3>4
  <2>7. {<<line.from + METASIZE, line.bytes>> : line \in lines} =
          {<<p, ToInt(owned[p])>> : p \in DOMAIN owned}
    BY <2>5, <2>6
  <2> QED
    BY <2>3, <2>7
<1> QED
  BY <1>1, ThreadsInvHolds, PTL

=============================================================================
