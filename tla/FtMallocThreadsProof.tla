------------------------- MODULE FtMallocThreadsProof -------------------------
(***************************************************************************)
(* Theorems about the mutex of FtMallocThreads, for any number of threads  *)
(* and of calls, and any instance of the allocator.                        *)
(***************************************************************************)
EXTENDS FtMallocThreads, TLAPS

Outside == {"idle", "lock", "gone"}
Within == Labels \ Outside

\* A frame as far as the mutex is concerned: it knows its operation.
IsFrame(f) == "op" \in DOMAIN f /\ f.op \in Ops

(***************************************************************************)
(* The mutex is held by the thread that is between its lock and its        *)
(* unlock, so there is at most one, and otherwise by nobody or, in the     *)
(* child of a fork, by a thread that is not there.                         *)
(***************************************************************************)
LockInv ==
  /\ pc \in [Threads -> Labels]
  /\ DOMAIN frame = Threads /\ \A t \in Threads : IsFrame(frame[t])
  /\ mutex \in Threads \cup {NoThread}
  /\ \A t \in Threads : pc[t] \in Within => mutex = t
  /\ \A t \in Threads : mutex = t => pc[t] \in Within \cup {"gone"}

LEMMA CallFrame ==
  ASSUME NEW op \in Ops, NEW ptr, NEW size
  PROVE  IsFrame(Call(op, ptr, size))
  BY DEF IsFrame, Call

\* Assigning to a local variable keeps a frame a frame.
LEMMA FrameChanges ==
  ASSUME NEW f, IsFrame(f), NEW a, NEW b
  PROVE  /\ IsFrame([f EXCEPT !.ret = a]) /\ IsFrame([f EXCEPT !.owner = a])
         /\ IsFrame([f EXCEPT !.shown = a]) /\ IsFrame([f EXCEPT !.count = a])
         /\ IsFrame([f EXCEPT !.ret = a, !.refused = b])
         /\ IsFrame([f EXCEPT !.owner = a, !.moving = b])
<1>1. ASSUME NEW x \in {"ret", "owner", "shown", "count"}
      PROVE  IsFrame([f EXCEPT ![x] = a])
  BY DEF IsFrame
<1>2. ASSUME NEW x \in {"ret", "owner"}, NEW y \in {"refused", "moving"}
      PROVE  IsFrame([f EXCEPT ![x] = a, ![y] = b])
  BY DEF IsFrame
<1> QED
  BY <1>1, <1>2

\* The labels a call can start at are under the mutex.
LEMMA FirstWithin ==
  ASSUME NEW f, IsFrame(f)
  PROVE  FirstLabel(f) \in Within
  BY DEF IsFrame, FirstLabel, MallocLabel, Within, Labels, Outside, Ops

\* A step from one label under the mutex to another keeps LockInv.
LEMMA StepKeeps ==
  ASSUME LockInv, NEW t \in Threads, pc[t] \in Within,
         \E s : \E f : \E label \in Within : IsFrame(f) /\ Step(t, s, f, label)
  PROVE  LockInv'
<1>1. PICK s, f : \E label \in Within : IsFrame(f) /\ Step(t, s, f, label)
  OBVIOUS
<1>2. PICK label \in Within : IsFrame(f) /\ Step(t, s, f, label)
  BY <1>1
<1>3. label \in Labels
  BY DEF Within
<1> QED
  BY <1>2, <1>3 DEF LockInv, Step, Goto

\* A failing malloc_impl goes on to the unlock.
LEMMA FailKeeps ==
  ASSUME LockInv, NEW t \in Threads, pc[t] \in Within,
         \E s : \E r : Fail(t, s, r)
  PROVE  LockInv'
<1>1. PICK s, r : Fail(t, s, r)
  OBVIOUS
<1>2. IsFrame(frame[t])
  BY DEF LockInv
<1> DEFINE f == [frame[t] EXCEPT !.ret = NULL, !.refused = r]
<1>3. IsFrame(f)
  BY <1>2, FrameChanges
<1>4. Step(t, s, f, "unlock")
  BY <1>1 DEF Fail
<1> HIDE DEF f
<1>5. "unlock" \in Within
  BY DEF Within, Labels, Outside
<1> QED
  BY <1>3, <1>4, <1>5, StepKeeps

-----------------------------------------------------------------------------
LEMMA MallocStepsKeep ==
  ASSUME LockInv, NEW t \in Threads,
         \/ Arena(t) \/ Scan(t) \/ StampSlot(t) \/ Map(t) \/ EnterLarge(t) \/ Record(t)
  PROVE  LockInv'
<1>1. IsFrame(frame[t])
  BY DEF LockInv
<1>2. {"arena", "scan", "stamp", "map", "enter", "record", "copy", "zero", "unlock"}
        \subseteq Within
  BY DEF Within, Labels, Outside
<1>3. AfterMalloc(frame[t]) \in Within
  BY <1>2 DEF AfterMalloc
<1>4. CASE Arena(t)
  <2>1. pc[t] \in Within
    BY <1>2, <1>4 DEF Arena, At
  <2>2. \/ \E s : \E r : Fail(t, s, r)
        \/ \E s : Step(t, s, frame[t], "scan")
    BY <1>4 DEF Arena
  <2> QED
    BY <1>1, <1>2, <2>1, <2>2, FailKeeps, StepKeeps
<1>5. CASE Scan(t)
  <2>1. pc[t] \in Within
    BY <1>2, <1>5 DEF Scan, At
  <2>2. \/ \E s : \E r : Fail(t, s, r)
        \/ \E s : \E p : Step(t, s, [frame[t] EXCEPT !.ret = p], "stamp")
    BY <1>5, Zenon DEF Scan
  <2>3. \A p : IsFrame([frame[t] EXCEPT !.ret = p])
    BY <1>1, FrameChanges
  <2> QED
    BY <1>2, <2>1, <2>2, <2>3, FailKeeps, StepKeeps
<1>6. CASE StampSlot(t)
  <2>1. pc[t] \in Within
    BY <1>2, <1>6 DEF StampSlot, At
  <2>2. \E s : Step(t, s, frame[t], AfterMalloc(frame[t]))
    BY <1>6, Zenon DEF StampSlot
  <2> QED
    BY <1>1, <1>3, <2>1, <2>2, StepKeeps
<1>7. CASE Map(t)
  <2>1. pc[t] \in Within
    BY <1>2, <1>7 DEF Map, At
  <2>2. \/ \E s : \E r : Fail(t, s, r)
        \/ \E s : \E p : Step(t, s, [frame[t] EXCEPT !.ret = p], "enter")
    BY <1>7, Zenon DEF Map
  <2>3. \A p : IsFrame([frame[t] EXCEPT !.ret = p])
    BY <1>1, FrameChanges
  <2> QED
    BY <1>2, <2>1, <2>2, <2>3, FailKeeps, StepKeeps
<1>8. CASE EnterLarge(t)
  <2>1. pc[t] \in Within
    BY <1>2, <1>8 DEF EnterLarge, At
  <2>2. \E s : Step(t, s, frame[t], "record")
    BY <1>8, Zenon DEF EnterLarge
  <2> QED
    BY <1>1, <1>2, <2>1, <2>2, StepKeeps
<1>9. CASE Record(t)
  <2>1. pc[t] \in Within
    BY <1>2, <1>9 DEF Record, At
  <2>2. \E s : Step(t, s, frame[t], AfterMalloc(frame[t]))
    BY <1>9, Zenon DEF Record
  <2> QED
    BY <1>1, <1>3, <2>1, <2>2, StepKeeps
<1> QED
  BY <1>4, <1>5, <1>6, <1>7, <1>8, <1>9

LEMMA OtherStepsKeep ==
  ASSUME LockInv, NEW t \in Threads,
         \/ Find(t) \/ Copy(t) \/ Zero(t) \/ Lookup(t) \/ Release(t) \/ Drop(t)
         \/ Show1(t) \/ Show2(t)
  PROVE  LockInv'
<1>1. IsFrame(frame[t])
  BY DEF LockInv
<1>2. {"find", "copy", "zero", "lookup", "release", "drop", "show1", "show2", "unlock", "exit"}
        \subseteq Within
  BY DEF Within, Labels, Outside
<1>3. \A n : MallocLabel(n) \in Within
  BY DEF MallocLabel, Within, Labels, Outside
<1>4. \A a, b : /\ IsFrame([frame[t] EXCEPT !.ret = a])
                /\ IsFrame([frame[t] EXCEPT !.owner = a])
                /\ IsFrame([frame[t] EXCEPT !.shown = a])
                /\ IsFrame([frame[t] EXCEPT !.owner = a, !.moving = b])
  BY <1>1, FrameChanges
<1>5. CASE Find(t)
  <2>1. pc[t] \in Within
    BY <1>2, <1>5 DEF Find, At
  <2>2. \/ \E s : \E r : Fail(t, s, r)
        \/ \E s : \E a : Step(t, s, [frame[t] EXCEPT !.ret = a], "unlock")
        \/ \E s : \E a : Step(t, s, [frame[t] EXCEPT !.owner = a, !.moving = TRUE],
                              MallocLabel(frame[t].size))
    BY <1>5, Zenon DEF Find
  <2> QED
    BY <1>2, <1>3, <1>4, <2>1, <2>2, FailKeeps, StepKeeps
<1>6. CASE Copy(t)
  <2>1. pc[t] \in Within
    BY <1>2, <1>6 DEF Copy, At
  <2>2. \E s : Step(t, s, frame[t], "lookup")
    BY <1>6, Zenon DEF Copy
  <2> QED
    BY <1>1, <1>2, <2>1, <2>2, StepKeeps
<1>7. CASE Lookup(t)
  <2>1. pc[t] \in Within
    BY <1>2, <1>7 DEF Lookup, At
  <2>2. \E s : \E a : \E label \in {"unlock", "release"} :
          Step(t, s, [frame[t] EXCEPT !.owner = a], label)
    BY <1>7 DEF Lookup
  <2> QED
    BY <1>2, <1>4, <2>1, <2>2, StepKeeps
<1>8. CASE Release(t)
  <2>1. pc[t] \in Within
    BY <1>2, <1>8 DEF Release, At
  <2>2. \E s : \E label \in {"unlock", "drop", "exit"} : Step(t, s, frame[t], label)
    BY <1>8 DEF Release
  <2> QED
    BY <1>1, <1>2, <2>1, <2>2, StepKeeps
<1>9. CASE Drop(t)
  <2>1. pc[t] \in Within
    BY <1>2, <1>9 DEF Drop, At
  <2>2. \E s : Step(t, s, frame[t], "unlock")
    BY <1>9, Zenon DEF Drop
  <2> QED
    BY <1>1, <1>2, <2>1, <2>2, StepKeeps
<1>10. CASE Show1(t) \/ Show2(t)
  <2>1. pc[t] \in Within
    BY <1>2, <1>10 DEF Show1, Show2, At
  <2>2. \E s : \E a : \E label \in {"show2", "unlock"} :
          Step(t, s, [frame[t] EXCEPT !.shown = a], label)
    BY <1>10 DEF Show1, Show2
  <2> QED
    BY <1>2, <1>4, <2>1, <2>2, StepKeeps
<1>11. CASE Zero(t)
  <2>1. pc[t] \in Within
    BY <1>2, <1>11 DEF Zero, At
  <2>2. \E s : Step(t, s, frame[t], "unlock")
    BY <1>11, Zenon DEF Zero
  <2> QED
    BY <1>1, <1>2, <2>1, <2>2, StepKeeps
<1> QED
  BY <1>5, <1>6, <1>7, <1>8, <1>9, <1>10, <1>11

-----------------------------------------------------------------------------
LEMMA EnterKeeps ==
  ASSUME LockInv, NEW t \in Threads, Enter(t)
  PROVE  LockInv'
<1>0. \A f \in Requests : IsFrame(f)
  <2>1. \A op \in Ops : \A p, n : IsFrame(Call(op, p, n))
    BY CallFrame
  <2>2. \A k, n : IsFrame([Call("calloc", NULL, n) EXCEPT !.count = k])
    BY <2>1, FrameChanges DEF Ops
  <2> QED
    BY <2>1, <2>2 DEF Requests, Ops
<1>1. PICK f : IsFrame(f) /\ frame' = [frame EXCEPT ![t] = f]
  BY <1>0 DEF Enter
<1>2. pc[t] = "idle" /\ pc' = [pc EXCEPT ![t] = "lock"] /\ mutex' = mutex
  BY DEF Enter, At, Goto
<1> QED
  BY <1>1, <1>2 DEF LockInv, Within, Labels, Outside

LEMMA LockKeeps ==
  ASSUME LockInv, NEW t \in Threads, Lock(t)
  PROVE  LockInv'
<1> DEFINE label == FirstLabel(frame[t])
<1>1. label \in Within /\ label \in Labels
  BY FirstWithin DEF LockInv, Within
<1>2. /\ pc[t] = "lock" /\ pc' = [pc EXCEPT ![t] = label]
      /\ mutex = NoThread /\ mutex' = t /\ frame' = frame
  BY DEF Lock, At, Goto, CanLock
<1> HIDE DEF label
<1>3. \A u \in Threads : pc[u] \notin Within
  BY <1>2, ThreadsAssumption DEF LockInv
<1> QED
  BY <1>1, <1>2, <1>3 DEF LockInv

LEMMA UnlockKeeps ==
  ASSUME LockInv, NEW t \in Threads, Unlock(t)
  PROVE  LockInv'
<1>1. /\ pc[t] = "unlock" /\ pc' = [pc EXCEPT ![t] = "idle"]
      /\ mutex' = NoThread /\ frame' = frame
  BY DEF Unlock, At, Goto
<1>2. mutex = t
  BY <1>1 DEF LockInv, Within, Labels, Outside
<1>3. \A u \in Threads : u # t => pc[u] \notin Within
  BY <1>2 DEF LockInv
<1>4. "idle" \in Labels /\ "idle" \notin Within
  BY DEF Within, Labels, Outside
<1> QED
  BY <1>1, <1>3, <1>4, ThreadsAssumption DEF LockInv

LEMMA ExitKeeps ==
  ASSUME LockInv, ~ExitFrees, NEW t \in Threads, ExitProcess(t)
  PROVE  LockInv'
<1> DEFINE f == Call("free", frame[t].ptr, 0)
<1>1. IsFrame(f)
  BY CallFrame DEF Ops
<1>2. pc' = pc /\ mutex' = mutex /\ frame' = [frame EXCEPT ![t] = f]
  BY DEF ExitProcess
<1> HIDE DEF f
<1> QED
  BY <1>1, <1>2 DEF LockInv

LEMMA ForkKeeps ==
  ASSUME LockInv, NEW t \in Threads, Fork(t)
  PROVE  LockInv'
<1>1. /\ pc[t] = "idle" /\ mutex' = mutex
      /\ pc' = [u \in Threads |-> IF u = t THEN "idle" ELSE "gone"]
      /\ frame' = [u \in Threads |-> IF u = t THEN frame[t] ELSE Call("show", NULL, 0)]
  BY DEF Fork, At
<1>2. IsFrame(Call("show", NULL, 0))
  BY CallFrame DEF Ops
<1>3. "idle" \in Labels /\ "gone" \in Labels /\ "idle" \notin Within /\ "gone" \notin Within
  BY DEF Within, Labels, Outside
<1>4. mutex # t
  BY <1>1, <1>3 DEF LockInv
<1> QED
  BY <1>1, <1>2, <1>3, <1>4 DEF LockInv

(***************************************************************************)
(* As long as no exit handler frees, the mutex belongs to the thread that  *)
(* is inside the allocator.                                                *)
(***************************************************************************)
THEOREM LockInvHolds ==
  ASSUME ~ExitFrees
  PROVE  Spec => []LockInv
<1>1. Init => LockInv
  <2> SUFFICES ASSUME Init PROVE LockInv
    OBVIOUS
  <2>1. IsFrame(Call("show", NULL, 0))
    BY CallFrame DEF Ops
  <2>2. "idle" \in Labels /\ "idle" \notin Within
    BY DEF Within, Labels, Outside
  <2> QED
    BY <2>1, <2>2, ThreadsAssumption DEF Init, LockInv
<1>2. LockInv /\ [Next]_vars => LockInv'
  <2> SUFFICES ASSUME LockInv, [Next]_vars PROVE LockInv'
    OBVIOUS
  <2>1. ASSUME NEW t \in Threads, Enter(t) PROVE LockInv'
    BY <2>1, EnterKeeps
  <2>2. ASSUME NEW t \in Threads, Lock(t) PROVE LockInv'
    BY <2>2, LockKeeps
  <2>3. ASSUME NEW t \in Threads, Inside(t) PROVE LockInv'
    BY <2>3, MallocStepsKeep, OtherStepsKeep, UnlockKeeps, ExitKeeps DEF Inside
  <2>4. CASE UNCHANGED vars
    BY <2>4 DEF vars, LockInv
  <2>5. ASSUME NEW t \in Threads, Fork(t) PROVE LockInv'
    BY <2>5, ForkKeeps
  <2> QED
    BY <2>1, <2>2, <2>3, <2>4, <2>5 DEF Next, Terminated
<1> QED
  BY <1>1, <1>2, PTL DEF Spec

(***************************************************************************)
(* Unless an exit handler frees, no thread waits for the mutex it holds:   *)
(* the *_impl functions never take it (src/ft_malloc.c:303).               *)
(***************************************************************************)
THEOREM NoSelfDeadlockCorrect ==
  ASSUME ~ExitFrees
  PROVE  Spec => []NoSelfDeadlock
<1>1. LockInv => NoSelfDeadlock
  BY DEF LockInv, NoSelfDeadlock, Within, Labels, Outside
<1> QED
  BY <1>1, LockInvHolds, PTL

\* No two threads are between lock and unlock at the same time.
MutualExclusion == \A t, u \in Threads : pc[t] \in Within /\ pc[u] \in Within => t = u

(***************************************************************************)
(* The accesses of two calls never mix, whatever the number of threads.    *)
(***************************************************************************)
THEOREM MutualExclusionCorrect ==
  ASSUME ~ExitFrees
  PROVE  Spec => []MutualExclusion
<1>1. LockInv => MutualExclusion
  BY DEF LockInv, MutualExclusion
<1> QED
  BY <1>1, LockInvHolds, PTL

-----------------------------------------------------------------------------
LEMMA InsideWithin ==
  ASSUME NEW t \in Threads, Inside(t)
  PROVE  pc[t] \in Within
<1>1. ASSUME NEW label \in {"arena", "scan", "stamp", "map", "enter", "record", "find", "copy",
                           "zero", "lookup", "release", "drop", "show1", "show2", "unlock", "exit"},
             At(t, label)
      PROVE  pc[t] \in Within
  BY <1>1 DEF At, Within, Labels, Outside
<1>2. CASE Arena(t) \/ Scan(t) \/ StampSlot(t) \/ Map(t) \/ EnterLarge(t) \/ Record(t)
  <2>1. \/ At(t, "arena") \/ At(t, "scan") \/ At(t, "stamp")
        \/ At(t, "map") \/ At(t, "enter") \/ At(t, "record")
    BY <1>2, Zenon DEF Arena, Scan, StampSlot, Map, EnterLarge, Record
  <2> QED
    BY <1>1, <2>1
<1>3. CASE Find(t) \/ Copy(t) \/ Zero(t) \/ Lookup(t) \/ Release(t) \/ Drop(t)
  <2>1. \/ At(t, "find") \/ At(t, "copy") \/ At(t, "zero")
        \/ At(t, "lookup") \/ At(t, "release") \/ At(t, "drop")
    BY <1>3, Zenon DEF Find, Copy, Zero, Lookup, Release, Drop
  <2> QED
    BY <1>1, <2>1
<1>4. CASE Show1(t) \/ Show2(t) \/ Unlock(t) \/ ExitProcess(t)
  <2>1. At(t, "show1") \/ At(t, "show2") \/ At(t, "unlock") \/ At(t, "exit")
    BY <1>4, Zenon DEF Show1, Show2, Unlock, ExitProcess
  <2> QED
    BY <1>1, <2>1
<1> QED
  BY <1>2, <1>3, <1>4 DEF Inside

\* No thread that is there can do more than ask for the mutex, or fork.
LEMMA OrphanStuck ==
  ASSUME LockInv, Orphaned, [Next]_vars
  PROVE  manage_free' = manage_free /\ Orphaned'
<1>1. \A t \in Threads : pc[t] \in {"idle", "lock", "gone"} /\ ~CanLock(t)
  BY DEF LockInv, Orphaned, Within, Outside, CanLock, Labels
<1>2. mutex \in Threads /\ pc[mutex] = "gone"
  BY DEF LockInv, Orphaned
<1>3. \A t \in Threads : ~Lock(t)
  BY <1>1 DEF Lock
<1>4. \A t \in Threads : ~Inside(t)
  BY <1>1, InsideWithin DEF Within, Outside
<1>5. ASSUME NEW t \in Threads, Enter(t) PROVE manage_free' = manage_free /\ Orphaned'
  <2>1. /\ pc[t] = "idle" /\ pc' = [pc EXCEPT ![t] = "lock"]
        /\ mutex' = mutex /\ manage_free' = manage_free
    BY <1>5 DEF Enter, At, Goto
  <2> QED
    BY <1>2, <2>1, ThreadsAssumption DEF Orphaned, LockInv
<1>6. ASSUME NEW t \in Threads, Fork(t) PROVE manage_free' = manage_free /\ Orphaned'
  <2>1. /\ pc[t] = "idle" /\ pc' = [u \in Threads |-> IF u = t THEN "idle" ELSE "gone"]
        /\ mutex' = mutex /\ manage_free' = manage_free
    BY <1>6 DEF Fork, At
  <2> QED
    BY <1>2, <2>1, ThreadsAssumption DEF Orphaned
<1>7. CASE UNCHANGED vars
  BY <1>7 DEF vars, Orphaned
<1> QED
  BY <1>3, <1>4, <1>5, <1>6, <1>7 DEF Next, Terminated

(***************************************************************************)
(* A child that was forked in the middle of another thread's call never    *)
(* touches the allocator, nor do its own children: torn tables are never   *)
(* read.                                                                   *)
(***************************************************************************)
THEOREM OrphanFrozenCorrect ==
  ASSUME ~ExitFrees
  PROVE  Spec => [][Orphaned => manage_free' = manage_free /\ Orphaned']_vars
<1>1. LockInv /\ [Next]_vars => [Orphaned => manage_free' = manage_free /\ Orphaned']_vars
  BY OrphanStuck
<1> QED
  BY <1>1, LockInvHolds, PTL DEF Spec

=============================================================================
