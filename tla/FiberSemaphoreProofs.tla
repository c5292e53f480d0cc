------------------------ MODULE FiberSemaphoreProofs ------------------------
(***************************************************************************)
(* Theorems about FiberSemaphore, for any number of threads and fibers and *)
(* any count and bound: nobody waits although there is a permit, the       *)
(* semaphore uses the scheduler as it must, and it implements              *)
(* CountingSemaphore.                                                      *)
(***************************************************************************)
EXTENDS FiberSemaphore, FiberSchedulerProofs

-----------------------------------------------------------------------------
(* A fiber in the list has left its stack or is about to leave it with the *)
(* spinlock held.                                                          *)
OnItsWay(f) == f \in parked \/ \E t \in Threads : Releasing(t, f)

WaitList ==
    /\ IsInjective(waiters)
    /\ \A f \in Range(waiters) : OnItsWay(f)

(* One thread at a time is about to unlock the spinlock for a fiber that   *)
(* left, and until then nobody takes it.                                   *)
SpinlockKept ==
    /\ \A t \in Threads, f \in Fibers : Releasing(t, f) => locked
    /\ \A t, u \in Threads, f, g \in Fibers :
          Releasing(t, f) /\ Releasing(u, g) => t = u

SemaphoreState == WaitersNeedPermits /\ WaitList /\ SpinlockKept

SemaphoreInv == OwnInv /\ IsFiniteSet(parked) /\ SemaphoreState

-----------------------------------------------------------------------------
LEMMA InitSemaphoreInv == SemaphoreInit => SemaphoreInv
<1> SUFFICES ASSUME SemaphoreInit PROVE SemaphoreInv
    OBVIOUS
<1> USE ListedEmpty DEF SemaphoreInit
<1>1. OwnInv /\ IsFiniteSet(parked)
    BY InitOwn, FS_EmptySet DEF Init
<1>2. WaitersNeedPermits
  <2>1. count \in Nat /\ (count <= InitialCount \/ count <= Bound)
    BY CountsAreNumbers
  <2>2. QED
    BY <2>1, EmptySeq DEF WaitersNeedPermits, SemaphoreTypeOK
<1>3. WaitList
  <2>1. Range(waiters) = {} /\ IsInjective(waiters)
    OBVIOUS
  <2>2. QED
    BY <2>1 DEF WaitList
<1>4. SpinlockKept
    BY Names DEF SpinlockKept, Releasing, Init
<1>5. QED
    BY <1>1, <1>2, <1>3, <1>4 DEF SemaphoreInv, SemaphoreState

(* Who has the spinlock finds only fibers in the list that left.           *)
LEMMA ListIsParked ==
    ASSUME SemaphoreInv, ~locked
    PROVE  /\ waiters \in Seq(Fibers) /\ IsInjective(waiters)
           /\ Range(waiters) \subseteq parked
           /\ \A t \in Threads, f \in Fibers : ~Releasing(t, f)
<1>1. /\ waiters \in Seq(Fibers) /\ IsInjective(waiters)
      /\ \A t \in Threads, f \in Fibers : ~Releasing(t, f)
    BY DEF SemaphoreInv, SemaphoreState, WaitersNeedPermits, SemaphoreTypeOK,
           WaitList, SpinlockKept
<1>2. Range(waiters) \in SUBSET Fibers
    BY <1>1, ListedTyped
<1>3. QED
    BY <1>1, <1>2 DEF SemaphoreInv, SemaphoreState, WaitList, OnItsWay

(* The fiber that executes is not in the list.                             *)
LEMMA Caller ==
    ASSUME SemaphoreInv, NEW t \in Threads, MayEnter(t)
    PROVE  \E f \in Fibers : f = running[t] /\ f \notin Range(waiters)
BY RunnerNotParked, ListIsParked DEF SemaphoreInv, MayEnter

(* Each step of the semaphore is one that the scheduler allows.            *)
LEMMA UsesScheduler ==
    ASSUME SemaphoreInv, [SemaphoreNext]_semaphoreVars
    PROVE  [Next]_vars
<1> USE Names
<1>1. CASE UNCHANGED semaphoreVars
    BY <1>1 DEF semaphoreVars
<1>2. ASSUME NEW t \in Threads, SchedulerStep(t) PROVE [Next]_vars
    BY <1>2 DEF SchedulerStep, Next
<1>3. ASSUME NEW t \in Threads, ReleaseSpinlock(t) PROVE [Next]_vars
    BY <1>3 DEF ReleaseSpinlock, Next, LibraryStep
<1>4. ASSUME NEW t \in Threads, LeaveFiber(t) \/ Spawn(t) PROVE [Next]_vars
    BY <1>4 DEF LeaveFiber, Next, ClientStep
<1>5. ASSUME NEW t \in Threads, Wait(t) PROVE [Next]_vars
    BY <1>5 DEF Wait, Next, ClientStep
<1>6. ASSUME NEW t \in Threads, SignalPermit(t) PROVE [Next]_vars
  <2>1. CASE waiters = <<>>
    BY <1>6, <2>1 DEF SignalPermit
  <2>2. CASE waiters # <<>>
    <3>1. Head(waiters) \in Range(waiters) /\ Range(waiters) \subseteq parked
        BY <1>6, <2>2, ListIsParked, ListedPop DEF SignalPermit, MayEnter
    <3>2. PICK f \in parked : f = Head(waiters)
        BY <3>1
    <3>3. WakeOne(t, f)
        BY <1>6, <2>2, <3>2 DEF SignalPermit
    <3>4. QED
        BY <3>3 DEF Next, ClientStep
  <2>3. QED
    BY <2>1, <2>2
<1>7. ASSUME NEW t \in Threads, Destroy(t) PROVE [Next]_vars
  <2>1. PICK l \in WakeOrders : WakeList(t, l)
    <3>1. waiters \in WakeOrders
        BY <1>7, ListIsParked, MayBeWoken DEF Destroy, MayEnter, SemaphoreInv
    <3>2. <<>> \in WakeOrders
        BY ListedEmpty, EmptySeq, MayBeWoken DEF SemaphoreInv
    <3>3. QED
        BY <1>7, <3>1, <3>2 DEF Destroy
  <2>2. QED
    BY <2>1 DEF Next
<1>8. QED
    BY <1>1, <1>2, <1>3, <1>4, <1>5, <1>6, <1>7 DEF SemaphoreNext

-----------------------------------------------------------------------------
LEMMA ReturnsTyped ==
    ASSUME SemaphoreInv, CallsReturn
    PROVE  calls' \in [Fibers -> {"none", "waiting"}]
BY DEF SemaphoreInv, SemaphoreState, WaitersNeedPermits, SemaphoreTypeOK,
       CallsReturn

(* Steps of the scheduler and of fibers that leave the semaphore alone.    *)
LEMMA OtherStepSemaphore ==
    ASSUME SemaphoreInv, OwnInv', NEW t \in Threads,
           \/ SchedulerStep(t)
           \/ LeaveFiber(t)
           \/ Spawn(t) /\ UNCHANGED <<semaphore, calls>>
    PROVE  SemaphoreState'
<1> USE Names
<1>1. OwnInv /\ SemaphoreState /\ UNCHANGED <<count, waiters, locked, alive>>
    BY DEF SemaphoreInv, SchedulerStep, LeaveFiber, semaphore
<1>2. /\ parked' = parked
      /\ \A u \in Threads, f \in Fibers : Releasing(u, f)' <=> Releasing(u, f)
    BY <1>1, NoneParks DEF OwnInv, TypeInv, SchedulerStep, LeaveFiber
<1>3. Range(waiters) \in SUBSET Fibers
    BY <1>1, ListedTyped DEF SemaphoreState, WaitersNeedPermits, SemaphoreTypeOK
<1>4. calls' \in [Fibers -> {"none", "waiting"}]
    BY <1>1, ReturnsTyped
       DEF SchedulerStep, LeaveFiber, SemaphoreState, WaitersNeedPermits,
           SemaphoreTypeOK
<1>5. WaitersNeedPermits'
    BY <1>1, <1>4 DEF SemaphoreState, WaitersNeedPermits, SemaphoreTypeOK
<1>6. (WaitList /\ SpinlockKept)'
    BY <1>1, <1>2, <1>3 DEF SemaphoreState, WaitList, OnItsWay, SpinlockKept
<1>7. QED
    BY <1>5, <1>6 DEF SemaphoreState

LEMMA ReleaseSpinlockSemaphore ==
    ASSUME SemaphoreInv, NEW t \in Threads, ReleaseSpinlock(t)
    PROVE  SemaphoreState'
<1> USE Names DEF GoTo, Return, contexts
<1>1. /\ OwnInv /\ TypeOK /\ SemaphoreState /\ CallsReturn /\ pc[t] = "release"
      /\ parked' = parked \cup {it[t]} /\ locked' = FALSE
      /\ it' = [it EXCEPT ![t] = NULL]
      /\ pc' = [pc EXCEPT ![t] = ReturnLabel(t)]
      /\ UNCHANGED <<count, waiters, alive, deferred, contexts>>
    BY DEF SemaphoreInv, OwnInv, TypeInv, ReleaseSpinlock, Release
<1>2. PICK g \in Fibers : g = it[t] /\ Releasing(t, g)
    BY <1>1 DEF OwnInv, TypeInv, Registers, Releasing
<1>3. /\ \A u \in Threads, f \in Fibers : Releasing(u, f) => u = t /\ f = g
      /\ deferred[t] # "release"
    BY <1>1, <1>2, ReleasesOne
       DEF SemaphoreState, SpinlockKept, OwnInv, Locals, AgentLocals
<1>4. ReturnLabel(t) \in {"user", "loop"}
    BY <1>1, ReturnsTo
<1>5. \A u \in Threads, f \in Fibers : ~Releasing(u, f)'
  <2>1. /\ pc'[t] = ReturnLabel(t)
        /\ \A u \in Threads : u # t => pc'[u] = pc[u] /\ it'[u] = it[u]
    BY <1>1 DEF TypeOK
  <2>2. QED
    BY <1>1, <1>3, <1>4, <2>1 DEF Releasing
<1>6. Range(waiters) \in SUBSET Fibers
    BY <1>1, ListedTyped DEF SemaphoreState, WaitersNeedPermits, SemaphoreTypeOK
<1>7. \A f \in Range(waiters) : f \in parked'
    BY <1>1, <1>2, <1>3, <1>6 DEF SemaphoreState, WaitList, OnItsWay
<1>8. WaitersNeedPermits'
    BY <1>1, ReturnsTyped DEF SemaphoreState, WaitersNeedPermits, SemaphoreTypeOK
<1>9. (WaitList /\ SpinlockKept)'
    BY <1>1, <1>5, <1>7 DEF SemaphoreState, WaitList, OnItsWay, SpinlockKept
<1>10. QED
    BY <1>8, <1>9 DEF SemaphoreState

(* fiber_semaphore_wait takes a permit, or its caller joins the list.      *)
LEMMA WaitSemaphore ==
    ASSUME SemaphoreInv, NEW t \in Threads, Wait(t)
    PROVE  SemaphoreState'
<1> USE Names DEF GoTo
<1>1. /\ OwnInv /\ TypeOK /\ SemaphoreTypeOK /\ SemaphoreState /\ MayEnter(t)
      /\ alive /\ ~locked /\ alive' = alive
      /\ Range(waiters) \in SUBSET Fibers
    BY ListedTyped
       DEF SemaphoreInv, OwnInv, TypeInv, SemaphoreState, WaitersNeedPermits,
           SemaphoreTypeOK, Wait, MayEnter
<1>2. PICK f \in Fibers : f = running[t] /\ f \notin Range(waiters)
    BY <1>1, Caller
<1>3. \A u \in Threads, g \in Fibers : ~Releasing(u, g)
    BY <1>1, ListIsParked
<1>4. CASE count > 0
  <2>1. /\ count' = count - 1 /\ waiters = <<>>
        /\ UNCHANGED <<vars, waiters, locked, calls>>
    BY <1>1, <1>4
       DEF Wait, SemaphoreState, WaitersNeedPermits, SemaphoreTypeOK
  <2>2. WaitersNeedPermits'
    <3>1. count' \in Nat /\ (count' <= InitialCount \/ count' <= Bound)
        BY <1>1, <1>4, <2>1, CountsAreNumbers DEF SemaphoreTypeOK
    <3>2. QED
        BY <1>1, <2>1, <3>1 DEF WaitersNeedPermits, SemaphoreTypeOK
  <2>3. (WaitList /\ SpinlockKept)'
    BY <1>1, <1>3, <2>1, ListedEmpty
       DEF SemaphoreState, WaitList, SpinlockKept, Releasing, vars, contexts
  <2>4. QED
    BY <2>2, <2>3 DEF SemaphoreState
<1>5. CASE count = 0
  <2>1. /\ waiters' = Append(waiters, f) /\ locked' = TRUE
        /\ calls' = [calls EXCEPT ![f] = "waiting"]
        /\ it' = [it EXCEPT ![t] = t]
        /\ deferred' = [deferred EXCEPT ![t] = "release"]
        /\ pc' = [pc EXCEPT ![t] = "switch"]
        /\ UNCHANGED <<count, running, parked>>
    BY <1>2, <1>5 DEF Wait, Park, contexts
  <2>2. /\ pc'[t] = "switch" /\ deferred'[t] = "release"
        /\ \A u \in Threads : u # t => /\ pc'[u] = pc[u] /\ it'[u] = it[u]
                                    /\ deferred'[u] = deferred[u]
    BY <1>1, <2>1 DEF TypeOK
  <2>3. \A u \in Threads, g \in Fibers : Releasing(u, g)' <=> u = t /\ g = f
    BY <1>2, <1>3, <2>1, <2>2 DEF Releasing
  <2>4. /\ Range(waiters') = Range(waiters) \cup {f} /\ IsInjective(waiters')
        /\ waiters' \in Seq(Fibers)
    BY <1>1, <1>2, <2>1, ListedAppend
       DEF SemaphoreState, WaitList, SemaphoreTypeOK
  <2>5. \A g \in Range(waiters) : g \in parked
    BY <1>1, ListIsParked
  <2>6. WaitersNeedPermits'
    BY <1>1, <1>5, <2>1, <2>4 DEF WaitersNeedPermits, SemaphoreTypeOK
  <2>7. WaitList'
    BY <1>1, <2>1, <2>3, <2>4, <2>5 DEF WaitList, OnItsWay
  <2>8. SpinlockKept'
    BY <2>1, <2>3 DEF SpinlockKept
  <2>9. QED
    BY <2>6, <2>7, <2>8 DEF SemaphoreState
<1>6. QED
    BY <1>1, <1>4, <1>5 DEF SemaphoreTypeOK

(* fiber_semaphore_signal wakes the first of the list, or counts.          *)
LEMMA SignalSemaphore ==
    ASSUME SemaphoreInv, NEW t \in Threads, SignalPermit(t)
    PROVE  SemaphoreState'
<1> USE Names DEF GoTo
<1>1. /\ OwnInv /\ TypeOK /\ SemaphoreTypeOK /\ SemaphoreState
      /\ ~locked /\ UNCHANGED <<locked, alive, calls>>
      /\ waiters \in Seq(Fibers) /\ IsInjective(waiters)
      /\ Range(waiters) \subseteq parked
      /\ \A u \in Threads, g \in Fibers : ~Releasing(u, g)
    BY ListIsParked
       DEF SemaphoreInv, OwnInv, TypeInv, SemaphoreState, WaitersNeedPermits,
           SignalPermit, MayEnter
<1>2. CASE waiters = <<>>
  <2>1. /\ count' = IF count < Bound THEN count + 1 ELSE count
        /\ UNCHANGED <<vars, waiters>>
    BY <1>2 DEF SignalPermit
  <2>2. WaitersNeedPermits'
    BY <1>1, <1>2, <2>1, CountsAreNumbers DEF WaitersNeedPermits, SemaphoreTypeOK
  <2>3. (WaitList /\ SpinlockKept)'
    BY <1>1, <1>2, <2>1, ListedEmpty
       DEF WaitList, SpinlockKept, Releasing, vars, contexts
  <2>4. QED
    BY <2>2, <2>3 DEF SemaphoreState
<1>3. CASE waiters # <<>>
  <2>1. PICK g \in Fibers : g = Head(waiters)
    BY <1>1, <1>3, ListedPop
  <2>2. /\ waiters' = Tail(waiters) /\ parked' = parked \ {g}
        /\ it' = [it EXCEPT ![t] = g]
        /\ pc' = [pc EXCEPT ![t] = "enqueue"]
        /\ UNCHANGED <<count, deferred, running>>
    BY <1>3, <2>1 DEF SignalPermit, WakeOne, contexts
  <2>3. /\ waiters' \in Seq(Fibers) /\ IsInjective(waiters')
        /\ Range(waiters') = Range(waiters) \ {g}
    BY <1>1, <1>3, <2>1, <2>2, ListedPop
  <2>4. \A u \in Threads, h \in Fibers : ~Releasing(u, h)'
    <3>1. /\ pc'[t] = "enqueue"
          /\ \A u \in Threads : u # t => pc'[u] = pc[u] /\ it'[u] = it[u]
        BY <1>1, <2>2 DEF TypeOK
    <3>2. QED
        BY <1>1, <2>2, <3>1 DEF Releasing
  <2>5. WaitersNeedPermits'
    BY <1>1, <1>3, <2>2, <2>3
       DEF SemaphoreState, WaitersNeedPermits, SemaphoreTypeOK
  <2>6. (WaitList /\ SpinlockKept)'
    BY <1>1, <2>2, <2>3, <2>4 DEF WaitList, OnItsWay, SpinlockKept
  <2>7. QED
    BY <2>5, <2>6 DEF SemaphoreState
<1>4. QED
    BY <1>2, <1>3

(* fiber_semaphore_destroy looks at the list only if the count is zero,    *)
(* and leaves nobody in it.                                                *)
LEMMA DestroySemaphore ==
    ASSUME SemaphoreInv, NEW t \in Threads, Destroy(t)
    PROVE  SemaphoreState'
<1> USE Names, ListedEmpty DEF GoTo
<1>1. /\ OwnInv /\ TypeOK /\ SemaphoreTypeOK /\ ~locked
      /\ waiters' = <<>> /\ pc' = [pc EXCEPT ![t] = "list"]
      /\ UNCHANGED <<count, locked, calls, it, deferred, running>>
      /\ \A u \in Threads, g \in Fibers : ~Releasing(u, g)
      /\ alive' = FALSE
    BY ListIsParked
       DEF SemaphoreInv, OwnInv, TypeInv, SemaphoreState, WaitersNeedPermits,
           SemaphoreTypeOK, Destroy, MayEnter, WakeList, contexts
<1>2. /\ pc'[t] = "list"
      /\ \A u \in Threads : u # t => pc'[u] = pc[u]
    BY <1>1 DEF TypeOK
<1>3. \A u \in Threads, g \in Fibers : ~Releasing(u, g)'
    BY <1>1, <1>2 DEF Releasing
<1>4. WaitersNeedPermits'
    BY <1>1, EmptySeq DEF WaitersNeedPermits, SemaphoreTypeOK
<1>5. (WaitList /\ SpinlockKept)'
    BY <1>1, <1>3 DEF WaitList, SpinlockKept
<1>6. QED
    BY <1>4, <1>5 DEF SemaphoreState

LEMMA NextSemaphoreInv ==
    ASSUME SemaphoreInv, [SemaphoreNext]_semaphoreVars
    PROVE  SemaphoreInv'
<1>1. OwnInv' /\ IsFiniteSet(parked')
    BY UsesScheduler, NextOwn, ParkedFinite DEF SemaphoreInv
<1>2. CASE UNCHANGED semaphoreVars
  <2> USE <1>2 DEF semaphoreVars, semaphore, vars, contexts
  <2>1. \A t \in Threads, f \in Fibers : Releasing(t, f)' <=> Releasing(t, f)
    BY DEF Releasing
  <2>2. WaitersNeedPermits'
    BY DEF SemaphoreInv, SemaphoreState, WaitersNeedPermits, SemaphoreTypeOK
  <2>3. Range(waiters) \in SUBSET Fibers
    BY ListedTyped
       DEF SemaphoreInv, SemaphoreState, WaitersNeedPermits, SemaphoreTypeOK
  <2>4. (WaitList /\ SpinlockKept)'
    BY <2>1, <2>3
       DEF SemaphoreInv, SemaphoreState, WaitList, OnItsWay, SpinlockKept
  <2>5. QED
    BY <1>1, <2>2, <2>4 DEF SemaphoreInv, SemaphoreState
<1>3. CASE SemaphoreNext
    BY <1>1, <1>3, OtherStepSemaphore, ReleaseSpinlockSemaphore, WaitSemaphore,
       SignalSemaphore, DestroySemaphore DEF SemaphoreNext, SemaphoreInv
<1>4. QED
    BY <1>2, <1>3

LEMMA SemaphoreInvariant == SemaphoreSpec => []SemaphoreInv
<1>1. SemaphoreInit => SemaphoreInv
    BY InitSemaphoreInv
<1>2. SemaphoreInv /\ [SemaphoreNext]_semaphoreVars => SemaphoreInv'
    BY NextSemaphoreInv
<1>3. QED
    BY <1>1, <1>2, PTL DEF SemaphoreSpec

(* Nobody waits on a semaphore that has a permit or has been freed.        *)
THEOREM NoneWaitsWithPermits == SemaphoreSpec => []WaitersNeedPermits
<1>1. SemaphoreInv => WaitersNeedPermits
    BY DEF SemaphoreInv, SemaphoreState
<1>2. QED
    BY <1>1, SemaphoreInvariant, PTL

(* What signal and destroy wake are fibers whose stacks have been left:    *)
(* every behaviour of the semaphore is one of the scheduler.               *)
THEOREM SemaphoreUsesScheduler == SemaphoreSpec => SchedulerSpec
<1>1. SemaphoreInit => Init
    BY DEF SemaphoreInit
<1>2. SemaphoreInv /\ [SemaphoreNext]_semaphoreVars => [Next]_vars
    BY UsesScheduler
<1>3. QED
    BY <1>1, <1>2, SemaphoreInvariant, PTL DEF SemaphoreSpec, SchedulerSpec, Spec

-----------------------------------------------------------------------------
LEMMA WaitCounts ==
    ASSUME SemaphoreInv, NEW t \in Threads, Wait(t)
    PROVE  \E f \in Fibers : Counting!Wait(f)
<1>1. /\ SemaphoreTypeOK /\ WaitersNeedPermits /\ MayEnter(t)
    BY DEF SemaphoreInv, SemaphoreState, WaitersNeedPermits, Wait
<1>2. PICK f \in Fibers : f = running[t] /\ f \notin Range(waiters)
    BY <1>1, Caller
<1>3. f \notin Counting!Range(waiters)
    BY <1>2 DEF Counting!Range, Range
<1>4. CASE count > 0
  <2>1. count' = count - 1 /\ waiters = <<>> /\ waiters' = waiters
    BY <1>1, <1>4 DEF Wait, WaitersNeedPermits, SemaphoreTypeOK
  <2>2. QED
    BY <1>1, <1>3, <1>4, <2>1 DEF Counting!Wait, SemaphoreTypeOK
<1>5. CASE count = 0
  <2>1. count' = count /\ waiters' = Append(waiters, f)
    BY <1>2, <1>5 DEF Wait
  <2>2. Len(waiters) \in Nat /\ Len(waiters') = Len(waiters) + 1
    BY <1>1, <2>1 DEF SemaphoreTypeOK
  <2>3. QED
    BY <1>1, <1>3, <1>5, <2>1, <2>2 DEF Counting!Wait, SemaphoreTypeOK
<1>6. QED
    BY <1>1, <1>4, <1>5 DEF SemaphoreTypeOK

LEMMA SignalCounts ==
    ASSUME SemaphoreInv, NEW t \in Threads, SignalPermit(t)
    PROVE  Counting!Signal \/ UNCHANGED <<count - Len(waiters), waiters>>
<1>1. SemaphoreTypeOK /\ WaitersNeedPermits
    BY DEF SemaphoreInv, SemaphoreState, WaitersNeedPermits
<1>2. CASE waiters = <<>>
  <2>1. /\ count' = IF count < Bound THEN count + 1 ELSE count
        /\ waiters' = waiters /\ Len(waiters) = 0
    BY <1>2 DEF SignalPermit
  <2>2. QED
    BY <1>1, <2>1, CountsAreNumbers DEF Counting!Signal, SemaphoreTypeOK
<1>3. CASE waiters # <<>>
  <2>1. count = 0 /\ count' = 0 /\ waiters' = Tail(waiters)
    BY <1>1, <1>3 DEF SignalPermit, WaitersNeedPermits
  <2>2. Len(waiters) \in Nat \ {0} /\ Len(waiters') = Len(waiters) - 1
    BY <1>1, <1>3, <2>1, HeadTailProperties, EmptySeq DEF SemaphoreTypeOK
  <2>3. /\ count - Len(waiters) < 0
        /\ (count - Len(waiters))' = (count - Len(waiters)) + 1
    BY <2>1, <2>2
  <2>4. QED
    BY <2>1, <2>3 DEF Counting!Signal
<1>4. QED
    BY <1>2, <1>3

LEMMA DestroyCounts ==
    ASSUME SemaphoreInv, NEW t \in Threads, Destroy(t)
    PROVE  Counting!Destroy \/ UNCHANGED <<count - Len(waiters), waiters>>
<1>1. /\ SemaphoreTypeOK /\ WaitersNeedPermits /\ count' = count
      /\ waiters' = <<>>
    BY DEF SemaphoreInv, SemaphoreState, WaitersNeedPermits, SemaphoreTypeOK,
           Destroy
<1>2. CASE waiters = <<>>
    BY <1>1, <1>2
<1>3. CASE waiters # <<>>
  <2>1. (count - Len(waiters))' = 0
    BY <1>1, <1>3 DEF WaitersNeedPermits
  <2>2. QED
    BY <1>1, <1>3, <2>1 DEF Counting!Destroy
<1>4. QED
    BY <1>2, <1>3

(* Every step of the semaphore is one of CountingSemaphore, or changes     *)
(* nothing there.                                                          *)
LEMMA CountingStep ==
    ASSUME SemaphoreInv, [SemaphoreNext]_semaphoreVars
    PROVE  [Counting!Next]_<<count - Len(waiters), waiters>>
<1>1. CASE UNCHANGED semaphoreVars
    BY <1>1 DEF semaphoreVars, semaphore
<1>2. ASSUME NEW t \in Threads, Wait(t) PROVE Counting!Next
    BY <1>2, WaitCounts DEF Counting!Next
<1>3. ASSUME NEW t \in Threads, SignalPermit(t)
      PROVE  [Counting!Next]_<<count - Len(waiters), waiters>>
    BY <1>3, SignalCounts DEF Counting!Next
<1>4. ASSUME NEW t \in Threads, Destroy(t)
      PROVE  [Counting!Next]_<<count - Len(waiters), waiters>>
    BY <1>4, DestroyCounts DEF Counting!Next
<1>5. ASSUME UNCHANGED <<count, waiters>>
      PROVE  [Counting!Next]_<<count - Len(waiters), waiters>>
    BY <1>5
<1>6. QED
    BY <1>1, <1>2, <1>3, <1>4, <1>5
       DEF SemaphoreNext, SchedulerStep, ReleaseSpinlock, LeaveFiber, semaphore

(* The semaphore implements CountingSemaphore: between the counter, the    *)
(* bound and the list no permit is lost and none invented.                 *)
THEOREM SemaphoreCounts == SemaphoreSpec => CountingSpec
<1>1. SemaphoreInit => Counting!Init
    BY CountsAreNumbers DEF SemaphoreInit, Counting!Init
<1>2. SemaphoreInv /\ [SemaphoreNext]_semaphoreVars
        => [Counting!Next]_<<count - Len(waiters), waiters>>
    BY CountingStep
<1>3. QED
    BY <1>1, <1>2, SemaphoreInvariant, PTL
       DEF SemaphoreSpec, CountingSpec, Counting!Spec

=============================================================================
