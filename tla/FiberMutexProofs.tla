-------------------------- MODULE FiberMutexProofs --------------------------
(***************************************************************************)
(* Theorems about FiberMutex, for any number of threads and fibers: mutual *)
(* exclusion, that a freed mutex is not touched, that the mutex uses the   *)
(* scheduler as it must, and that it implements FifoLock.                  *)
(***************************************************************************)
EXTENDS FiberMutex, FiberSchedulerProofs

-----------------------------------------------------------------------------
(* A fiber in the list has called fiber_mutex_lock, and has left its stack *)
(* or is about to leave it with the spinlock held.                         *)
OnItsWay(f) == f \in parked \/ \E t \in Threads : Releasing(t, f)

WaitList ==
    /\ IsInjective(waiters)
    /\ \A f \in Range(waiters) : calls[f] = "locking" /\ OnItsWay(f)

(* One thread at a time is about to unlock the spinlock for a fiber that   *)
(* left, and until then nobody takes it; so not after the mutex is freed.  *)
SpinlockKept ==
    /\ \A t \in Threads, f \in Fibers : Releasing(t, f) => locked
    /\ \A t, u \in Threads, f, g \in Fibers :
          Releasing(t, f) /\ Releasing(u, g) => t = u
    /\ ~alive => ~locked

HeldByOne ==
    alive => \/ hold = 0 /\ Owners = {} /\ waiters = <<>>
             \/ hold = 1 /\ \E f \in Fibers : Owners = {f}

MutexState == MutexTypeOK /\ WaitList /\ SpinlockKept /\ HeldByOne

MutexInv == OwnInv /\ IsFiniteSet(parked) /\ MutexState

-----------------------------------------------------------------------------
LEMMA InitMutexInv == MutexInit => MutexInv
<1> SUFFICES ASSUME MutexInit PROVE MutexInv
    OBVIOUS
<1> USE ListedEmpty DEF MutexInit
<1>1. OwnInv /\ IsFiniteSet(parked)
    BY InitOwn, FS_EmptySet DEF Init
<1>2. MutexTypeOK
    BY EmptySeq DEF MutexTypeOK
<1>6. WaitList
  <2>1. Range(waiters) = {} /\ IsInjective(waiters)
    OBVIOUS
  <2>2. QED
    BY <2>1 DEF WaitList
<1>3. SpinlockKept
    BY Names DEF SpinlockKept, Releasing, Init
<1>4. HeldByOne
    BY DEF HeldByOne, Owners
<1>5. QED
    BY <1>1, <1>2, <1>3, <1>4, <1>6 DEF MutexInv, MutexState

(* Who has the spinlock finds only fibers in the list that left.           *)
LEMMA ListIsParked ==
    ASSUME MutexInv, ~locked
    PROVE  /\ waiters \in Seq(Fibers) /\ IsInjective(waiters)
           /\ Range(waiters) \subseteq parked
           /\ \A t \in Threads, f \in Fibers : ~Releasing(t, f)
<1>1. /\ waiters \in Seq(Fibers) /\ IsInjective(waiters)
      /\ \A t \in Threads, f \in Fibers : ~Releasing(t, f)
    BY DEF MutexInv, MutexState, MutexTypeOK, WaitList, SpinlockKept
<1>2. Range(waiters) \in SUBSET Fibers
    BY <1>1, ListedTyped
<1>3. QED
    BY <1>1, <1>2 DEF MutexInv, MutexState, WaitList, OnItsWay

(* The fiber that executes, and its call.                                  *)
LEMMA Caller ==
    ASSUME MutexInv, NEW t \in Threads, pc[t] = "user"
    PROVE  \E f \in Fibers : f = running[t] /\ f \notin parked
BY RunnerNotParked DEF MutexInv

(* Each step of the mutex is one that the scheduler allows.                *)
LEMMA UsesScheduler ==
    ASSUME MutexInv, [MutexNext]_mutexVars
    PROVE  [Next]_vars
<1> USE Names
<1>1. CASE UNCHANGED mutexVars
    BY <1>1 DEF mutexVars
<1>2. ASSUME NEW t \in Threads, SchedulerStep(t) PROVE [Next]_vars
    BY <1>2 DEF SchedulerStep, Next
<1>3. ASSUME NEW t \in Threads, ReleaseSpinlock(t) PROVE [Next]_vars
    BY <1>3 DEF ReleaseSpinlock, Next, LibraryStep
<1>4. ASSUME NEW t \in Threads, FiberStep(t) PROVE [Next]_vars
    BY <1>4 DEF FiberStep, LeaveFiber, Next, ClientStep
<1>5. ASSUME NEW t \in Threads, Lock(t) PROVE [Next]_vars
    BY <1>5 DEF Lock, Next, ClientStep
<1>6. ASSUME NEW t \in Threads, Unlock(t) PROVE [Next]_vars
  <2>1. CASE waiters = <<>>
    BY <1>6, <2>1 DEF Unlock
  <2>2. CASE waiters # <<>>
    <3>1. Head(waiters) \in Range(waiters) /\ Range(waiters) \subseteq parked
        BY <1>6, <2>2, ListIsParked, ListedPop DEF Unlock, MayEnter
    <3>2. PICK f \in parked : f = Head(waiters)
        BY <3>1
    <3>3. WakeOne(t, f)
        BY <1>6, <2>2, <3>2 DEF Unlock
    <3>4. QED
        BY <3>3 DEF Next, ClientStep
  <2>3. QED
    BY <2>1, <2>2
<1>7. ASSUME NEW t \in Threads, Destroy(t) PROVE [Next]_vars
  <2>1. PICK l \in WakeOrders : l = IF hold = 1 THEN waiters ELSE <<>>
    <3>1. waiters \in WakeOrders
        BY <1>7, ListIsParked, MayBeWoken DEF Destroy, MayEnter, MutexInv
    <3>2. <<>> \in WakeOrders
        BY ListedEmpty, EmptySeq, MayBeWoken DEF MutexInv
    <3>3. QED
        BY <3>1, <3>2
  <2>2. WakeList(t, l)
    BY <1>7, <2>1 DEF Destroy
  <2>3. QED
    BY <2>2 DEF Next
<1>8. QED
    BY <1>1, <1>2, <1>3, <1>4, <1>5, <1>6, <1>7 DEF MutexNext

-----------------------------------------------------------------------------
(* A call that returns belongs to a fiber that was given the mutex, or     *)
(* whose mutex was freed: not to one that is in the list.                  *)
LEMMA ReturnsKeepOwners ==
    ASSUME MutexInv, OwnInv', CallsReturn, UNCHANGED waiters,
           \A f \in Range(waiters) : OnItsWay(f)'
    PROVE  /\ calls' \in [Fibers -> {"none", "locking", "holding"}]
           /\ \A f \in Range(waiters) : calls'[f] = "locking"
           /\ Owners' = Owners
<1>1. /\ calls \in [Fibers -> {"none", "locking", "holding"}]
      /\ Range(waiters) \in SUBSET Fibers
      /\ \A f \in Range(waiters) : calls[f] = "locking"
    BY ListedTyped DEF MutexInv, MutexState, MutexTypeOK, WaitList
<1>2. ASSUME NEW f \in Range(waiters) PROVE ~Executing(f)'
    BY <1>1, <1>2, WaiterIsOff DEF OnItsWay
<1>3. \A f \in Fibers :
        \/ calls'[f] = calls[f]
        \/ calls[f] = "locking" /\ calls'[f] = "holding" /\ f \notin Range(waiters)
    BY <1>1, <1>2 DEF CallsReturn
<1>4. calls' \in [Fibers -> {"none", "locking", "holding"}]
    BY <1>1 DEF CallsReturn
<1>5. Owners' = Owners
    BY <1>3 DEF Owners
<1>6. QED
    BY <1>1, <1>3, <1>4, <1>5

LEMMA SchedulerStepMutex ==
    ASSUME MutexInv, OwnInv', NEW t \in Threads, SchedulerStep(t)
    PROVE  MutexState'
<1> USE Names
<1>1. /\ OwnInv /\ MutexState /\ CallsReturn
      /\ UNCHANGED <<hold, waiters, locked, alive>>
    BY DEF MutexInv, SchedulerStep, mutex
<1>2. /\ parked' = parked
      /\ \A u \in Threads, f \in Fibers : Releasing(u, f)' <=> Releasing(u, f)
    BY <1>1, NoneParks DEF OwnInv, TypeInv, SchedulerStep
<1>3. waiters \in Seq(Fibers) /\ Range(waiters) \in SUBSET Fibers
    BY <1>1, ListedTyped DEF MutexState, MutexTypeOK
<1>4. \A f \in Range(waiters) : OnItsWay(f)'
    BY <1>1, <1>2, <1>3 DEF MutexState, WaitList, OnItsWay
<1>5. /\ calls' \in [Fibers -> {"none", "locking", "holding"}]
      /\ \A f \in Range(waiters) : calls'[f] = "locking"
      /\ Owners' = Owners
    BY <1>1, <1>4, ReturnsKeepOwners
<1>6. MutexTypeOK' /\ WaitList' /\ HeldByOne'
    BY <1>1, <1>4, <1>5 DEF MutexState, MutexTypeOK, WaitList, HeldByOne
<1>7. SpinlockKept'
    BY <1>1, <1>2 DEF MutexState, SpinlockKept
<1>8. QED
    BY <1>6, <1>7 DEF MutexState

LEMMA ReleaseSpinlockMutex ==
    ASSUME MutexInv, OwnInv', NEW t \in Threads, ReleaseSpinlock(t)
    PROVE  MutexState'
<1> USE Names DEF GoTo, Return, contexts
<1>1. /\ OwnInv /\ TypeOK /\ MutexState /\ CallsReturn /\ pc[t] = "release"
      /\ parked' = parked \cup {it[t]} /\ locked' = FALSE
      /\ it' = [it EXCEPT ![t] = NULL]
      /\ pc' = [pc EXCEPT ![t] = ReturnLabel(t)]
      /\ UNCHANGED <<hold, waiters, alive, deferred, contexts>>
    BY DEF MutexInv, OwnInv, TypeInv, ReleaseSpinlock, Release
<1>2. PICK g \in Fibers : g = it[t] /\ Releasing(t, g)
    BY <1>1 DEF OwnInv, TypeInv, Registers, Releasing
<1>3. /\ \A u \in Threads, f \in Fibers : Releasing(u, f) => u = t /\ f = g
      /\ deferred[t] # "release"
    BY <1>1, <1>2, ReleasesOne
       DEF MutexState, SpinlockKept, OwnInv, Locals, AgentLocals
<1>4. ReturnLabel(t) \in {"user", "loop"}
    BY <1>1, ReturnsTo
<1>5. \A u \in Threads, f \in Fibers : ~Releasing(u, f)'
  <2>1. /\ pc'[t] = ReturnLabel(t)
        /\ \A u \in Threads : u # t => pc'[u] = pc[u] /\ it'[u] = it[u]
    BY <1>1 DEF TypeOK
  <2>2. QED
    BY <1>1, <1>3, <1>4, <2>1 DEF Releasing
<1>6. waiters \in Seq(Fibers) /\ Range(waiters) \in SUBSET Fibers
    BY <1>1, ListedTyped DEF MutexState, MutexTypeOK
<1>7. \A f \in Range(waiters) : f \in parked'
    BY <1>1, <1>2, <1>3, <1>6 DEF MutexState, WaitList, OnItsWay
<1>8. \A f \in Range(waiters) : OnItsWay(f)'
    BY <1>7 DEF OnItsWay
<1>9. /\ calls' \in [Fibers -> {"none", "locking", "holding"}]
      /\ \A f \in Range(waiters) : calls'[f] = "locking"
      /\ Owners' = Owners
    BY <1>1, <1>8, ReturnsKeepOwners
<1>10. MutexTypeOK' /\ WaitList' /\ HeldByOne'
    BY <1>1, <1>8, <1>9 DEF MutexState, MutexTypeOK, WaitList, HeldByOne
<1>11. SpinlockKept'
    BY <1>1, <1>5 DEF SpinlockKept
<1>12. QED
    BY <1>10, <1>11 DEF MutexState

LEMMA FiberStepMutex ==
    ASSUME MutexInv, OwnInv', NEW t \in Threads, FiberStep(t)
    PROVE  MutexState'
<1> USE Names
<1>1. OwnInv /\ MutexState /\ UNCHANGED <<hold, waiters, locked, alive, calls>>
    BY DEF MutexInv, FiberStep, LeaveFiber, mutex
<1>2. /\ parked' = parked
      /\ \A u \in Threads, f \in Fibers : Releasing(u, f)' <=> Releasing(u, f)
    BY <1>1, NoneParks DEF OwnInv, TypeInv, FiberStep, LeaveFiber
<1>3. waiters \in Seq(Fibers) /\ Range(waiters) \in SUBSET Fibers
    BY <1>1, ListedTyped DEF MutexState, MutexTypeOK
<1>4. MutexTypeOK' /\ WaitList' /\ HeldByOne'
    BY <1>1, <1>2, <1>3
       DEF MutexState, MutexTypeOK, WaitList, OnItsWay, HeldByOne, Owners
<1>5. SpinlockKept'
    BY <1>1, <1>2 DEF MutexState, SpinlockKept
<1>6. QED
    BY <1>4, <1>5 DEF MutexState

(* fiber_mutex_lock gets the mutex, or its caller joins the list.          *)
LEMMA LockMutex ==
    ASSUME MutexInv, OwnInv', NEW t \in Threads, Lock(t)
    PROVE  MutexState'
<1> USE Names DEF GoTo
<1>1. /\ OwnInv /\ TypeOK /\ MutexState /\ pc[t] = "user" /\ alive /\ ~locked
      /\ calls \in [Fibers -> {"none", "locking", "holding"}]
      /\ Range(waiters) \in SUBSET Fibers /\ waiters \in Seq(Fibers)
      /\ alive' = alive
    BY ListedTyped
       DEF MutexInv, OwnInv, TypeInv, MutexState, MutexTypeOK, Lock, MayEnter
<1>2. PICK f \in Fibers : f = running[t]
    BY <1>1, Caller
<1>3. \A u \in Threads, g \in Fibers : ~Releasing(u, g)
    BY <1>1, ListIsParked
<1>4. calls[f] = "none" /\ f \notin Range(waiters)
    BY <1>1, <1>2 DEF Lock, MutexState, WaitList
<1>5. CASE hold = 0
  <2>1. /\ hold' = 1 /\ calls' = [calls EXCEPT ![f] = "holding"]
        /\ UNCHANGED <<vars, waiters, locked>>
        /\ Owners = {} /\ waiters = <<>>
    BY <1>1, <1>2, <1>5 DEF Lock, MutexState, HeldByOne
  <2>2. Range(waiters) = {} /\ IsInjective(waiters)
    BY <2>1, ListedEmpty
  <2>3. Owners' = {f}
    BY <1>1, <2>1, <2>2 DEF Owners
  <2>4. MutexTypeOK' /\ WaitList' /\ HeldByOne'
    BY <1>1, <2>1, <2>2, <2>3 DEF MutexState, MutexTypeOK, WaitList, HeldByOne
  <2>5. SpinlockKept'
    BY <1>1, <1>3, <2>1 DEF SpinlockKept, Releasing, vars, contexts
  <2>6. QED
    BY <2>4, <2>5 DEF MutexState
<1>6. CASE hold = 1
  <2>1. /\ waiters' = Append(waiters, f) /\ locked' = TRUE
        /\ calls' = [calls EXCEPT ![f] = "locking"]
        /\ it' = [it EXCEPT ![t] = t]
        /\ deferred' = [deferred EXCEPT ![t] = "release"]
        /\ pc' = [pc EXCEPT ![t] = "switch"]
        /\ UNCHANGED <<hold, running, parked>>
    BY <1>2, <1>6 DEF Lock, Park, contexts
  <2>2. /\ pc'[t] = "switch" /\ deferred'[t] = "release"
        /\ \A u \in Threads : u # t => /\ pc'[u] = pc[u] /\ it'[u] = it[u]
                                    /\ deferred'[u] = deferred[u]
    BY <1>1, <2>1 DEF TypeOK
  <2>3. \A u \in Threads, g \in Fibers : Releasing(u, g)' <=> u = t /\ g = f
    BY <1>2, <1>3, <2>1, <2>2 DEF Releasing
  <2>4. /\ Range(waiters') = Range(waiters) \cup {f} /\ IsInjective(waiters')
        /\ waiters' \in Seq(Fibers)
    BY <1>1, <1>4, <2>1, ListedAppend DEF MutexState, WaitList
  <2>5. \A g \in Range(waiters') : calls'[g] = "locking" /\ OnItsWay(g)'
    <3>1. OnItsWay(f)' /\ calls'[f] = "locking"
        BY <1>1, <2>1, <2>3 DEF OnItsWay
    <3>2. ASSUME NEW g \in Range(waiters), g # f
          PROVE  calls'[g] = "locking" /\ OnItsWay(g)'
        BY <1>1, <1>3, <2>1, <3>2 DEF MutexState, WaitList, OnItsWay
    <3>3. QED
        BY <2>4, <3>1, <3>2
  <2>6. Owners' = Owners
    BY <1>1, <1>4, <2>1, <2>4 DEF Owners
  <2>7. MutexTypeOK' /\ WaitList'
    BY <1>1, <1>6, <2>1, <2>4, <2>5 DEF MutexTypeOK, WaitList
  <2>8. HeldByOne'
    BY <1>1, <1>6, <2>1, <2>6 DEF MutexState, HeldByOne
  <2>9. SpinlockKept'
    BY <1>1, <2>1, <2>3 DEF SpinlockKept
  <2>10. QED
    BY <2>7, <2>8, <2>9 DEF MutexState
<1>7. QED
    BY <1>1, <1>5, <1>6 DEF MutexState, MutexTypeOK

(* fiber_mutex_unlock makes the mutex free, or its first waiter the owner. *)
LEMMA UnlockMutex ==
    ASSUME MutexInv, OwnInv', NEW t \in Threads, Unlock(t)
    PROVE  MutexState'
<1> USE Names DEF GoTo
<1>1. /\ OwnInv /\ TypeOK /\ MutexState /\ pc[t] = "user" /\ alive /\ ~locked
      /\ calls \in [Fibers -> {"none", "locking", "holding"}]
      /\ Range(waiters) \in SUBSET Fibers /\ waiters \in Seq(Fibers)
      /\ IsInjective(waiters)
      /\ UNCHANGED <<locked, alive>>
    BY ListedTyped
       DEF MutexInv, OwnInv, TypeInv, MutexState, MutexTypeOK, WaitList, Unlock,
           MayEnter
<1>2. PICK f \in Fibers : f = running[t]
    BY <1>1, Caller
<1>3. /\ \A u \in Threads, g \in Fibers : ~Releasing(u, g)
      /\ Range(waiters) \subseteq parked
    BY <1>1, ListIsParked
<1>4. calls[f] = "holding" /\ calls' = [calls EXCEPT ![f] = "none"]
    BY <1>2 DEF Unlock
<1>5. f \in Owners /\ hold = 1 /\ Owners = {f} /\ f \notin Range(waiters)
    BY <1>1, <1>4 DEF Owners, MutexState, HeldByOne, WaitList
<1>6. CASE waiters = <<>>
  <2>1. hold' = 0 /\ UNCHANGED <<vars, waiters>>
    BY <1>6 DEF Unlock
  <2>2. Range(waiters) = {}
    BY <1>6, ListedEmpty
  <2>3. Owners' = {}
    BY <1>1, <1>4, <1>5, <2>1 DEF Owners
  <2>4. MutexTypeOK' /\ WaitList' /\ HeldByOne'
    BY <1>1, <1>4, <1>6, <2>1, <2>2, <2>3
       DEF MutexState, MutexTypeOK, WaitList, HeldByOne
  <2>5. SpinlockKept'
    BY <1>1, <1>3, <2>1 DEF SpinlockKept, Releasing, vars, contexts
  <2>6. QED
    BY <2>4, <2>5 DEF MutexState
<1>7. CASE waiters # <<>>
  <2>1. PICK g \in Fibers : g = Head(waiters)
    BY <1>1, <1>7, ListedPop
  <2>2. /\ waiters' = Tail(waiters) /\ parked' = parked \ {g}
        /\ it' = [it EXCEPT ![t] = g]
        /\ pc' = [pc EXCEPT ![t] = "enqueue"]
        /\ UNCHANGED <<hold, deferred, running>>
    BY <1>7, <2>1 DEF Unlock, WakeOne, contexts
  <2>3. /\ waiters' \in Seq(Fibers) /\ IsInjective(waiters')
        /\ g \in Range(waiters) /\ Range(waiters') = Range(waiters) \ {g}
    BY <1>1, <1>7, <2>1, <2>2, ListedPop
  <2>4. \A u \in Threads, h \in Fibers : ~Releasing(u, h)'
    <3>1. /\ pc'[t] = "enqueue"
          /\ \A u \in Threads : u # t => pc'[u] = pc[u] /\ it'[u] = it[u]
        BY <1>1, <2>2 DEF TypeOK
    <3>2. QED
        BY <1>3, <2>2, <3>1 DEF Releasing
  <2>5. \A h \in Range(waiters') : calls'[h] = "locking" /\ OnItsWay(h)'
    BY <1>1, <1>3, <1>4, <1>5, <2>2, <2>3 DEF MutexState, WaitList, OnItsWay
  <2>6. Owners' = {g}
    <3>1. calls[g] = "locking" /\ g # f
        BY <1>1, <1>5, <2>3 DEF MutexState, WaitList
    <3>2. \A h \in Fibers : h \in Owners' <=> h = g
        BY <1>1, <1>4, <1>5, <2>3, <3>1 DEF Owners
    <3>3. QED
        BY <3>2 DEF Owners
  <2>7. MutexTypeOK' /\ WaitList'
    BY <1>1, <1>4, <1>5, <2>2, <2>3, <2>5 DEF MutexState, MutexTypeOK, WaitList
  <2>8. HeldByOne'
    BY <1>1, <1>5, <2>2, <2>6 DEF HeldByOne
  <2>9. SpinlockKept'
    BY <1>1, <2>4 DEF SpinlockKept
  <2>10. QED
    BY <2>7, <2>8, <2>9 DEF MutexState
<1>8. QED
    BY <1>6, <1>7

LEMMA DestroyMutex ==
    ASSUME MutexInv, OwnInv', NEW t \in Threads, Destroy(t)
    PROVE  MutexState'
<1> USE Names, ListedEmpty DEF GoTo
<1>1. /\ OwnInv /\ TypeOK /\ MutexState /\ pc[t] = "user" /\ ~locked
      /\ alive' = FALSE /\ waiters' = <<>>
      /\ pc' = [pc EXCEPT ![t] = "list"]
      /\ UNCHANGED <<hold, locked, calls, it, deferred, contexts>>
    BY DEF MutexInv, OwnInv, TypeInv, Destroy, MayEnter, WakeList
<1>2. \A u \in Threads, g \in Fibers : ~Releasing(u, g)
    BY <1>1, ListIsParked
<1>3. /\ pc'[t] = "list"
      /\ \A u \in Threads : u # t => pc'[u] = pc[u]
    BY <1>1 DEF TypeOK
<1>4. \A u \in Threads, g \in Fibers : ~Releasing(u, g)'
    BY <1>1, <1>2, <1>3 DEF Releasing, contexts
<1>5. MutexTypeOK' /\ HeldByOne' /\ SpinlockKept'
    BY <1>1, <1>4, EmptySeq DEF MutexState, MutexTypeOK, HeldByOne, SpinlockKept
<1>6. WaitList'
  <2>1. Range(waiters') = {} /\ IsInjective(waiters')
    BY <1>1
  <2>2. QED
    BY <2>1 DEF WaitList
<1>7. QED
    BY <1>5, <1>6 DEF MutexState

LEMMA NextMutexInv ==
    ASSUME MutexInv, [MutexNext]_mutexVars
    PROVE  MutexInv'
<1>1. [Next]_vars
    BY UsesScheduler
<1>2. OwnInv' /\ IsFiniteSet(parked')
    BY <1>1, NextOwn, ParkedFinite DEF MutexInv
<1>3. CASE UNCHANGED mutexVars
  <2> USE <1>3 DEF mutexVars, mutex, vars, contexts
  <2>1. \A t \in Threads, f \in Fibers : Releasing(t, f)' <=> Releasing(t, f)
    BY DEF Releasing
  <2>2. (MutexTypeOK /\ HeldByOne)'
    BY DEF MutexInv, MutexState, MutexTypeOK, HeldByOne, Owners
  <2>3. Range(waiters) \in SUBSET Fibers
    BY ListedTyped DEF MutexInv, MutexState, MutexTypeOK
  <2>4. (WaitList /\ SpinlockKept)'
    BY <2>1, <2>3 DEF MutexInv, MutexState, WaitList, OnItsWay, SpinlockKept
  <2>5. QED
    BY <1>2, <2>2, <2>4 DEF MutexInv, MutexState
<1>4. CASE MutexNext
    BY <1>2, <1>4, SchedulerStepMutex, ReleaseSpinlockMutex, FiberStepMutex,
       LockMutex, UnlockMutex, DestroyMutex DEF MutexNext, MutexInv
<1>5. QED
    BY <1>3, <1>4

LEMMA MutexInvariant == MutexSpec => []MutexInv
<1>1. MutexInit => MutexInv
    BY InitMutexInv
<1>2. MutexInv /\ [MutexNext]_mutexVars => MutexInv'
    BY NextMutexInv
<1>3. QED
    BY <1>1, <1>2, PTL DEF MutexSpec

(* Mutual exclusion, also while the mutex is on its way from the fiber     *)
(* that unlocks it to the one that waited longest, and no lost unlock.     *)
THEOREM MutualExclusion == MutexSpec => []HoldIsOwned
<1>1. MutexInv => HoldIsOwned
    BY FS_EmptySet, FS_Singleton DEF MutexInv, MutexState, HeldByOne, HoldIsOwned
<1>2. QED
    BY <1>1, MutexInvariant, PTL

(* Nobody unlocks the spinlock of a mutex that fiber_mutex_destroy freed.  *)
THEOREM NoUnlockAfterFree == MutexSpec => []FreedUnused
<1>1. MutexInv => FreedUnused
    BY ReleasesOne DEF MutexInv, MutexState, SpinlockKept, FreedUnused
<1>2. QED
    BY <1>1, MutexInvariant, PTL

(* What unlock and destroy wake are fibers whose stacks have been left:    *)
(* every behaviour of the mutex is one of the scheduler.                   *)
THEOREM MutexUsesScheduler == MutexSpec => SchedulerSpec
<1>1. MutexInit => Init
    BY DEF MutexInit
<1>2. MutexInv /\ [MutexNext]_mutexVars => [Next]_vars
    BY UsesScheduler
<1>3. QED
    BY <1>1, <1>2, MutexInvariant, PTL DEF MutexSpec, SchedulerSpec, Spec

-----------------------------------------------------------------------------
(* A queue whose head is written apart from the rest of it.                *)
LEMMA HeadAndRest ==
    ASSUME NEW f \in Fibers, NEW q \in Seq(Fibers)
    PROVE  /\ <<f>> \o q \in Seq(Fibers)
           /\ <<f>> \o q # <<>>
           /\ Tail(<<f>> \o q) = q
           /\ Range(<<f>> \o q) = {f} \cup Range(q)
           /\ q # <<>> => <<Head(q)>> \o Tail(q) = q
           /\ \A g \in Fibers : Append(<<f>> \o q, g) = <<f>> \o Append(q, g)
<1>1. <<f>> \in Seq(Fibers) /\ Len(<<f>>) = 1 /\ <<f>>[1] = f
    OBVIOUS
<1>2. /\ <<f>> \o q \in Seq(Fibers) /\ Len(<<f>> \o q) = 1 + Len(q)
      /\ (<<f>> \o q)[1] = f
      /\ \A i \in 1 .. Len(q) : (<<f>> \o q)[i + 1] = q[i]
    BY <1>1
<1>3. Tail(<<f>> \o q) = q
    BY <1>2
<1>4. Range(<<f>> \o q) = {f} \cup Range(q)
  <2>1. Range(<<f>>) = {f}
    BY <1>1 DEF Range
  <2>2. Range(<<f>> \o q) = Range(<<f>>) \cup Range(q)
    BY <1>1, RangeConcatenation
  <2>3. QED
    BY <2>1, <2>2
<1>5. q # <<>> => <<Head(q)>> \o Tail(q) = q
    OBVIOUS
<1>6. \A g \in Fibers : Append(<<f>> \o q, g) = <<f>> \o Append(q, g)
    BY <1>1
<1>7. QED
    BY <1>2, <1>3, <1>4, <1>5, <1>6

(* What the queue of the lock is in terms of the owner and the list.       *)
LEMMA OwnerFirst ==
    /\ ~alive => LockQueue = <<>>
    /\ Owners = {} => LockQueue = <<>>
    /\ \A f \in Fibers : alive /\ Owners = {f} => LockQueue = <<f>> \o waiters
<1>1. \A f \in Fibers : Owners = {f} => (CHOOSE g \in Owners : TRUE) = f
    OBVIOUS
<1>2. QED
    BY <1>1 DEF LockQueue

LEMMA OwnerFirstNext ==
    /\ ~alive' => LockQueue' = <<>>
    /\ Owners' = {} => LockQueue' = <<>>
    /\ \A f \in Fibers :
          alive' /\ Owners' = {f} => LockQueue' = <<f>> \o waiters'
<1>1. \A f \in Fibers : Owners' = {f} => (CHOOSE g \in Owners' : TRUE) = f
    OBVIOUS
<1>2. QED
    BY <1>1 DEF LockQueue

(* A step that changes neither the owner nor the list is none of FifoLock. *)
LEMMA QueueKept ==
    ASSUME MutexInv, MutexInv', UNCHANGED <<waiters, alive>>,
           alive => Owners' = Owners
    PROVE  UNCHANGED <<LockQueue, alive>>
<1>1. CASE ~alive
    BY <1>1, OwnerFirst, OwnerFirstNext
<1>2. CASE alive
  <2>1. Owners = {} \/ \E f \in Fibers : Owners = {f}
    BY <1>2 DEF MutexInv, MutexState, HeldByOne
  <2>2. QED
    BY <1>2, <2>1, OwnerFirst, OwnerFirstNext
<1>3. QED
    BY <1>1, <1>2

LEMMA LockIsFifo ==
    ASSUME MutexInv, MutexInv', NEW t \in Threads, Lock(t)
    PROVE  \E f \in Fibers : Fifo!Request(f)
<1>1. /\ MutexState /\ MutexState' /\ pc[t] = "user" /\ alive /\ alive'
      /\ calls \in [Fibers -> {"none", "locking", "holding"}]
      /\ waiters \in Seq(Fibers) /\ Range(waiters) \in SUBSET Fibers
    BY ListedTyped DEF MutexInv, MutexState, MutexTypeOK, Lock, MayEnter
<1>2. PICK f \in Fibers : f = running[t]
    BY <1>1, Caller
<1>3. calls[f] = "none" /\ f \notin Range(waiters) /\ f \notin Owners
    BY <1>1, <1>2 DEF Lock, MutexState, WaitList, Owners
<1>4. CASE hold = 0
  <2>1. /\ waiters = <<>> /\ waiters' = <<>> /\ calls'[f] = "holding"
        /\ Owners = {}
    BY <1>1, <1>2, <1>4 DEF Lock, MutexState, HeldByOne
  <2>2. f \in Owners'
    BY <2>1 DEF Owners
  <2>3. Owners' = {f}
    BY <1>1, <2>2 DEF MutexState, HeldByOne
  <2>4. LockQueue = <<>> /\ LockQueue' = <<f>> \o <<>>
    BY <1>1, <2>1, <2>3, OwnerFirst, OwnerFirstNext
  <2>5. LockQueue' = Append(LockQueue, f)
    BY <2>4
  <2>6. QED
    BY <1>1, <2>4, <2>5, ListedEmpty DEF Fifo!Request, Fifo!Range, Range
<1>5. CASE hold = 1
  <2>1. /\ waiters' = Append(waiters, f)
        /\ calls' = [calls EXCEPT ![f] = "locking"]
    BY <1>2, <1>5 DEF Lock
  <2>2. PICK o \in Fibers : Owners = {o}
    BY <1>1, <1>5 DEF MutexState, HeldByOne
  <2>3. Range(waiters') = Range(waiters) \cup {f}
    BY <1>1, <2>1, ListedAppend
  <2>4. o \in Owners'
    BY <1>1, <1>3, <2>1, <2>2, <2>3 DEF Owners
  <2>5. Owners' = {o}
    BY <1>1, <2>4 DEF MutexState, HeldByOne
  <2>6. LockQueue = <<o>> \o waiters /\ LockQueue' = <<o>> \o waiters'
    BY <1>1, <2>2, <2>5, OwnerFirst, OwnerFirstNext
  <2>7. /\ LockQueue' = Append(LockQueue, f)
        /\ Range(LockQueue) = {o} \cup Range(waiters)
    BY <1>1, <2>1, <2>6, HeadAndRest
  <2>8. QED
    BY <1>1, <1>3, <2>2, <2>7 DEF Fifo!Request, Fifo!Range, Range
<1>6. QED
    BY <1>1, <1>4, <1>5 DEF MutexState, MutexTypeOK

LEMMA UnlockIsFifo ==
    ASSUME MutexInv, MutexInv', NEW t \in Threads, Unlock(t)
    PROVE  Fifo!Leave
<1>1. /\ MutexState /\ MutexState' /\ pc[t] = "user" /\ alive /\ alive'
      /\ ~locked
      /\ calls \in [Fibers -> {"none", "locking", "holding"}]
      /\ waiters \in Seq(Fibers) /\ Range(waiters) \in SUBSET Fibers
      /\ IsInjective(waiters)
    BY ListedTyped
       DEF MutexInv, MutexState, MutexTypeOK, WaitList, Unlock, MayEnter
<1>2. PICK f \in Fibers : f = running[t]
    BY <1>1, Caller
<1>3. calls[f] = "holding" /\ calls' = [calls EXCEPT ![f] = "none"]
    BY <1>2 DEF Unlock
<1>4. f \in Owners /\ Owners = {f} /\ hold = 1 /\ f \notin Range(waiters)
    BY <1>1, <1>3 DEF Owners, MutexState, HeldByOne, WaitList
<1>5. LockQueue = <<f>> \o waiters
    BY <1>1, <1>4, OwnerFirst
<1>6. LockQueue # <<>> /\ Tail(LockQueue) = waiters
    BY <1>1, <1>5, HeadAndRest
<1>7. LockQueue' = waiters
  <2>1. CASE waiters = <<>>
    <3>1. hold' = 0
        BY <2>1 DEF Unlock
    <3>2. Owners' = {}
        BY <1>1, <3>1 DEF MutexState, HeldByOne
    <3>3. QED
        BY <2>1, <3>2, OwnerFirstNext
  <2>2. CASE waiters # <<>>
    <3>1. PICK g \in Fibers : g = Head(waiters)
        BY <1>1, <2>2, ListedPop
    <3>2. /\ waiters' = Tail(waiters) /\ g \in Range(waiters)
          /\ g \notin Range(waiters')
      <4>1. /\ Head(waiters) \in Range(waiters)
            /\ Range(Tail(waiters)) = Range(waiters) \ {Head(waiters)}
        BY <1>1, <2>2, ListedPop
      <4>2. waiters' = Tail(waiters)
        BY <2>2 DEF Unlock
      <4>3. QED
        BY <3>1, <4>1, <4>2
    <3>3. calls'[g] = "locking"
        BY <1>1, <1>3, <1>4, <3>2 DEF MutexState, WaitList
    <3>4. g \in Owners'
        BY <3>2, <3>3 DEF Owners
    <3>5. Owners' = {g}
        BY <1>1, <3>4 DEF MutexState, HeldByOne
    <3>6. LockQueue' = <<g>> \o Tail(waiters)
        BY <1>1, <3>2, <3>5, OwnerFirstNext
    <3>7. QED
        BY <1>1, <2>2, <3>1, <3>6, HeadAndRest
  <2>3. QED
    BY <2>1, <2>2
<1>8. QED
    BY <1>1, <1>6, <1>7 DEF Fifo!Leave

(* Every step of the mutex is a step of FifoLock, or changes nothing there.*)
LEMMA FifoStep ==
    ASSUME MutexInv, MutexInv', [MutexNext]_mutexVars
    PROVE  [Fifo!Next]_<<LockQueue, alive>>
<1>1. CASE UNCHANGED mutexVars
    BY <1>1, QueueKept DEF mutexVars, mutex, Owners
<1>2. ASSUME NEW t \in Threads, Lock(t) PROVE Fifo!Next
    BY <1>2, LockIsFifo DEF Fifo!Next
<1>3. ASSUME NEW t \in Threads, Unlock(t) PROVE Fifo!Next
    BY <1>3, UnlockIsFifo DEF Fifo!Next
<1>4. ASSUME NEW t \in Threads, Destroy(t) PROVE Fifo!Next
    BY <1>4, OwnerFirstNext DEF Destroy, MayEnter, Fifo!Next, Fifo!Destroy
<1>5. ASSUME NEW t \in Threads, FiberStep(t)
      PROVE  UNCHANGED <<LockQueue, alive>>
    BY <1>5, QueueKept DEF FiberStep, LeaveFiber, mutex, Owners
<1>6. ASSUME CallsReturn, UNCHANGED <<waiters, alive>>
      PROVE  UNCHANGED <<LockQueue, alive>>
  <2>1. /\ OwnInv' /\ Range(waiters) \in SUBSET Fibers
        /\ \A f \in Range(waiters) : OnItsWay(f)'
    BY <1>6, ListedTyped DEF MutexInv, MutexState, MutexTypeOK, WaitList
  <2>2. Owners' = Owners
    BY <1>6, <2>1, ReturnsKeepOwners
  <2>3. QED
    BY <1>6, <2>2, QueueKept
<1>7. ASSUME NEW t \in Threads, SchedulerStep(t)
      PROVE  UNCHANGED <<LockQueue, alive>>
    BY <1>6, <1>7 DEF SchedulerStep, mutex
<1>8. ASSUME NEW t \in Threads, ReleaseSpinlock(t)
      PROVE  UNCHANGED <<LockQueue, alive>>
    BY <1>6, <1>8 DEF ReleaseSpinlock
<1>9. QED
    BY <1>1, <1>2, <1>3, <1>4, <1>5, <1>7, <1>8 DEF MutexNext

(* The mutex implements FifoLock: through the counter, the list and the    *)
(* hand-over between them it is granted in the order of the requests.      *)
THEOREM MutexIsFifo == MutexSpec => FifoSpec
<1>1. MutexInit => Fifo!Init
    BY OwnerFirst DEF MutexInit, Owners, Fifo!Init
<1>2. MutexInv /\ MutexInv' /\ [MutexNext]_mutexVars
        => [Fifo!Next]_<<LockQueue, alive>>
    BY FifoStep
<1>3. QED
    BY <1>1, <1>2, MutexInvariant, PTL DEF MutexSpec, FifoSpec, Fifo!Spec

=============================================================================
