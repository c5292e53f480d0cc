----------------------------- MODULE FiberMutex -----------------------------
(***************************************************************************)
(* The mutex for fibers, src/mutex.c, on top of the scheduler: one mutex,  *)
(* which all fibers may use.  Its actions are those of FiberScheduler with *)
(* the mutex's own state added.  A fiber that must wait links itself into  *)
(* the mutex's list and leaves the mutex's spinlock to its thread's loop,  *)
(* which unlocks it after the switch; unlocking the mutex hands it to the  *)
(* fiber that has waited longest without setting hold to zero.             *)
(*                                                                         *)
(* "calls" is where each fiber stands with respect to the mutex; it is the *)
(* program counter of the clients, who keep the rules any mutex has: only  *)
(* the fiber that holds the mutex unlocks it, a fiber does not lock it     *)
(* twice or exit with it, and nobody uses a destroyed mutex.               *)
(***************************************************************************)
EXTENDS FiberScheduler

VARIABLES
    hold,           \* m->hold
    waiters,        \* m->fiber_list
    locked,         \* whether the spinlock m->lock is held between two steps
    alive,          \* whether m is allocated
    calls           \* fiber -> none, locking or holding

mutex == <<hold, waiters, locked, alive>>
mutexVars == <<vars, mutex, calls>>

(* fiber_mutex_create, by main() before it spawns fibers.                  *)
MutexInit ==
    /\ Init
    /\ hold = 0
    /\ waiters = <<>>
    /\ locked = FALSE
    /\ alive = TRUE
    /\ calls = [f \in Fibers |-> "none"]

-----------------------------------------------------------------------------
(* A call that had to wait returns when its fiber executes again.          *)
CallsReturn ==
    calls' = [f \in Fibers |-> IF calls[f] = "locking" /\ Executing(f)'
                               THEN "holding" ELSE calls[f]]

(* A fiber may take the spinlock of a mutex that exists.                   *)
MayEnter(t) == pc[t] = "user" /\ alive /\ ~locked

-----------------------------------------------------------------------------
(* Faulty variants of the actions below; see FiberScheduler.               *)

(* hold is reset although a waiting fiber was given the mutex.             *)
UnlockReleasesToo(t) ==
    /\ MayEnter(t)
    /\ calls[running[t]] = "holding"
    /\ hold' = 0
    /\ \/ /\ waiters = <<>>
          /\ UNCHANGED <<vars, waiters>>
       \/ /\ waiters # <<>>
          /\ WakeOne(t, Head(waiters))
          /\ waiters' = Tail(waiters)
    /\ calls' = [calls EXCEPT ![running[t]] = "none"]
    /\ UNCHANGED <<locked, alive>>

(* The youngest waiting fiber is taken.                                    *)
UnlockWakesLast(t) ==
    /\ MayEnter(t)
    /\ calls[running[t]] = "holding"
    /\ \/ /\ waiters = <<>>
          /\ hold' = 0
          /\ UNCHANGED <<vars, waiters>>
       \/ /\ waiters # <<>>
          /\ WakeOne(t, waiters[Len(waiters)])
          /\ waiters' = SubSeq(waiters, 1, Len(waiters) - 1)
          /\ UNCHANGED hold
    /\ calls' = [calls EXCEPT ![running[t]] = "none"]
    /\ UNCHANGED <<locked, alive>>

(* The spinlock is unlocked before the fiber has left its stack.           *)
LockUnlocksFirst(t) ==
    /\ MayEnter(t)
    /\ calls[running[t]] = "none"
    /\ \/ /\ hold = 0
          /\ hold' = 1
          /\ calls' = [calls EXCEPT ![running[t]] = "holding"]
          /\ UNCHANGED <<vars, waiters>>
       \/ /\ hold = 1
          /\ waiters' = Append(waiters, running[t])
          /\ calls' = [calls EXCEPT ![running[t]] = "locking"]
          /\ Park(t)
          /\ UNCHANGED hold
    /\ UNCHANGED <<locked, alive>>

(* The mutex is freed without taking its spinlock.                         *)
DestroyUnlocked(t) ==
    /\ pc[t] = "user"
    /\ alive
    /\ alive' = FALSE
    /\ WakeList(t, IF hold = 1 THEN waiters ELSE <<>>)
    /\ waiters' = <<>>
    /\ UNCHANGED <<hold, locked, calls>>

(* The mutex is freed and its waiting fibers are forgotten.                *)
DestroyStrands(t) ==
    /\ MayEnter(t)
    /\ alive' = FALSE
    /\ WakeList(t, <<>>)
    /\ waiters' = <<>>
    /\ UNCHANGED <<hold, locked, calls>>

-----------------------------------------------------------------------------
(* fiber_mutex_lock: take the mutex, or join its list and leave the stack  *)
(* with the spinlock held.                                                 *)
Lock(t) ==
    /\ MayEnter(t)
    /\ calls[running[t]] = "none"
    /\ \/ /\ hold = 0
          /\ hold' = 1
          /\ calls' = [calls EXCEPT ![running[t]] = "holding"]
          /\ UNCHANGED <<vars, waiters, locked>>
       \/ /\ hold = 1
          /\ waiters' = Append(waiters, running[t])
          /\ locked' = TRUE
          /\ calls' = [calls EXCEPT ![running[t]] = "locking"]
          /\ Park(t)
          /\ UNCHANGED hold
    /\ UNCHANGED alive

(* The deferred fjx_spinlock_unlock on m->lock.                            *)
ReleaseSpinlock(t) ==
    /\ Release(t)
    /\ locked' = FALSE
    /\ CallsReturn
    /\ UNCHANGED <<hold, waiters, alive>>

(* fiber_mutex_unlock: let the mutex go, or leave it to the first fiber of *)
(* its list.                                                               *)
Unlock(t) ==
    /\ MayEnter(t)
    /\ calls[running[t]] = "holding"
    /\ \/ /\ waiters = <<>>
          /\ hold' = 0
          /\ UNCHANGED <<vars, waiters>>
       \/ /\ waiters # <<>>
          /\ WakeOne(t, Head(waiters))
          /\ waiters' = Tail(waiters)
          /\ UNCHANGED hold
    /\ calls' = [calls EXCEPT ![running[t]] = "none"]
    /\ UNCHANGED <<locked, alive>>

(* fiber_mutex_destroy: free the mutex and wake whoever waits for it.      *)
Destroy(t) ==
    /\ MayEnter(t)
    /\ alive' = FALSE
    /\ WakeList(t, IF hold = 1 THEN waiters ELSE <<>>)
    /\ waiters' = <<>>
    /\ UNCHANGED <<hold, locked, calls>>

(* The scheduler's steps that do not concern the mutex.                    *)
SchedulerStep(t) ==
    /\ \/ LibraryStep(t) /\ pc[t] # "release"
       \/ ListStep(t)
    /\ CallsReturn
    /\ UNCHANGED mutex

(* What else a fiber does; it does not exit with the mutex.                *)
LeaveFiber(t) ==
    /\ \/ Yield(t)
       \/ /\ Exit(t)
          /\ alive => calls[running[t]] = "none"
    /\ UNCHANGED <<mutex, calls>>

FiberStep(t) ==
    \/ Spawn(t) /\ UNCHANGED <<mutex, calls>>
    \/ LeaveFiber(t)

MutexNext ==
    \E t \in Threads :
        \/ SchedulerStep(t)
        \/ ReleaseSpinlock(t)
        \/ FiberStep(t)
        \/ Lock(t)
        \/ Unlock(t)
        \/ Destroy(t)

MutexSpec == MutexInit /\ [][MutexNext]_mutexVars

(* As in FiberScheduler; in addition whoever holds the mutex unlocks it    *)
(* sooner or later, and a thread that spins on m->lock gets it if it is    *)
(* free again and again.                                                   *)
UnlockBy(f) == \E t \in Threads : running[t] = f /\ Unlock(t)

LeaveThread(t) ==
    \/ LeaveFiber(t)
    \/ Lock(t) /\ hold = 1

MutexFairSpec ==
    /\ MutexSpec
    /\ \A t \in Threads : /\ WF_mutexVars(SchedulerStep(t))
                          /\ WF_mutexVars(ReleaseSpinlock(t))
                          /\ SF_mutexVars(LeaveThread(t))
    /\ \A f \in Fibers : SF_mutexVars(UnlockBy(f))

-----------------------------------------------------------------------------
(* Type invariant of the mutex and of its clients.                         *)
MutexTypeOK ==
    /\ hold \in {0, 1}
    /\ waiters \in Seq(Fibers)
    /\ locked \in BOOLEAN
    /\ alive \in BOOLEAN
    /\ calls \in [Fibers -> {"none", "locking", "holding"}]

(* The fibers that hold the mutex or were taken out of its list and will   *)
(* find, once they run, that they hold it.                                 *)
Owners ==
    {f \in Fibers : \/ calls[f] = "holding"
                    \/ calls[f] = "locking" /\ f \notin Range(waiters)}

(* hold counts the owners: there is never more than one, mutual exclusion, *)
(* also while the mutex is on its way from one fiber to another; and when  *)
(* nobody owns it, hold is zero and the mutex can be locked.               *)
HoldIsOwned ==
    /\ MutexTypeOK
    /\ alive => /\ Cardinality(Owners) = hold
                /\ hold = 0 => waiters = <<>>

(* No fiber is still about to unlock the spinlock of a mutex that has been *)
(* freed: the deferred unlock of fiber_mutex_lock is over when another     *)
(* fiber gets that spinlock in order to destroy the mutex.                 *)
FreedUnused ==
    ~alive => \A t \in Threads : deferred[t] # "release" /\ pc[t] # "release"

(* The mutex uses the scheduler as FiberScheduler allows: the fibers that  *)
(* unlock and destroy take out of the list of waiting fibers have left     *)
(* their stacks.                                                           *)
SchedulerSpec == Spec

(* The owner and, behind it, the fibers that wait.                         *)
LockQueue ==
    IF ~alive \/ Owners = {} THEN <<>>
    ELSE <<CHOOSE f \in Owners : TRUE>> \o waiters

Fifo == INSTANCE FifoLock WITH queue <- LockQueue

(* The mutex implements FifoLock: it is granted in the order in which the  *)
(* fibers asked for it, across fiber_mutex_lock, the hand-over in          *)
(* fiber_mutex_unlock and fiber_mutex_destroy.                             *)
FifoSpec == Fifo!Spec

(* Every fiber_mutex_lock returns, with the mutex or, once it has been     *)
(* destroyed, without it.                                                  *)
LockReturns ==
    \A f \in Fibers : calls[f] = "locking" ~> calls[f] # "locking"
=============================================================================
