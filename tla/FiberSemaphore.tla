--------------------------- MODULE FiberSemaphore ---------------------------
(***************************************************************************)
(* The semaphore for fibers, src/semaphore.c, on top of the scheduler: one *)
(* semaphore, which all fibers may use.  Built like FiberMutex: a fiber    *)
(* that must wait leaves the spinlock to its thread's loop, and a signal   *)
(* gives its permit to the fiber that has waited longest, without going    *)
(* through the counter.  Clients do not use a destroyed semaphore.         *)
(***************************************************************************)
EXTENDS FiberScheduler

CONSTANTS
    InitialCount,   \* the count given to fiber_semaphore_bound_create
    Bound           \* the bound given to it

ASSUME CountsAreNumbers == InitialCount \in Nat /\ Bound \in Nat

VARIABLES
    count,          \* s->count
    waiters,        \* s->fiber_list
    locked,         \* s->lock is held between two steps
    alive,          \* s is allocated
    calls           \* fiber -> none, or waiting in fiber_semaphore_wait

semaphore == <<count, waiters, locked, alive>>
semaphoreVars == <<vars, semaphore, calls>>

(* fiber_semaphore_bound_create, by main() before it spawns fibers.        *)
SemaphoreInit ==
    /\ Init
    /\ count = InitialCount
    /\ waiters = <<>>
    /\ locked = FALSE
    /\ alive = TRUE
    /\ calls = [f \in Fibers |-> "none"]

-----------------------------------------------------------------------------
(* A call that had to wait returns when its fiber executes again.          *)
CallsReturn ==
    calls' = [f \in Fibers |-> IF calls[f] = "waiting" /\ Executing(f)'
                               THEN "none" ELSE calls[f]]

MayEnter(t) == pc[t] = "user" /\ alive /\ ~locked

-----------------------------------------------------------------------------
(* Faulty variants of the actions below; see FiberScheduler.               *)

(* The spinlock is unlocked before the fiber has left its stack.           *)
WaitUnlocksFirst(t) ==
    /\ MayEnter(t)
    /\ \/ /\ count > 0
          /\ count' = count - 1
          /\ UNCHANGED <<vars, waiters, calls>>
       \/ /\ count = 0
          /\ waiters' = Append(waiters, running[t])
          /\ calls' = [calls EXCEPT ![running[t]] = "waiting"]
          /\ Park(t)
          /\ UNCHANGED count
    /\ UNCHANGED <<locked, alive>>

(* A permit that is handed over is also added to the counter.              *)
SignalCountsTwice(t) ==
    /\ MayEnter(t)
    /\ count' = IF count < Bound THEN count + 1 ELSE count
    /\ \/ /\ waiters # <<>>
          /\ WakeOne(t, Head(waiters))
          /\ waiters' = Tail(waiters)
       \/ /\ waiters = <<>>
          /\ UNCHANGED <<vars, waiters>>
    /\ UNCHANGED <<locked, alive, calls>>

(* The fiber is taken out of the list but not enqueued.                    *)
SignalForgetsFiber(t) ==
    /\ MayEnter(t)
    /\ \/ /\ waiters # <<>>
          /\ waiters' = Tail(waiters)
          /\ UNCHANGED <<vars, count>>
       \/ /\ waiters = <<>>
          /\ count' = IF count < Bound THEN count + 1 ELSE count
          /\ UNCHANGED <<vars, waiters>>
    /\ UNCHANGED <<locked, alive, calls>>

-----------------------------------------------------------------------------
(* fiber_semaphore_wait: take a permit, or join the list and leave the     *)
(* stack with the spinlock held.                                           *)
Wait(t) ==
    /\ MayEnter(t)
    /\ \/ /\ count > 0
          /\ count' = count - 1
          /\ UNCHANGED <<vars, waiters, locked, calls>>
       \/ /\ count = 0
          /\ waiters' = Append(waiters, running[t])
          /\ locked' = TRUE
          /\ calls' = [calls EXCEPT ![running[t]] = "waiting"]
          /\ Park(t)
          /\ UNCHANGED count
    /\ UNCHANGED alive

(* The deferred fjx_spinlock_unlock on s->lock.                            *)
ReleaseSpinlock(t) ==
    /\ Release(t)
    /\ locked' = FALSE
    /\ CallsReturn
    /\ UNCHANGED <<count, waiters, alive>>

(* fiber_semaphore_signal: wake the first fiber of the list, or count.     *)
SignalPermit(t) ==
    /\ MayEnter(t)
    /\ \/ /\ waiters # <<>>
          /\ WakeOne(t, Head(waiters))
          /\ waiters' = Tail(waiters)
          /\ UNCHANGED count
       \/ /\ waiters = <<>>
          /\ count' = IF count < Bound THEN count + 1 ELSE count
          /\ UNCHANGED <<vars, waiters>>
    /\ UNCHANGED <<locked, alive, calls>>

(* fiber_semaphore_destroy: wake whoever waits, if the count is zero.      *)
Destroy(t) ==
    /\ MayEnter(t)
    /\ alive' = FALSE
    /\ \/ /\ count = 0
          /\ WakeList(t, waiters)
          /\ waiters' = <<>>
       \/ /\ count > 0
          /\ WakeList(t, <<>>)
          /\ UNCHANGED waiters
    /\ UNCHANGED <<count, locked, calls>>

(* The scheduler's steps that do not concern the semaphore.                *)
SchedulerStep(t) ==
    /\ \/ LibraryStep(t) /\ pc[t] # "release"
       \/ ListStep(t)
    /\ CallsReturn
    /\ UNCHANGED semaphore

LeaveFiber(t) ==
    /\ Yield(t) \/ Exit(t)
    /\ UNCHANGED <<semaphore, calls>>

SemaphoreNext ==
    \E t \in Threads :
        \/ SchedulerStep(t)
        \/ ReleaseSpinlock(t)
        \/ LeaveFiber(t)
        \/ Spawn(t) /\ UNCHANGED <<semaphore, calls>>
        \/ Wait(t)
        \/ SignalPermit(t)
        \/ Destroy(t)

SemaphoreSpec == SemaphoreInit /\ [][SemaphoreNext]_semaphoreVars

(* As in FiberScheduler.                                                   *)
SemaphoreFairSpec ==
    /\ SemaphoreSpec
    /\ \A t \in Threads : /\ WF_semaphoreVars(SchedulerStep(t))
                          /\ WF_semaphoreVars(ReleaseSpinlock(t))
                          /\ SF_semaphoreVars(LeaveFiber(t))

-----------------------------------------------------------------------------
(* Type invariant of the semaphore: the count is never negative and never  *)
(* raised above the bound, though a count above it may be given at first.  *)
SemaphoreTypeOK ==
    /\ count \in Nat
    /\ count <= InitialCount \/ count <= Bound
    /\ waiters \in Seq(Fibers)
    /\ locked \in BOOLEAN
    /\ alive \in BOOLEAN
    /\ calls \in [Fibers -> {"none", "waiting"}]

(* No fiber waits although there is a permit, and none waits on a freed    *)
(* semaphore; destroy, which does not look at the list unless the count is *)
(* zero, relies on it.                                                     *)
WaitersNeedPermits ==
    /\ SemaphoreTypeOK
    /\ waiters # <<>> => count = 0 /\ alive

(* The semaphore uses the scheduler as FiberScheduler allows: what signal  *)
(* and destroy wake has left its stack.                                    *)
SchedulerSpec == Spec

Counting == INSTANCE CountingSemaphore
              WITH permits <- count - Len(waiters),
                   queue <- waiters

(* The semaphore implements CountingSemaphore: no permit is lost between   *)
(* the counter and the list, and none is invented, except that signals at  *)
(* the bound have no effect.                                               *)
CountingSpec == Counting!Spec

(* A fiber that was given a permit, or whose semaphore was destroyed,      *)
(* returns from fiber_semaphore_wait.                                      *)
GrantedReturns ==
    \A f \in Fibers :
        calls[f] = "waiting" /\ f \notin Range(waiters) ~> calls[f] = "none"
=============================================================================
