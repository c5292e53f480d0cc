-------------------------- MODULE ThreadSemaphore --------------------------
(***************************************************************************)
(* The semaphore for threads, fjx_thread_semaphore in src/std-thread.c: a  *)
(* counter, a mutex and a condition variable.  A work thread sleeps on its *)
(* own; FiberScheduler has it as a counter.  Here any thread may wait and  *)
(* signal.  Steps are cut as in ReadWriteLock.                             *)
(***************************************************************************)
EXTENDS Integers, FiniteSets

CONSTANTS
    Callers,
    MaxCount    \* bound on count: no signal beyond it

ASSUME SemaphoreConstants == IsFiniteSet(Callers) /\ MaxCount \in Nat

VARIABLES
    count,
    waiting \* thread -> where it stands in fjx_thread_semaphore_wait

semaphoreVars == <<count, waiting>>

(* fjx_thread_semaphore_init.                                              *)
SemaphoreInit ==
    /\ count \in 0..MaxCount
    /\ waiting = [t \in Callers |-> "none"]

Sleeping == {t \in Callers : waiting[t] = "sleep"}
Retrying == {t \in Callers : waiting[t] = "retry"}

-----------------------------------------------------------------------------
(* Faulty variants of the actions below; nothing else uses them.           *)

(* Only a signal that makes the count positive wakes somebody.             *)
SignalFirstOnly ==
    /\ count < MaxCount
    /\ count' = count + 1
    /\ \/ /\ Sleeping = {} \/ count > 0
          /\ UNCHANGED waiting
       \/ /\ count = 0
          /\ \E t \in Sleeping : waiting' = [waiting EXCEPT ![t] = "retry"]

-----------------------------------------------------------------------------
(* fjx_thread_semaphore_wait, from the start or when cnd_wait returns.     *)
Wait(t) ==
    /\ waiting[t] \in {"none", "retry"}
    /\ \/ /\ count = 0
          /\ waiting' = [waiting EXCEPT ![t] = "sleep"]
          /\ UNCHANGED count
       \/ /\ count > 0
          /\ count' = count - 1
          /\ waiting' = [waiting EXCEPT ![t] = "none"]

(* fjx_thread_semaphore_signal: cnd_signal wakes one of those who sleep.   *)
Signal ==
    /\ count < MaxCount
    /\ count' = count + 1
    /\ \/ /\ Sleeping = {}
          /\ UNCHANGED waiting
       \/ \E t \in Sleeping : waiting' = [waiting EXCEPT ![t] = "retry"]

(* cnd_wait returns without a signal.                                      *)
UnsignalledReturn(t) ==
    /\ waiting[t] = "sleep"
    /\ waiting' = [waiting EXCEPT ![t] = "retry"]
    /\ UNCHANGED count

SemaphoreNext == Signal \/ \E t \in Callers : Wait(t) \/ UnsignalledReturn(t)

SemaphoreSpec == SemaphoreInit /\ [][SemaphoreNext]_semaphoreVars

-----------------------------------------------------------------------------
(* Type invariant: the unsigned count never goes below zero.               *)
CountTypeOK ==
    /\ count \in 0..MaxCount
    /\ waiting \in [Callers -> {"none", "sleep", "retry"}]

(* No lost wake-up: while a thread sleeps, every unit of the count has a   *)
(* woken thread that comes for it.                                         *)
UnitsClaimed == Sleeping # {} => count <= Cardinality(Retrying)
=============================================================================
