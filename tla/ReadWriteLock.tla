--------------------------- MODULE ReadWriteLock ---------------------------
(***************************************************************************)
(* The read-write lock for threads, fjx_rwlock in src/std-thread.c: three  *)
(* counters, a mutex and a condition variable.  The scheduler uses it for  *)
(* the tree of mapped stacks.                                              *)
(*                                                                         *)
(* The mutex is held by nobody who sleeps, so what lies between taking it  *)
(* and releasing it or sleeping is one step.  A thread that is woken, by a *)
(* broadcast or spuriously, takes the mutex again in a step of its own.    *)
(***************************************************************************)
EXTENDS Integers, FiniteSets

CONSTANT Threads

ASSUME ThreadsFinite == IsFiniteSet(Threads)

VARIABLES
    w_waited, r_reading, on_write,
    pc      \* thread -> where it stands

vars == <<w_waited, r_reading, on_write, pc>>

Init ==
    /\ w_waited = 0
    /\ r_reading = 0
    /\ on_write = 0
    /\ pc = [t \in Threads |-> "none"]

-----------------------------------------------------------------------------
GoTo(t, label) == pc' = [pc EXCEPT ![t] = label]

Asleep(t) == pc[t] \in {"sleepr", "sleepw"}

Woken(label) == IF label = "sleepr" THEN "retryr"
                ELSE IF label = "sleepw" THEN "retryw" ELSE label

(* t goes on at the label, and cnd_broadcast wakes all who sleep.          *)
GoToAndBroadcast(t, label) ==
    pc' = [u \in Threads |-> IF u = t THEN label ELSE Woken(pc[u])]

-----------------------------------------------------------------------------
(* Faulty variants of the actions below; nothing else uses them.           *)

(* A reader does not look at on_write.                                     *)
LockrOverWriter(t) ==
    /\ pc[t] \in {"none", "retryr"}
    /\ \/ /\ w_waited > 0
          /\ GoTo(t, "sleepr")
          /\ UNCHANGED r_reading
       \/ /\ w_waited <= 0
          /\ r_reading' = r_reading + 1
          /\ GoTo(t, "reading")
    /\ UNCHANGED <<w_waited, on_write>>

(* The last reader wakes nobody.                                           *)
UnlockrSilent(t) ==
    /\ pc[t] = "reading"
    /\ r_reading' = r_reading - 1
    /\ GoTo(t, "none")
    /\ UNCHANGED <<w_waited, on_write>>

(* Readers do not wait for writers that wait.                              *)
LockrUnfair(t) ==
    /\ pc[t] \in {"none", "retryr"}
    /\ \/ /\ on_write # 0
          /\ GoTo(t, "sleepr")
          /\ UNCHANGED r_reading
       \/ /\ on_write = 0
          /\ r_reading' = r_reading + 1
          /\ GoTo(t, "reading")
    /\ UNCHANGED <<w_waited, on_write>>

(* A writer that was woken counts itself again.                            *)
RetrywCountsAgain(t) ==
    /\ pc[t] = "retryw"
    /\ \/ /\ r_reading > 0 \/ on_write # 0
          /\ w_waited' = w_waited + 1
          /\ GoTo(t, "sleepw")
          /\ UNCHANGED on_write
       \/ /\ r_reading <= 0 /\ on_write = 0
          /\ w_waited' = w_waited - 1
          /\ on_write' = 1
          /\ GoTo(t, "writing")
    /\ UNCHANGED r_reading

-----------------------------------------------------------------------------
(* fjx_rwlock_lockr, from the start or when cnd_wait returns.              *)
Lockr(t) ==
    /\ pc[t] \in {"none", "retryr"}
    /\ \/ /\ w_waited > 0 \/ on_write # 0
          /\ GoTo(t, "sleepr")
          /\ UNCHANGED r_reading
       \/ /\ w_waited <= 0 /\ on_write = 0
          /\ r_reading' = r_reading + 1
          /\ GoTo(t, "reading")
    /\ UNCHANGED <<w_waited, on_write>>

(* fjx_rwlock_unlockr.                                                     *)
Unlockr(t) ==
    /\ pc[t] = "reading"
    /\ r_reading' = r_reading - 1
    /\ \/ r_reading = 1 /\ GoToAndBroadcast(t, "none")
       \/ r_reading # 1 /\ GoTo(t, "none")
    /\ UNCHANGED <<w_waited, on_write>>

(* fjx_rwlock_lockw: w_waited is raised, and lowered again if the writer   *)
(* need not sleep ...                                                      *)
Lockw(t) ==
    /\ pc[t] = "none"
    /\ \/ /\ r_reading > 0 \/ on_write # 0
          /\ w_waited' = w_waited + 1
          /\ GoTo(t, "sleepw")
          /\ UNCHANGED on_write
       \/ /\ r_reading <= 0 /\ on_write = 0
          /\ on_write' = 1
          /\ GoTo(t, "writing")
          /\ UNCHANGED w_waited
    /\ UNCHANGED r_reading

(* ... and when cnd_wait returns.                                          *)
Retryw(t) ==
    /\ pc[t] = "retryw"
    /\ \/ /\ r_reading > 0 \/ on_write # 0
          /\ GoTo(t, "sleepw")
          /\ UNCHANGED <<w_waited, on_write>>
       \/ /\ r_reading <= 0 /\ on_write = 0
          /\ w_waited' = w_waited - 1
          /\ on_write' = 1
          /\ GoTo(t, "writing")
    /\ UNCHANGED r_reading

(* fjx_rwlock_unlockw.                                                     *)
Unlockw(t) ==
    /\ pc[t] = "writing"
    /\ on_write' = 0
    /\ GoToAndBroadcast(t, "none")
    /\ UNCHANGED <<w_waited, r_reading>>

(* cnd_wait returns without a broadcast.                                   *)
SpuriousWakeup(t) ==
    /\ Asleep(t)
    /\ GoTo(t, Woken(pc[t]))
    /\ UNCHANGED <<w_waited, r_reading, on_write>>

Next ==
    \E t \in Threads :
        \/ Lockr(t)
        \/ Unlockr(t)
        \/ Lockw(t)
        \/ Retryw(t)
        \/ Unlockw(t)
        \/ SpuriousWakeup(t)

Spec == Init /\ [][Next]_vars

(* The library's readers and writers do not block before they unlock, and  *)
(* among several writers the mutex does not always favour others.          *)
FairSpec ==
    /\ Spec
    /\ \A t \in Threads : /\ WF_vars(Unlockr(t))
                          /\ WF_vars(Unlockw(t))
                          /\ WF_vars(Lockr(t) /\ pc[t] = "retryr")
                          /\ WF_vars(Retryw(t))
                          /\ SF_vars(Retryw(t) /\ pc'[t] = "writing")

-----------------------------------------------------------------------------
Readers == {t \in Threads : pc[t] = "reading"}
Writers == {t \in Threads : pc[t] = "writing"}
Writing == {t \in Threads : pc[t] \in {"sleepw", "retryw"}}

(* Type invariant: the unsigned counters never go below zero.              *)
TypeOK ==
    /\ w_waited \in Nat
    /\ r_reading \in Nat
    /\ on_write \in {0, 1}
    /\ pc \in [Threads -> {"none", "sleepr", "retryr", "reading", "sleepw",
                           "retryw", "writing"}]

(* A writer is alone: nobody searches the tree while a node is linked into *)
(* it and it is rebalanced.                                                *)
Exclusive ==
    /\ Writers # {} => Readers = {}
    /\ \A t, u \in Writers : t = u

(* Each counter counts the threads it is about, through sleeps, spurious   *)
(* wake-ups and repeated attempts.                                         *)
Counted ==
    /\ w_waited = Cardinality(Writing)
    /\ r_reading = Cardinality(Readers)
    /\ on_write = Cardinality(Writers)

(* No lost wake-up: whoever sleeps waits for somebody who is going to      *)
(* broadcast or, a reader, for a writer who does not sleep.                *)
SleepersExpected ==
    /\ \A t \in Threads : pc[t] = "sleepw" => Readers \cup Writers # {}
    /\ \A t \in Threads : pc[t] = "sleepr" =>
          \E u \in Threads : pc[u] \in {"reading", "writing", "retryw"}

(* Writers are not starved by readers that keep coming.                    *)
WriterWrites ==
    \A t \in Threads : pc[t] = "sleepw" ~> pc[t] = "writing"
=============================================================================
