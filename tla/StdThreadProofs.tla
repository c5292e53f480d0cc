-------------------------- MODULE StdThreadProofs --------------------------
(***************************************************************************)
(* Theorems about the two primitives of src/std-thread.c that the library  *)
(* builds on a mutex and a condition variable, ReadWriteLock and           *)
(* ThreadSemaphore, for any finite number of threads.                      *)
(***************************************************************************)
EXTENDS ReadWriteLock, ThreadSemaphore, FiniteSetTheorems, TLAPS

(* A step of t to a label moves t, and nobody else, into or out of the     *)
(* sets that are counted; a broadcast does not change them.                *)
LEMMA MoveSets ==
    ASSUME TypeOK, NEW t \in Threads, NEW b,
           GoTo(t, b) \/ GoToAndBroadcast(t, b)
    PROVE  /\ Readers' = IF b = "reading" THEN Readers \cup {t}
                                          ELSE Readers \ {t}
           /\ Writers' = IF b = "writing" THEN Writers \cup {t}
                                          ELSE Writers \ {t}
           /\ Writing' = IF b \in {"sleepw", "retryw"} THEN Writing \cup {t}
                                                       ELSE Writing \ {t}
<1>1. /\ pc'[t] = b
      /\ \A u \in Threads \ {t} : pc'[u] = pc[u] \/ pc'[u] = Woken(pc[u])
    BY DEF GoTo, GoToAndBroadcast, TypeOK
<1>2. \A u \in Threads \ {t} :
        /\ pc'[u] = "reading" <=> pc[u] = "reading"
        /\ pc'[u] = "writing" <=> pc[u] = "writing"
        /\ pc'[u] \in {"sleepw", "retryw"} <=> pc[u] \in {"sleepw", "retryw"}
    BY <1>1 DEF Woken, TypeOK
<1>3. QED
    BY <1>1, <1>2 DEF Readers, Writers, Writing

(* The sets are finite, and adding or taking out a thread counts.          *)
LEMMA SetsFinite ==
    /\ IsFiniteSet(Readers) /\ Cardinality(Readers) \in Nat
    /\ IsFiniteSet(Writers) /\ Cardinality(Writers) \in Nat
    /\ IsFiniteSet(Writing) /\ Cardinality(Writing) \in Nat
BY ThreadsFinite, FS_Subset, FS_CardinalityType DEF Readers, Writers, Writing

LEMMA MoveCounts ==
    ASSUME TypeOK, NEW t \in Threads, NEW b,
           GoTo(t, b) \/ GoToAndBroadcast(t, b)
    PROVE  /\ Cardinality(Readers') = Cardinality(Readers)
                + (IF b = "reading" THEN 1 ELSE 0)
                - (IF pc[t] = "reading" THEN 1 ELSE 0)
           /\ Cardinality(Writers') = Cardinality(Writers)
                + (IF b = "writing" THEN 1 ELSE 0)
                - (IF pc[t] = "writing" THEN 1 ELSE 0)
           /\ Cardinality(Writing') = Cardinality(Writing)
                + (IF b \in {"sleepw", "retryw"} THEN 1 ELSE 0)
                - (IF pc[t] \in {"sleepw", "retryw"} THEN 1 ELSE 0)
<1>1. /\ t \in Readers <=> pc[t] = "reading"
      /\ t \in Writers <=> pc[t] = "writing"
      /\ t \in Writing <=> pc[t] \in {"sleepw", "retryw"}
    BY DEF Readers, Writers, Writing
<1>2. \A S : IsFiniteSet(S) /\ Cardinality(S) \in Nat =>
        /\ Cardinality(S \cup {t}) =
             Cardinality(S) + 1 - (IF t \in S THEN 1 ELSE 0)
        /\ Cardinality(S \ {t}) =
             Cardinality(S) + 0 - (IF t \in S THEN 1 ELSE 0)
  <2> SUFFICES ASSUME NEW S, IsFiniteSet(S), Cardinality(S) \in Nat
               PROVE  /\ Cardinality(S \cup {t}) =
                           Cardinality(S) + 1 - (IF t \in S THEN 1 ELSE 0)
                      /\ Cardinality(S \ {t}) =
                           Cardinality(S) + 0 - (IF t \in S THEN 1 ELSE 0)
    OBVIOUS
  <2>1. Cardinality(S \cup {t}) =
          IF t \in S THEN Cardinality(S) ELSE Cardinality(S) + 1
    BY FS_AddElement
  <2>2. Cardinality(S \ {t}) =
          IF t \in S THEN Cardinality(S) - 1 ELSE Cardinality(S)
    BY FS_RemoveElement
  <2>3. QED
    BY <2>1, <2>2
<1>3. Cardinality(Readers') = Cardinality(Readers)
                + (IF b = "reading" THEN 1 ELSE 0)
                - (IF pc[t] = "reading" THEN 1 ELSE 0)
    BY <1>1, <1>2, MoveSets, SetsFinite
<1>4. Cardinality(Writers') = Cardinality(Writers)
                + (IF b = "writing" THEN 1 ELSE 0)
                - (IF pc[t] = "writing" THEN 1 ELSE 0)
    BY <1>1, <1>2, MoveSets, SetsFinite
<1>5. Cardinality(Writing') = Cardinality(Writing)
                + (IF b \in {"sleepw", "retryw"} THEN 1 ELSE 0)
                - (IF pc[t] \in {"sleepw", "retryw"} THEN 1 ELSE 0)
    BY <1>1, <1>2, MoveSets, SetsFinite
<1>6. QED
    BY <1>3, <1>4, <1>5

(* What the counters say about the sets.                                   *)
LEMMA CountersTell ==
    ASSUME Counted
    PROVE  /\ r_reading = 0 <=> Readers = {}
           /\ on_write = 0 <=> Writers = {}
           /\ w_waited = 0 <=> Writing = {}
BY SetsFinite, FS_EmptySet DEF Counted

-----------------------------------------------------------------------------
(* The counters are right, the writers alone and the sleepers expected:    *)
(* each needs the others, so the invariant is all of them.                 *)
LockInv == TypeOK /\ Counted /\ Exclusive /\ SleepersExpected

LEMMA InitLockInv == Init => LockInv
<1> SUFFICES ASSUME Init PROVE LockInv
    OBVIOUS
<1>1. Readers = {} /\ Writers = {} /\ Writing = {}
    BY DEF Init, Readers, Writers, Writing
<1>2. TypeOK /\ Exclusive /\ SleepersExpected
    BY <1>1 DEF Init, TypeOK, Exclusive, SleepersExpected
<1>3. Counted
    BY <1>1, FS_EmptySet DEF Init, Counted
<1>4. QED
    BY <1>2, <1>3 DEF LockInv

(* A writer enters, at once or after it slept.                             *)
LEMMA WriterEnters ==
    ASSUME LockInv, NEW t \in Threads, pc[t] \in {"none", "retryw"},
           GoTo(t, "writing"), ~(r_reading > 0 \/ on_write # 0),
           w_waited' = w_waited - (IF pc[t] = "retryw" THEN 1 ELSE 0),
           on_write' = 1, UNCHANGED r_reading
    PROVE  LockInv'
<1>0. TypeOK /\ Counted /\ Exclusive
    BY DEF LockInv
<1>1. Counted'
    BY <1>0, MoveCounts, SetsFinite DEF Counted, TypeOK
<1>2. w_waited' \in Nat
  <2>1. Cardinality(Writing') \in Nat
    BY <1>0, MoveSets, SetsFinite, FS_AddElement, FS_RemoveElement,
       FS_CardinalityType
  <2>2. QED
    BY <2>1, <1>1 DEF Counted
<1>3. TypeOK'
    BY <1>0, <1>2 DEF TypeOK, GoTo
<1>4. Readers = {} /\ Writers = {}
    BY <1>0, CountersTell DEF TypeOK
<1>5. Readers' = {} /\ Writers' = {t}
    BY <1>0, <1>4, MoveSets
<1>6. Exclusive' /\ SleepersExpected'
    BY <1>5 DEF Exclusive, SleepersExpected, Writers
<1>7. QED
    BY <1>1, <1>3, <1>6 DEF LockInv

(* A writer falls asleep, for the first time or again.                     *)
LEMMA WriterSleeps ==
    ASSUME LockInv, NEW t \in Threads, pc[t] \in {"none", "retryw"},
           GoTo(t, "sleepw"), r_reading > 0 \/ on_write # 0,
           w_waited' = w_waited + (IF pc[t] = "none" THEN 1 ELSE 0),
           UNCHANGED <<r_reading, on_write>>
    PROVE  LockInv'
<1>0. TypeOK /\ Counted /\ Exclusive /\ SleepersExpected
    BY DEF LockInv
<1>1. Counted'
    BY <1>0, MoveCounts, SetsFinite DEF Counted, TypeOK
<1>2. TypeOK'
    BY <1>0 DEF TypeOK, GoTo
<1>3. Readers' = Readers /\ Writers' = Writers
    BY <1>0, MoveSets DEF Readers, Writers
<1>4. Exclusive'
    BY <1>0, <1>3 DEF Exclusive
<1>5. Readers \cup Writers # {}
    BY <1>0, CountersTell DEF TypeOK
<1>6. \E u \in Threads : pc'[u] \in {"reading", "writing"}
    BY <1>3, <1>5 DEF Readers, Writers
<1>7. SleepersExpected'
    BY <1>3, <1>5, <1>6 DEF SleepersExpected
<1>8. QED
    BY <1>1, <1>2, <1>4, <1>7 DEF LockInv

LEMMA NextLockInv == LockInv /\ [Next]_vars => LockInv'
<1> SUFFICES ASSUME LockInv, [Next]_vars PROVE LockInv'
    OBVIOUS
<1>0. TypeOK /\ Counted /\ Exclusive /\ SleepersExpected
    BY DEF LockInv
<1>1. ASSUME NEW t \in Threads, Lockr(t) PROVE LockInv'
  <2>1. CASE w_waited > 0 \/ on_write # 0
    <3>1. /\ GoTo(t, "sleepr")
          /\ UNCHANGED <<w_waited, r_reading, on_write>>
          /\ pc[t] \in {"none", "retryr"}
        BY <1>1, <2>1, <1>0 DEF Lockr, TypeOK
    <3>2. Counted'
        BY <3>1, <1>0, MoveCounts, SetsFinite DEF Counted
    <3>3. TypeOK'
        BY <3>1, <1>0 DEF TypeOK, GoTo
    <3>4. Readers' = Readers /\ Writers' = Writers
        BY <3>1, <1>0, MoveSets DEF Readers, Writers
    <3>5. Exclusive'
        BY <3>4, <1>0 DEF Exclusive
    <3>6. \E u \in Threads : pc[u] \in {"reading", "writing", "retryw"}
        BY <2>1, <1>0, CountersTell
           DEF SleepersExpected, Readers, Writers, Writing, TypeOK
    <3>7. SleepersExpected'
        BY <3>1, <3>4, <3>6, <1>0 DEF SleepersExpected, GoTo, TypeOK
    <3>8. QED
        BY <3>2, <3>3, <3>5, <3>7 DEF LockInv
  <2>2. CASE ~(w_waited > 0 \/ on_write # 0)
    <3>1. /\ GoTo(t, "reading")
          /\ r_reading' = r_reading + 1
          /\ UNCHANGED <<w_waited, on_write>>
          /\ pc[t] \in {"none", "retryr"}
        BY <1>1, <2>2, <1>0 DEF Lockr, TypeOK
    <3>2. Counted'
        BY <3>1, <1>0, MoveCounts, SetsFinite DEF Counted, TypeOK
    <3>3. TypeOK'
        BY <3>1, <1>0 DEF TypeOK, GoTo
    <3>4. Readers' = Readers \cup {t} /\ Writers' = Writers /\ Writers = {}
        BY <2>2, <3>1, <1>0, MoveSets, CountersTell DEF Writers
    <3>5. Exclusive'
        BY <3>4, <1>0 DEF Exclusive
    <3>6. SleepersExpected'
        BY <3>1, <3>4, <1>0 DEF SleepersExpected, GoTo, TypeOK
    <3>7. QED
        BY <3>2, <3>3, <3>5, <3>6 DEF LockInv
  <2>3. QED
    BY <2>1, <2>2
<1>2. ASSUME NEW t \in Threads, Unlockr(t) PROVE LockInv'
  <2>1. /\ pc[t] = "reading"
        /\ r_reading' = r_reading - 1
        /\ GoTo(t, "none") \/ GoToAndBroadcast(t, "none")
        /\ UNCHANGED <<w_waited, on_write>>
    BY <1>2 DEF Unlockr
  <2>2. Counted'
    BY <2>1, <1>0, MoveCounts, SetsFinite DEF Counted, TypeOK
  <2>3. r_reading # 0
    BY <2>1, <1>0, CountersTell DEF Readers
  <2>4. TypeOK'
    BY <2>1, <2>3, <1>0 DEF TypeOK, GoTo, GoToAndBroadcast, Woken
  <2>5. Readers' = Readers \ {t} /\ Writers' = Writers
    BY <2>1, <1>0, MoveSets DEF Writers
  <2>6. Exclusive'
    BY <2>5, <1>0 DEF Exclusive
  <2>7. CASE r_reading = 1
    <3>1. \A u \in Threads : pc'[u] \notin {"sleepr", "sleepw"}
        BY <1>2, <2>7, <1>0 DEF Unlockr, GoToAndBroadcast, Woken, TypeOK
    <3>2. QED
        BY <3>1, <2>2, <2>4, <2>6 DEF SleepersExpected, LockInv
  <2>8. CASE r_reading # 1
    <3>1. Readers' # {}
        BY <2>1, <2>2, <2>3, <2>8, <1>0, FS_EmptySet DEF Counted, TypeOK
    <3>2. PICK u \in Threads : pc'[u] = "reading"
        BY <3>1 DEF Readers
    <3>3. SleepersExpected'
        BY <3>1, <3>2 DEF SleepersExpected
    <3>4. QED
        BY <3>3, <2>2, <2>4, <2>6 DEF LockInv
  <2>9. QED
    BY <2>7, <2>8
<1>3. ASSUME NEW t \in Threads, Lockw(t) PROVE LockInv'
  <2>1. CASE r_reading > 0 \/ on_write # 0
    <3>1. /\ pc[t] = "none" /\ GoTo(t, "sleepw")
          /\ w_waited' = w_waited + 1
          /\ UNCHANGED <<r_reading, on_write>>
        BY <1>3, <2>1, <1>0 DEF Lockw, TypeOK
    <3>2. QED
        BY <3>1, <2>1, WriterSleeps
  <2>2. CASE ~(r_reading > 0 \/ on_write # 0)
    <3>1. /\ pc[t] = "none" /\ GoTo(t, "writing")
          /\ w_waited' = w_waited - 0
          /\ on_write' = 1
          /\ UNCHANGED r_reading
        BY <1>3, <2>2, <1>0 DEF Lockw, TypeOK
    <3>2. QED
        BY <3>1, <2>2, WriterEnters
  <2>3. QED
    BY <2>1, <2>2
<1>4. ASSUME NEW t \in Threads, Retryw(t) PROVE LockInv'
  <2>1. CASE r_reading > 0 \/ on_write # 0
    <3>1. /\ pc[t] = "retryw" /\ GoTo(t, "sleepw")
          /\ w_waited' = w_waited + 0
          /\ UNCHANGED <<r_reading, on_write>>
        BY <1>4, <2>1, <1>0 DEF Retryw, TypeOK
    <3>2. QED
        BY <3>1, <2>1, WriterSleeps
  <2>2. CASE ~(r_reading > 0 \/ on_write # 0)
    <3>1. /\ pc[t] = "retryw" /\ GoTo(t, "writing")
          /\ w_waited' = w_waited - 1
          /\ on_write' = 1
          /\ UNCHANGED r_reading
        BY <1>4, <2>2, <1>0 DEF Retryw, TypeOK
    <3>2. QED
        BY <3>1, <2>2, WriterEnters
  <2>3. QED
    BY <2>1, <2>2
<1>5. ASSUME NEW t \in Threads, Unlockw(t) PROVE LockInv'
  <2>1. /\ pc[t] = "writing"
        /\ on_write' = 0
        /\ GoToAndBroadcast(t, "none")
        /\ UNCHANGED <<w_waited, r_reading>>
    BY <1>5 DEF Unlockw
  <2>2. Writers # {} /\ on_write = 1
    BY <2>1, <1>0, CountersTell DEF Writers, TypeOK
  <2>3. Counted'
    BY <2>1, <2>2, <1>0, MoveCounts, SetsFinite DEF Counted, TypeOK
  <2>4. TypeOK'
    BY <2>1, <1>0 DEF TypeOK, GoToAndBroadcast, Woken
  <2>5. Readers' = Readers /\ Readers = {}
    BY <2>1, <2>2, <1>0, MoveSets DEF Readers, Exclusive
  <2>6. Writers' = Writers \ {t}
    BY <2>1, <1>0, MoveSets
  <2>7. Exclusive'
    BY <2>5, <2>6, <1>0 DEF Exclusive
  <2>8. \A u \in Threads : pc'[u] \notin {"sleepr", "sleepw"}
    BY <2>1, <1>0 DEF GoToAndBroadcast, Woken, TypeOK
  <2>9. QED
    BY <2>3, <2>4, <2>7, <2>8 DEF SleepersExpected, LockInv
<1>6. ASSUME NEW t \in Threads, SpuriousWakeup(t) PROVE LockInv'
  <2>1. /\ \/ pc[t] = "sleepr" /\ GoTo(t, "retryr")
           \/ pc[t] = "sleepw" /\ GoTo(t, "retryw")
        /\ UNCHANGED <<w_waited, r_reading, on_write>>
    BY <1>6 DEF SpuriousWakeup, Asleep, Woken
  <2>2. Counted'
    BY <2>1, <1>0, MoveCounts, SetsFinite DEF Counted, TypeOK
  <2>3. TypeOK'
    BY <2>1, <1>0 DEF TypeOK, GoTo
  <2>4. Readers' = Readers /\ Writers' = Writers
    BY <2>1, <1>0, MoveSets DEF Readers, Writers
  <2>5. Exclusive'
    BY <2>4, <1>0 DEF Exclusive
  <2>6. SleepersExpected'
    BY <2>1, <2>4, <1>0 DEF SleepersExpected, GoTo, TypeOK
  <2>7. QED
    BY <2>2, <2>3, <2>5, <2>6 DEF LockInv
<1>7. CASE UNCHANGED vars
    BY <1>7, <1>0 DEF vars, LockInv, TypeOK, Counted, Exclusive,
                      SleepersExpected, Readers, Writers, Writing
<1>8. QED
    BY <1>1, <1>2, <1>3, <1>4, <1>5, <1>6, <1>7 DEF Next

LEMMA LockInvariant == Spec => []LockInv
<1>1. QED
    BY InitLockInv, NextLockInv, PTL DEF Spec

-----------------------------------------------------------------------------
(* A writer is alone, for any number of threads.                           *)
THEOREM WriterAlone == Spec => []Exclusive
<1>1. LockInv => Exclusive
    BY DEF LockInv
<1>2. QED
    BY <1>1, LockInvariant, PTL

(* The counters count their threads; in particular w_waited, which would   *)
(* keep the readers out for good, is not left above zero.                  *)
THEOREM CountersRight == Spec => []Counted
<1>1. LockInv => Counted
    BY DEF LockInv
<1>2. QED
    BY <1>1, LockInvariant, PTL

(* No wake-up is lost: who sleeps is waiting for somebody who does not.    *)
THEOREM NobodyForgotten == Spec => []SleepersExpected
<1>1. LockInv => SleepersExpected
    BY DEF LockInv
<1>2. QED
    BY <1>1, LockInvariant, PTL

-----------------------------------------------------------------------------
(* The invariant of the thread semaphore.                                  *)
SemaphoreInv == CountTypeOK /\ UnitsClaimed

LEMMA RetryingFinite ==
    IsFiniteSet(Retrying) /\ Cardinality(Retrying) \in Nat
BY SemaphoreConstants, FS_Subset, FS_CardinalityType DEF Retrying

LEMMA InitSemaphoreInv == SemaphoreInit => SemaphoreInv
BY SemaphoreConstants
   DEF SemaphoreInit, SemaphoreInv, CountTypeOK, UnitsClaimed, Sleeping

(* A sleeping thread that is woken joins those that come for the count.    *)
LEMMA WokenComes ==
    ASSUME CountTypeOK, NEW t \in Callers, waiting[t] = "sleep",
           waiting' = [waiting EXCEPT ![t] = "retry"]
    PROVE  Cardinality(Retrying') = Cardinality(Retrying) + 1
<1>1. Retrying' = Retrying \cup {t} /\ t \notin Retrying
    BY DEF Retrying, CountTypeOK
<1>2. QED
    BY <1>1, RetryingFinite, FS_AddElement

(* A thread in fjx_thread_semaphore_wait that was woken is no more one of  *)
(* them, and other threads change nothing.                                 *)
LEMMA WaiterGoes ==
    ASSUME CountTypeOK, NEW t \in Callers, waiting[t] \in {"none", "retry"},
           NEW b \in {"none", "sleep"}, waiting' = [waiting EXCEPT ![t] = b]
    PROVE  Cardinality(Retrying') >= Cardinality(Retrying) - 1
<1>1. Retrying' = Retrying \ {t}
    BY DEF Retrying, CountTypeOK
<1>2. Cardinality(Retrying') =
        IF t \in Retrying THEN Cardinality(Retrying) - 1
                          ELSE Cardinality(Retrying)
    BY <1>1, RetryingFinite, FS_RemoveElement
<1>3. QED
    BY <1>2, RetryingFinite

LEMMA NextSemaphoreInv ==
    SemaphoreInv /\ [SemaphoreNext]_semaphoreVars => SemaphoreInv'
<1> SUFFICES ASSUME SemaphoreInv, [SemaphoreNext]_semaphoreVars
             PROVE  SemaphoreInv'
    OBVIOUS
<1>0. CountTypeOK /\ UnitsClaimed /\ MaxCount \in Nat
    BY SemaphoreConstants DEF SemaphoreInv
<1>1. CASE Signal
  <2>1. CountTypeOK'
    BY <1>0, <1>1 DEF Signal, CountTypeOK, Sleeping
  <2>2. CASE UNCHANGED waiting
    <3>1. Sleeping = {} /\ Sleeping' = {}
        BY <1>0, <1>1, <2>2 DEF Signal, Sleeping, CountTypeOK
    <3>2. QED
        BY <2>1, <3>1 DEF UnitsClaimed, SemaphoreInv
  <2>3. ASSUME NEW t \in Sleeping, waiting' = [waiting EXCEPT ![t] = "retry"]
        PROVE  SemaphoreInv'
    <3>1. t \in Callers /\ waiting[t] = "sleep" /\ count' = count + 1
        BY <1>1 DEF Sleeping, Signal
    <3>2. count <= Cardinality(Retrying)
        BY <1>0 DEF UnitsClaimed
    <3>3. Cardinality(Retrying') = Cardinality(Retrying) + 1
        BY <1>0, <2>3, <3>1, WokenComes
    <3>4. UnitsClaimed'
        BY <1>0, <3>1, <3>2, <3>3, RetryingFinite DEF UnitsClaimed, CountTypeOK
    <3>5. QED
        BY <2>1, <3>4 DEF SemaphoreInv
  <2>4. QED
    BY <1>1, <2>2, <2>3 DEF Signal
<1>2. ASSUME NEW t \in Callers, Wait(t) PROVE SemaphoreInv'
  <2>1. CountTypeOK'
    BY <1>0, <1>2 DEF Wait, CountTypeOK
  <2>2. CASE count = 0
    <3>1. count' = 0
        BY <1>2, <2>2 DEF Wait
    <3>2. Cardinality(Retrying') \in Nat
        BY RetryingFinite, SemaphoreConstants, FS_Subset, FS_CardinalityType
           DEF Retrying
    <3>3. QED
        BY <2>1, <3>1, <3>2 DEF UnitsClaimed, SemaphoreInv
  <2>3. CASE count > 0
    <3>1. /\ waiting[t] \in {"none", "retry"}
          /\ count' = count - 1
          /\ waiting' = [waiting EXCEPT ![t] = "none"]
        BY <1>0, <1>2, <2>3 DEF Wait, CountTypeOK
    <3>2. Sleeping' = Sleeping
        BY <1>0, <3>1 DEF Sleeping, CountTypeOK
    <3>3. Cardinality(Retrying') >= Cardinality(Retrying) - 1
        BY <1>0, <3>1, WaiterGoes
    <3>4. Cardinality(Retrying') \in Nat
        BY SemaphoreConstants, FS_Subset, FS_CardinalityType DEF Retrying
    <3>5. UnitsClaimed'
        BY <1>0, <3>1, <3>2, <3>3, <3>4, RetryingFinite
           DEF UnitsClaimed, CountTypeOK
    <3>6. QED
        BY <2>1, <3>5 DEF SemaphoreInv
  <2>4. QED
    BY <1>0, <2>2, <2>3 DEF CountTypeOK
<1>3. ASSUME NEW t \in Callers, UnsignalledReturn(t) PROVE SemaphoreInv'
  <2>1. /\ waiting[t] = "sleep"
        /\ waiting' = [waiting EXCEPT ![t] = "retry"]
        /\ UNCHANGED count
    BY <1>3 DEF UnsignalledReturn
  <2>2. CountTypeOK'
    BY <1>0, <2>1 DEF CountTypeOK
  <2>3. Sleeping # {}
    BY <2>1 DEF Sleeping
  <2>4. Cardinality(Retrying') = Cardinality(Retrying) + 1
    BY <1>0, <2>1, WokenComes
  <2>5. UnitsClaimed'
    BY <1>0, <2>1, <2>3, <2>4, RetryingFinite DEF UnitsClaimed, CountTypeOK
  <2>6. QED
    BY <2>2, <2>5 DEF SemaphoreInv
<1>4. CASE UNCHANGED semaphoreVars
    BY <1>0, <1>4 DEF semaphoreVars, SemaphoreInv, CountTypeOK, UnitsClaimed,
                      Sleeping, Retrying
<1>5. QED
    BY <1>1, <1>2, <1>3, <1>4 DEF SemaphoreNext

(* No signal is lost, whichever thread is woken and whoever takes the unit *)
(* of the count before it: each unit has a woken thread coming for it as   *)
(* long as any thread sleeps.                                              *)
THEOREM NoLostSignal == SemaphoreSpec => []UnitsClaimed
<1>1. SemaphoreInv => UnitsClaimed
    BY DEF SemaphoreInv
<1>2. QED
    BY <1>1, InitSemaphoreInv, NextSemaphoreInv, PTL DEF SemaphoreSpec
=============================================================================
