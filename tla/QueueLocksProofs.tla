------------------------- MODULE QueueLocksProofs -------------------------
(***************************************************************************)
(* Theorems about QueueLocks, for any set of threads.  The queue is never  *)
(* written down as a whole in memory: a thread knows its predecessor, a    *)
(* node its successor once that has linked itself, and the lock the tail.  *)
(* The invariant says how these pieces fit the order of arrival.           *)
(***************************************************************************)
EXTENDS QueueLocks, TLAPS

Labels ==
    {"idle", "link", "awaitgrant", "awaitfree", "take", "successor",
     "detach", "awaitsuccessor", "pass", "critical", "unlock"}

TypeOK ==
    /\ kind \in {"qspinlock", "mcshlock"}
    /\ tail \in Threads \cup {NULL}
    /\ word \in Threads \cup {NULL, Self}
    /\ next \in [Threads -> Threads \cup {NULL}]
    /\ granted \in [Threads -> BOOLEAN]
    /\ prev \in [Threads -> Threads \cup {NULL}]
    /\ succ \in [Threads -> Threads \cup {NULL, Self}]
    /\ pc \in [Threads -> Labels]
    /\ ahead \in [Threads -> SUBSET Threads]
    /\ kind = "qspinlock" => \A t \in Threads : pc[t] # "unlock"

InLine(t) == pc[t] # "idle"

(* In line behind somebody who has not passed the queue on.                *)
Waits(t) == pc[t] = "link" \/ (pc[t] = "awaitgrant" /\ ~granted[t])

(* That one has.                                                           *)
Granted(t) == pc[t] = "awaitgrant" /\ granted[t]

(* Knows its successor, and whom it is.                                    *)
Leaves(t) == pc[t] \in {"pass", "critical", "unlock"}
Heir(t) ==
    IF pc[t] = "critical" THEN IF kind = "mcshlock" THEN word ELSE Self
                          ELSE succ[t]

(* Its node is in the queue no more; it may still hold the lock.           *)
Detached(t) == Leaves(t) /\ Heir(t) = Self

(* Those in line are ordered by arrival.                                   *)
Ordered ==
    \A t, u \in Threads : InLine(t) =>
        /\ u \in ahead[t] => InLine(u) /\ u # t /\ ahead[u] \subseteq ahead[t]
        /\ InLine(u) /\ u # t => (u \in ahead[t] <=> t \notin ahead[u])

(* A waiting thread came right after its predecessor, who still looks for  *)
(* a successor or has found this one.                                      *)
Follows(t, p) ==
    /\ p \in Threads /\ InLine(p) /\ p # t
    /\ ahead[t] = ahead[p] \cup {p}
    /\ pc[t] = "link" => next[p] = NULL /\ ~Leaves(p)
    /\ pc[t] = "awaitgrant" => next[p] = t /\ (Leaves(p) => Heir(p) = t)

Behind ==
    \A t \in Threads : Waits(t) => ~granted[t] /\ Follows(t, prev[t])

(* A node in the queue names a thread that waits behind it.                *)
Linked ==
    \A t \in Threads : InLine(t) /\ ~Detached(t) =>
        /\ next[t] # NULL => /\ pc[next[t]] = "awaitgrant"
                             /\ ~granted[next[t]]
                             /\ prev[next[t]] = t
        /\ Leaves(t) => next[t] # NULL /\ Heir(t) = next[t]

(* Only those who hold the lock outside the queue are before its head.     *)
HeadOfQueue ==
    \A t \in Threads :
        /\ pc[t] = "awaitfree" \/ Granted(t) =>
              \A u \in ahead[t] : Detached(u)
        /\ Granted(t) /\ kind = "mcshlock" => ahead[t] = {}
        /\ PastTheWaits(t) => ahead[t] = {}

(* The word of the lock is set while somebody has the lock.                *)
WordSet ==
    \A t \in Threads :
        /\ PastTheWaits(t) /\ pc[t] # "take" => word # NULL
        /\ Granted(t) /\ kind = "mcshlock" => word # NULL

(* The tail is the last in line, or nobody in line is in the queue.        *)
TailLast ==
    /\ tail = NULL => \A t \in Threads : InLine(t) => Detached(t)
    /\ tail # NULL =>
          /\ InLine(tail) /\ ~Leaves(tail) /\ next[tail] = NULL
          /\ \A t \in Threads : InLine(t) /\ t # tail => t \in ahead[tail]

QueueInv ==
    /\ TypeOK
    /\ Ordered
    /\ Behind
    /\ Linked
    /\ HeadOfQueue
    /\ WordSet
    /\ TailLast

LEMMA InitQueueInv == Init => QueueInv
BY LockDistinct
   DEF Init, QueueInv, TypeOK, Labels, Ordered, Behind, Linked, HeadOfQueue,
       WordSet, TailLast, InLine, Waits, Granted, Leaves, Detached,
       PastTheWaits

(* Whoever is past the waits is before everyone else in line, and alone    *)
(* there.                                                                  *)
LEMMA FirstAlone ==
    ASSUME QueueInv, NEW t \in Threads, PastTheWaits(t),
           NEW u \in Threads, InLine(u), u # t
    PROVE  t \in ahead[u] /\ u \notin ahead[t] /\ ~PastTheWaits(u)
BY DEF QueueInv, Ordered, HeadOfQueue, InLine, PastTheWaits

LEMMA SwapInv ==
    ASSUME QueueInv, NEW t \in Threads, Swap(t)
    PROVE  QueueInv'
<1> USE LockDistinct DEF QueueInv, InLine, Waits, Granted, Leaves, Heir,
        Detached, Follows, PastTheWaits, From, GoTo, shared, Swap
<1>1. TypeOK'
    BY DEF TypeOK, Labels
<1>2. Ordered'
    BY DEF TypeOK, Ordered
<1>3. Behind'
    BY DEF TypeOK, Ordered, Behind, TailLast
<1>4. Linked'
    BY DEF TypeOK, Linked
<1>5. HeadOfQueue'
    BY DEF TypeOK, HeadOfQueue, TailLast
<1>6. WordSet'
    BY DEF WordSet
<1>7. TailLast'
    BY DEF TypeOK, TailLast
<1>8. QED
    BY <1>1, <1>2, <1>3, <1>4, <1>5, <1>6, <1>7 DEF QueueInv

LEMMA LinkInv ==
    ASSUME QueueInv, NEW t \in Threads, Link(t)
    PROVE  QueueInv'
<1> USE LockDistinct DEF QueueInv, InLine, Waits, Granted, Leaves, Heir,
        Detached, Follows, PastTheWaits, From, GoTo, shared, Link
<1>1. TypeOK'
    BY DEF TypeOK, Labels
<1>2. Ordered'
    BY DEF Ordered
<1>3. Behind'
    BY DEF TypeOK, Ordered, Behind
<1>4. Linked'
    BY DEF TypeOK, Behind, Linked
<1>5. HeadOfQueue'
    BY DEF Behind, HeadOfQueue
<1>6. WordSet'
    BY DEF Behind, WordSet
<1>7. TailLast'
    BY DEF Ordered, Behind, TailLast
<1>8. QED
    BY <1>1, <1>2, <1>3, <1>4, <1>5, <1>6, <1>7 DEF QueueInv

LEMMA AwaitGrantInv ==
    ASSUME QueueInv, NEW t \in Threads, AwaitGrant(t)
    PROVE  QueueInv'
<1> USE LockDistinct DEF QueueInv, InLine, Waits, Granted, Leaves, Heir,
        Detached, Follows, PastTheWaits, From, GoTo, shared, AwaitGrant
<1>1. TypeOK'
    BY DEF TypeOK, Labels
<1>2. Ordered'
    BY DEF Ordered
<1>3. Behind'
    BY DEF Behind
<1>4. Linked'
    BY DEF Linked
<1>5. HeadOfQueue'
    BY DEF TypeOK, HeadOfQueue
<1>6. WordSet'
    BY DEF TypeOK, WordSet
<1>7. TailLast'
    BY DEF TailLast
<1>8. QED
    BY <1>1, <1>2, <1>3, <1>4, <1>5, <1>6, <1>7 DEF QueueInv

LEMMA AwaitFreeInv ==
    ASSUME QueueInv, NEW t \in Threads, AwaitFree(t)
    PROVE  QueueInv'
<1> USE LockDistinct DEF QueueInv, InLine, Waits, Granted, Leaves, Heir,
        Detached, Follows, PastTheWaits, From, GoTo, shared, AwaitFree
<1>1. TypeOK'
    BY DEF TypeOK, Labels
<1>2. Ordered'
    BY DEF Ordered
<1>3. Behind'
    BY DEF Behind
<1>4. Linked'
    BY DEF Linked
<1>5. HeadOfQueue'
    BY DEF TypeOK, HeadOfQueue, WordSet
<1>6. WordSet'
    BY DEF WordSet
<1>7. TailLast'
    BY DEF TailLast
<1>8. QED
    BY <1>1, <1>2, <1>3, <1>4, <1>5, <1>6, <1>7 DEF QueueInv

LEMMA TakeInv ==
    ASSUME QueueInv, NEW t \in Threads, Take(t)
    PROVE  QueueInv'
<1> USE LockDistinct DEF QueueInv, InLine, Waits, Granted, Leaves, Heir,
        Detached, Follows, PastTheWaits, From, GoTo, shared, Take
<1>1. TypeOK'
    BY DEF TypeOK, Labels
<1>2. Ordered'
    BY DEF Ordered
<1>3. Behind'
    BY DEF Ordered, Behind, HeadOfQueue
<1>4. Linked'
    BY DEF Linked
<1>5. HeadOfQueue'
    BY DEF HeadOfQueue
<1>6. WordSet'
    BY DEF WordSet
<1>7. TailLast'
    BY DEF TailLast
<1>8. QED
    BY <1>1, <1>2, <1>3, <1>4, <1>5, <1>6, <1>7 DEF QueueInv

LEMMA ReadSuccessorInv ==
    ASSUME QueueInv, NEW t \in Threads, ReadSuccessor(t)
    PROVE  QueueInv'
<1> USE LockDistinct DEF QueueInv, InLine, Waits, Granted, Leaves, Heir,
        Detached, Follows, PastTheWaits, From, GoTo, shared, ReadSuccessor
<1>1. TypeOK'
    BY DEF TypeOK, Labels
<1>2. Ordered'
    BY DEF Ordered
<1>3. Behind'
    BY DEF TypeOK, Behind
<1>4. Linked'
    BY DEF TypeOK, Linked
<1>5. HeadOfQueue'
    BY DEF HeadOfQueue
<1>6. WordSet'
    BY DEF WordSet
<1>7. TailLast'
    BY DEF TailLast
<1>8. QED
    BY <1>1, <1>2, <1>3, <1>4, <1>5, <1>6, <1>7 DEF QueueInv

LEMMA DetachInv ==
    ASSUME QueueInv, NEW t \in Threads, Detach(t)
    PROVE  QueueInv'
<1> USE LockDistinct DEF QueueInv, InLine, Waits, Granted, Leaves, Heir,
        Detached, Follows, PastTheWaits, From, GoTo, shared, Detach
<1>1. TypeOK'
    BY DEF TypeOK, Labels
<1>2. Ordered'
    BY DEF TypeOK, Ordered
<1>3. Behind'
    BY DEF TypeOK, Behind, HeadOfQueue, TailLast
<1>4. Linked'
    BY DEF TypeOK, Linked
<1>5. HeadOfQueue'
    BY DEF TypeOK, HeadOfQueue
<1>6. WordSet'
    BY DEF WordSet
<1>7. TailLast'
    BY DEF TypeOK, HeadOfQueue, TailLast
<1>8. QED
    BY <1>1, <1>2, <1>3, <1>4, <1>5, <1>6, <1>7 DEF QueueInv

LEMMA AwaitSuccessorInv ==
    ASSUME QueueInv, NEW t \in Threads, AwaitSuccessor(t)
    PROVE  QueueInv'
<1> USE LockDistinct DEF QueueInv, InLine, Waits, Granted, Leaves, Heir,
        Detached, Follows, PastTheWaits, From, GoTo, shared, AwaitSuccessor
<1>1. TypeOK'
    BY DEF TypeOK, Labels
<1>2. Ordered'
    BY DEF Ordered
<1>3. Behind'
    BY DEF TypeOK, Behind
<1>4. Linked'
    BY DEF TypeOK, Linked
<1>5. HeadOfQueue'
    BY DEF HeadOfQueue
<1>6. WordSet'
    BY DEF WordSet
<1>7. TailLast'
    BY DEF TailLast
<1>8. QED
    BY <1>1, <1>2, <1>3, <1>4, <1>5, <1>6, <1>7 DEF QueueInv

LEMMA PassInv ==
    ASSUME QueueInv, NEW t \in Threads, Pass(t)
    PROVE  QueueInv'
<1> USE LockDistinct DEF QueueInv, InLine, Waits, Granted, Leaves, Heir,
        Detached, Follows, PastTheWaits, From, GoTo, shared, Pass
<1>1. TypeOK'
    BY DEF TypeOK, Labels
<1>2. Ordered'
    BY DEF Ordered
<1>3. Behind'
  <2>1. ASSUME NEW u \in Threads, Waits(u)'
        PROVE  Waits(u) /\ u # t
    BY <2>1 DEF TypeOK
  <2>2. ASSUME NEW u \in Threads, Waits(u)', prev[u] # t
        PROVE  ~Leaves(prev[u])
    BY <2>1, <2>2, FirstAlone DEF TypeOK, Behind
  <2>3. CASE kind = "qspinlock"
    <3>1. granted' = [u \in Threads |-> u = succ[t] \/ granted[u]]
          /\ UNCHANGED word
        BY <2>3
    <3>2. ASSUME NEW u \in Threads, Waits(u), prev[u] = t \/ u = succ[t]
          PROVE  u = succ[t] /\ pc[u] = "awaitgrant"
        BY <3>2 DEF TypeOK, Behind, Linked
    <3>3. ASSUME NEW u \in Threads, Waits(u)'
          PROVE  prev[u] # t /\ ~granted'[u]
      <4>1. pc'[u] = pc[u] /\ granted'[u] = (u = succ[t] \/ granted[u])
        BY <2>1, <3>1, <3>3 DEF TypeOK
      <4>2. ~granted[u]
        BY <2>1, <3>3 DEF Behind
      <4>3. u # succ[t]
        BY <2>1, <3>2, <3>3, <4>1
      <4>4. QED
        BY <2>1, <3>2, <3>3, <4>1, <4>2, <4>3
    <3>4. ASSUME NEW u \in Threads, Waits(u)' PROVE Follows(u, prev[u])'
        BY <2>1, <2>2, <2>3, <3>3, <3>4 DEF TypeOK, Behind
    <3>5. QED
        BY <3>3, <3>4 DEF Behind, TypeOK
  <2>4. CASE kind = "mcshlock"
    BY <2>1, <2>2, <2>4 DEF TypeOK, Behind
  <2>5. QED
    BY <2>3, <2>4 DEF TypeOK
<1>4. Linked'
    BY DEF TypeOK, Ordered, Linked, HeadOfQueue
<1>5. HeadOfQueue'
    BY DEF TypeOK, Ordered, Behind, Linked, HeadOfQueue
<1>6. WordSet'
    BY DEF Linked, WordSet
<1>7. TailLast'
    BY DEF TailLast
<1>8. QED
    BY <1>1, <1>2, <1>3, <1>4, <1>5, <1>6, <1>7 DEF QueueInv

LEMMA UnlockInv ==
    ASSUME QueueInv, NEW t \in Threads, Unlock(t)
    PROVE  QueueInv'
<1> USE LockDistinct DEF QueueInv, InLine, Waits, Granted, Leaves, Heir,
        Detached, Follows, PastTheWaits, From, GoTo, shared, Unlock
<1>1. TypeOK'
    BY DEF TypeOK, Labels
<1>2. Ordered'
    BY DEF TypeOK, Ordered
<1>3. Behind'
  <2>1. ASSUME NEW u \in Threads, Waits(u)'
        PROVE  Waits(u) /\ u # t
    BY <2>1 DEF TypeOK
  <2>2. CASE kind = "qspinlock"
    <3>1. ASSUME NEW u \in Threads, Waits(u)' PROVE prev[u] # t
        BY <2>1, <2>2, <3>1 DEF TypeOK, Behind
    <3>2. pc' = [pc EXCEPT ![t] = "idle"]
          /\ ahead' = [u \in Threads |-> ahead[u] \ {t}]
        BY <2>2
    <3>3. QED
        BY <2>1, <2>2, <3>1, <3>2 DEF TypeOK, Behind
  <2>3. CASE kind = "mcshlock"
    <3>1. /\ pc' = [pc EXCEPT ![t] = "unlock"]
          /\ succ' = [succ EXCEPT ![t] = word]
          /\ UNCHANGED <<word, ahead>>
        BY <2>3
    <3>2. QED
        BY <2>1, <2>3, <3>1 DEF TypeOK, Behind
  <2>4. QED
    BY <2>2, <2>3 DEF TypeOK
<1>4. Linked'
    BY DEF TypeOK, Linked
<1>5. HeadOfQueue'
    BY DEF TypeOK, HeadOfQueue
<1>6. WordSet'
    BY DEF TypeOK, Ordered, HeadOfQueue, WordSet
<1>7. TailLast'
    BY DEF TypeOK, TailLast
<1>8. QED
    BY <1>1, <1>2, <1>3, <1>4, <1>5, <1>6, <1>7 DEF QueueInv

LEMMA ClearMessageInv ==
    ASSUME QueueInv, NEW t \in Threads, ClearMessage(t)
    PROVE  QueueInv'
<1> USE LockDistinct DEF QueueInv, InLine, Waits, Granted, Leaves, Heir,
        Detached, Follows, PastTheWaits, From, GoTo, shared, ClearMessage
<1>1. TypeOK'
    BY DEF TypeOK, Labels
<1>2. Ordered'
    BY DEF TypeOK, Ordered
<1>3. Behind'
  <2>1. ASSUME NEW u \in Threads, Waits(u)'
        PROVE  Waits(u) /\ u # t /\ u # succ[t]
    <3>1. pc'[u] = pc[u] /\ u # t /\ granted'[u] = (u = succ[t] \/ granted[u])
        BY <2>1 DEF TypeOK
    <3>2. u = succ[t] => pc[u] = "awaitgrant"
        BY DEF TypeOK, Linked
    <3>3. QED
        BY <2>1, <3>1, <3>2
  <2>2. ASSUME NEW u \in Threads, Waits(u)'
        PROVE  prev[u] # t /\ ~Leaves(prev[u])
    <3>1. prev[u] # t
        BY <2>1, <2>2 DEF TypeOK, Behind
    <3>2. QED
        BY <2>1, <2>2, <3>1, FirstAlone DEF TypeOK, Behind
  <2>3. ASSUME NEW u \in Threads, Waits(u)'
        PROVE  ~granted'[u] /\ Follows(u, prev[u])'
    <3>1. Follows(u, prev[u]) /\ ~granted[u]
        BY <2>1, <2>3 DEF Behind
    <3>2. /\ pc'[u] = pc[u] /\ pc'[prev[u]] = pc[prev[u]]
          /\ granted'[u] = granted[u]
          /\ ahead'[u] = ahead[u] \ {t}
          /\ ahead'[prev[u]] = ahead[prev[u]] \ {t}
        BY <2>1, <2>2, <2>3, <3>1 DEF TypeOK
    <3>3. prev[u] # t /\ ~Leaves(prev[u])
        BY <2>2, <2>3
    <3>4. ahead'[u] = ahead'[prev[u]] \cup {prev[u]}
        BY <3>1, <3>2, <3>3
    <3>5. UNCHANGED <<next, prev>>
        OBVIOUS
    <3>6. QED
        BY <3>1, <3>2, <3>3, <3>4, <3>5
  <2>4. QED
    BY <2>3 DEF TypeOK, Behind
<1>4. Linked'
    BY DEF TypeOK, Ordered, Linked, HeadOfQueue
<1>5. HeadOfQueue'
    BY DEF TypeOK, Ordered, Behind, Linked, HeadOfQueue
<1>6. WordSet'
    BY DEF TypeOK, Ordered, HeadOfQueue, WordSet
<1>7. TailLast'
    BY DEF TypeOK, Ordered, HeadOfQueue, TailLast
<1>8. QED
    BY <1>1, <1>2, <1>3, <1>4, <1>5, <1>6, <1>7 DEF QueueInv

LEMMA NextQueueInv == QueueInv /\ [Next]_vars => QueueInv'
<1> SUFFICES ASSUME QueueInv, [Next]_vars PROVE QueueInv'
    OBVIOUS
<1>1. ASSUME NEW t \in Threads, Swap(t) PROVE QueueInv'
    BY <1>1, SwapInv
<1>2. ASSUME NEW t \in Threads, Acquire(t) PROVE QueueInv'
    BY <1>2, LinkInv, AwaitGrantInv, AwaitFreeInv, TakeInv,
       ReadSuccessorInv, DetachInv, AwaitSuccessorInv, PassInv DEF Acquire
<1>3. ASSUME NEW t \in Threads, Release(t) PROVE QueueInv'
    BY <1>3, UnlockInv, ClearMessageInv DEF Release
<1>4. CASE UNCHANGED vars
    BY <1>4
       DEF vars, shared, QueueInv, TypeOK, Ordered, Behind, Follows, Linked,
           HeadOfQueue, WordSet, TailLast, InLine, Waits, Granted, Leaves,
           Heir, Detached, PastTheWaits
<1>5. QED
    BY <1>1, <1>2, <1>3, <1>4 DEF Next

-----------------------------------------------------------------------------
(* Mutual exclusion in the order of arrival: FirstInLineOnly.              *)
THEOREM ServedInOrder == Spec => []FirstInLineOnly
<1>1. QueueInv => FirstInLineOnly
    BY FirstAlone DEF FirstInLineOnly, InLine
<1>2. QED
    BY <1>1, InitQueueInv, NextQueueInv, PTL DEF Spec

(* No thread writes into a node whose call has returned: NodesLive.        *)
THEOREM NoWriteToDeadNode == Spec => []NodesLive
<1>1. ASSUME QueueInv PROVE NodesLive
  <2>1. ASSUME NEW t \in Threads, pc[t] = "link"
        PROVE  pc[prev[t]] \in {"link", "awaitgrant", "awaitfree", "take",
                                "successor", "detach", "awaitsuccessor"}
    BY <1>1, <2>1
       DEF QueueInv, TypeOK, Labels, Behind, Follows, Waits, InLine, Leaves
  <2>2. ASSUME NEW t \in Threads, pc[t] \in {"pass", "unlock"}, succ[t] # Self
        PROVE  pc[succ[t]] = "awaitgrant" /\ ~granted[succ[t]]
    BY <1>1, <2>2 DEF QueueInv, Linked, InLine, Leaves, Detached, Heir
  <2>3. QED
    BY <2>1, <2>2 DEF NodesLive
<1>2. QED
    BY <1>1, InitQueueInv, NextQueueInv, PTL DEF Spec

=============================================================================
