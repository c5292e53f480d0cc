----------------------------- MODULE QueueLocks -----------------------------
(***************************************************************************)
(* The spinlocks in which threads queue: the one of src/qspinlock.c, which *)
(* takes the MCS lock of src/mcs-lock.c around the setting of a flag, and  *)
(* the one of src/mcsh-lock.c, which is an MCS lock whose queue node need  *)
(* not outlive the call that locks.  Both swap their node into the tail of *)
(* a queue and learn their predecessor; they differ in what happens next.  *)
(*                                                                         *)
(* A thread has one node, a local variable of its call: next and granted   *)
(* are next and locked of struct fjx_mcslock__, or tail and msg of struct  *)
(* fjx_mcshlock__.  Each access to memory that others use is one step.     *)
(***************************************************************************)
CONSTANTS Threads, NULL, Self      \* Self: the address of the lock itself

ASSUME LockDistinct == NULL \notin Threads /\ Self \notin Threads /\ NULL # Self

VARIABLES
    kind,       \* the lock in use: qspinlock or mcshlock
    tail,       \* last node of the queue
    word,       \* lock->locked or lock->msg; NULL when it is zero
    next,       \* node -> its successor
    granted,    \* node -> its predecessor has passed the queue on to it
    prev,       \* local: what the swap returned
    succ,       \* local: the successor, or Self
    pc,
    ahead       \* history: thread -> who had swapped before it and has not
                \* unlocked since

shared == <<kind, tail, word, next, granted>>
vars == <<shared, prev, succ, pc, ahead>>

Init ==
    /\ kind \in {"qspinlock", "mcshlock"}
    /\ tail = NULL
    /\ word = NULL
    /\ next = [t \in Threads |-> NULL]
    /\ granted = [t \in Threads |-> FALSE]
    /\ prev = [t \in Threads |-> NULL]
    /\ succ = [t \in Threads |-> NULL]
    /\ pc = [t \in Threads |-> "idle"]
    /\ ahead = [t \in Threads |-> {}]

-----------------------------------------------------------------------------
From(t, label) == pc[t] = label
GoTo(t, label) == pc' = [pc EXCEPT ![t] = label]

-----------------------------------------------------------------------------
(* Faulty variants of actions below, each with one plausible mistake.      *)

(* The head of the queue does not wait for the holder of the lock.         *)
AwaitFreeNot(t) ==
    /\ From(t, "awaitfree")
    /\ GoTo(t, "take")
    /\ UNCHANGED <<shared, prev, succ, ahead>>

(* A queue that has grown meanwhile is taken for empty.                    *)
DetachUnchecked(t) ==
    /\ From(t, "detach")
    /\ tail' = IF tail = t THEN NULL ELSE tail
    /\ succ' = [succ EXCEPT ![t] = Self]
    /\ GoTo(t, "pass")
    /\ UNCHANGED <<kind, word, next, granted, prev, ahead>>

-----------------------------------------------------------------------------
(* A fresh node is swapped into the tail.                                  *)
Swap(t) ==
    /\ From(t, "idle")
    /\ next' = [next EXCEPT ![t] = NULL]
    /\ granted' = [granted EXCEPT ![t] = FALSE]
    /\ prev' = [prev EXCEPT ![t] = tail]
    /\ tail' = t
    /\ ahead' = [ahead EXCEPT ![t] = {u \in Threads : pc[u] # "idle"}]
    /\ GoTo(t, IF tail = NULL THEN "awaitfree" ELSE "link")
    /\ UNCHANGED <<kind, word, succ>>

(* The predecessor learns its successor ...                                *)
Link(t) ==
    /\ From(t, "link")
    /\ next' = [next EXCEPT ![prev[t]] = t]
    /\ GoTo(t, "awaitgrant")
    /\ UNCHANGED <<kind, tail, word, granted, prev, succ, ahead>>

(* ... and passes the queue, or in mcshlock the lock itself, on to it.     *)
AwaitGrant(t) ==
    /\ From(t, "awaitgrant")
    /\ granted[t]
    /\ GoTo(t, IF kind = "qspinlock" THEN "awaitfree" ELSE "successor")
    /\ UNCHANGED <<shared, prev, succ, ahead>>

(* The head of the queue waits until the lock is free, ...                 *)
AwaitFree(t) ==
    /\ From(t, "awaitfree")
    /\ word = NULL
    /\ GoTo(t, "take")
    /\ UNCHANGED <<shared, prev, succ, ahead>>

(* ... takes it with a plain store ...                                     *)
Take(t) ==
    /\ From(t, "take")
    /\ word' = Self
    /\ GoTo(t, "successor")
    /\ UNCHANGED <<kind, tail, next, granted, prev, succ, ahead>>

(* ... and looks who comes next.                                           *)
ReadSuccessor(t) ==
    /\ From(t, "successor")
    /\ succ' = [succ EXCEPT ![t] = next[t]]
    /\ GoTo(t, IF next[t] = NULL THEN "detach" ELSE "pass")
    /\ UNCHANGED <<shared, prev, ahead>>

(* The compare-and-exchange that empties the queue.                        *)
Detach(t) ==
    /\ From(t, "detach")
    /\ \/ /\ tail = t
          /\ tail' = NULL
          /\ succ' = [succ EXCEPT ![t] = Self]
          /\ GoTo(t, "pass")
       \/ /\ tail # t
          /\ GoTo(t, "awaitsuccessor")
          /\ UNCHANGED <<tail, succ>>
    /\ UNCHANGED <<kind, word, next, granted, prev, ahead>>

(* Somebody has swapped and is about to link.                              *)
AwaitSuccessor(t) ==
    /\ From(t, "awaitsuccessor")
    /\ next[t] # NULL
    /\ succ' = [succ EXCEPT ![t] = next[t]]
    /\ GoTo(t, "pass")
    /\ UNCHANGED <<shared, prev, ahead>>

(* qspinlock passes the queue on; mcshlock keeps the successor in the lock *)
(* for unlock to find.  The call returns and its node is gone.             *)
Pass(t) ==
    /\ From(t, "pass")
    /\ \/ /\ kind = "qspinlock"
          /\ granted' = [u \in Threads |-> u = succ[t] \/ granted[u]]
          /\ UNCHANGED word
       \/ /\ kind = "mcshlock"
          /\ word' = succ[t]
          /\ UNCHANGED granted
    /\ GoTo(t, "critical")
    /\ UNCHANGED <<kind, tail, next, prev, succ, ahead>>

(* fjx_qspinlock_unlock clears the flag; fjx_mcshlock_unlock reads whom    *)
(* the lock names, ...                                                     *)
Unlock(t) ==
    /\ From(t, "critical")
    /\ \/ /\ kind = "qspinlock"
          /\ word' = NULL
          /\ ahead' = [u \in Threads |-> ahead[u] \ {t}]
          /\ GoTo(t, "idle")
          /\ UNCHANGED succ
       \/ /\ kind = "mcshlock"
          /\ succ' = [succ EXCEPT ![t] = word]
          /\ GoTo(t, "unlock")
          /\ UNCHANGED <<word, ahead>>
    /\ UNCHANGED <<kind, tail, next, granted, prev>>

(* ... and clears the msg of that node or of the lock.                     *)
ClearMessage(t) ==
    /\ From(t, "unlock")
    /\ word' = IF succ[t] = Self THEN NULL ELSE word
    /\ granted' = [u \in Threads |-> u = succ[t] \/ granted[u]]
    /\ ahead' = [u \in Threads |-> ahead[u] \ {t}]
    /\ GoTo(t, "idle")
    /\ UNCHANGED <<kind, tail, next, prev, succ>>

-----------------------------------------------------------------------------
(* A call that locks, and the call that unlocks.                           *)
Acquire(t) ==
    \/ Link(t)
    \/ AwaitGrant(t)
    \/ AwaitFree(t)
    \/ Take(t)
    \/ ReadSuccessor(t)
    \/ Detach(t)
    \/ AwaitSuccessor(t)
    \/ Pass(t)

Release(t) == Unlock(t) \/ ClearMessage(t)

Next == \E t \in Threads : Swap(t) \/ Acquire(t) \/ Release(t)

Spec == Init /\ [][Next]_vars

(* A thread that has called the lock goes on, and so does one that has it. *)
FairSpec ==
    /\ Spec
    /\ \A t \in Threads : WF_vars(Acquire(t)) /\ WF_vars(Release(t))

-----------------------------------------------------------------------------
PastTheWaits(t) ==
    pc[t] \in {"take", "successor", "detach", "awaitsuccessor", "pass",
               "critical", "unlock"}

(* Mutual exclusion and first come, first served at once: whoever is past  *)
(* the waits swapped before everyone else who has not unlocked.            *)
FirstInLineOnly ==
    \A t, u \in Threads :
        PastTheWaits(t) /\ pc[u] # "idle" /\ u # t =>
            t \in ahead[u] /\ u \notin ahead[t]

(* The node of a thread is a local variable of its call: whoever is about  *)
(* to write into a node finds the call still in progress, the predecessor  *)
(* not before it has looked for its successor and the successor waiting.   *)
NodesLive ==
    \A t \in Threads :
        /\ pc[t] = "link" =>
              pc[prev[t]] \in {"link", "awaitgrant", "awaitfree", "take",
                               "successor", "detach", "awaitsuccessor"}
        /\ pc[t] \in {"pass", "unlock"} /\ succ[t] # Self =>
              pc[succ[t]] = "awaitgrant" /\ ~granted[succ[t]]

(* Whoever asks for the lock gets it.                                      *)
EveryoneEnters ==
    \A t \in Threads : pc[t] \notin {"idle", "unlock"} ~> pc[t] = "critical"
=============================================================================
