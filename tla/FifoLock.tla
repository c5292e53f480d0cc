------------------------------ MODULE FifoLock ------------------------------
(***************************************************************************)
(* What a fiber mutex promises: the lock has one queue, whose head owns    *)
(* the lock; a fiber joins at the tail, only the owner leaves, and nobody  *)
(* overtakes.  Destroying the mutex dissolves the queue.                   *)
(***************************************************************************)
EXTENDS Sequences, Functions

CONSTANT Fibers

VARIABLES queue, alive

Init == queue = <<>> /\ alive = TRUE

(* f asks for the lock, and owns it at once if nobody else does.           *)
Request(f) ==
    /\ alive
    /\ f \notin Range(queue)
    /\ queue' = Append(queue, f)
    /\ UNCHANGED alive

(* The owner leaves, and the fiber that has waited longest owns the lock.  *)
Leave ==
    /\ alive
    /\ queue # <<>>
    /\ queue' = Tail(queue)
    /\ UNCHANGED alive

Destroy ==
    /\ alive
    /\ alive' = FALSE
    /\ queue' = <<>>

Next == Leave \/ Destroy \/ \E f \in Fibers : Request(f)

Spec == Init /\ [][Next]_<<queue, alive>>
=============================================================================
