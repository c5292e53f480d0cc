------------------------- MODULE CountingSemaphore -------------------------
(***************************************************************************)
(* What a semaphore for fibers promises.  "permits" is Dijkstra's counter: *)
(* when it is negative, that many fibers wait, in the order in which they  *)
(* came, and a signal lets the first of them go.  A signal that would      *)
(* raise the counter above the bound has no effect.                        *)
(***************************************************************************)
EXTENDS Integers, Sequences, Functions

CONSTANTS Fibers, InitialCount, Bound

VARIABLES permits, queue

Init == permits = InitialCount /\ queue = <<>>

Wait(f) ==
    /\ f \notin Range(queue)
    /\ permits' = permits - 1
    /\ queue' = IF permits > 0 THEN queue ELSE Append(queue, f)

Signal ==
    \/ /\ permits < 0
       /\ permits' = permits + 1
       /\ queue' = Tail(queue)
    \/ /\ permits \in 0..(Bound - 1)
       /\ permits' = permits + 1
       /\ UNCHANGED queue

(* The semaphore is destroyed and all that wait may go.                    *)
Destroy ==
    /\ queue # <<>>
    /\ permits' = 0
    /\ queue' = <<>>

Next == Signal \/ Destroy \/ \E f \in Fibers : Wait(f)

Spec == Init /\ [][Next]_<<permits, queue>>
=============================================================================
