--------------------------- MODULE FiberLifecycle ---------------------------
(***************************************************************************)
(* What the scheduler of fjx-fiber promises its clients, without threads'  *)
(* stacks, queues and locks: every fiber is in one of four states, at most *)
(* Capacity fibers run at once, and a fiber changes its state only by      *)
(* these steps.  In particular a blocked fiber does not run before it is   *)
(* woken, and a stack is not used for a new fiber before the old one has   *)
(* left it.                                                                *)
(***************************************************************************)
EXTENDS Naturals, FiniteSets

CONSTANTS Fibers, MainFiber, Capacity

VARIABLE status

States == {"free", "runnable", "running", "blocked"}

Running == {f \in Fibers : status[f] = "running"}

Init == status = [f \in Fibers |-> IF f = MainFiber THEN "running" ELSE "free"]

(* fiber_spawn makes a fiber on an unused stack.                           *)
Create(f) ==
    /\ status[f] = "free"
    /\ status' = [status EXCEPT ![f] = "runnable"]

(* A work thread that ran its loop starts to run f.                        *)
Dispatch(f) ==
    /\ status[f] = "runnable"
    /\ Cardinality(Running) < Capacity
    /\ status' = [status EXCEPT ![f] = "running"]

(* A fiber blocks or exits and its thread goes back to its loop.           *)
Leave(f, s) ==
    /\ status[f] = "running"
    /\ status' = [status EXCEPT ![f] = s]

(* A fiber yields, blocks or exits, and its thread runs g instead.         *)
Replace(f, s, g) ==
    /\ status[f] = "running"
    /\ status[g] = "runnable"
    /\ status' = [status EXCEPT ![f] = s, ![g] = "running"]

(* Blocked fibers are taken out of a wait list.                            *)
Wake(S) ==
    /\ \A f \in S : status[f] = "blocked"
    /\ status' = [f \in Fibers |-> IF f \in S THEN "runnable" ELSE status[f]]

Next ==
    \/ \E f \in Fibers : Create(f) \/ Dispatch(f)
    \/ \E f \in Fibers, s \in {"blocked", "free"} :
          /\ s = "free" => f # MainFiber
          /\ \/ Leave(f, s)
             \/ \E g \in Fibers : Replace(f, s, g)
    \/ \E f, g \in Fibers : Replace(f, "runnable", g)
    \/ \E S \in SUBSET Fibers : Wake(S)

Spec == Init /\ [][Next]_status
=============================================================================
