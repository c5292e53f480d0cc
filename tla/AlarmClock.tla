----------------------------- MODULE AlarmClock -----------------------------
(***************************************************************************)
(* What the timer promises: a fiber that has set its alarm stays asleep    *)
(* until the clock has reached it, and when the timer looks at the clock,  *)
(* it wakes all whose alarm is reached and nobody else.                    *)
(***************************************************************************)
EXTENDS Integers

CONSTANT Fibers

VARIABLES
    time,
    alarm   \* fiber -> the time it sleeps until, or -1: it is awake

Init == time = 0 /\ alarm = [f \in Fibers |-> -1]

Awake(f) == alarm[f] = -1

Due == {f \in Fibers : ~Awake(f) /\ alarm[f] <= time}

Tick == time' = time + 1 /\ UNCHANGED alarm

Sleep(f) ==
    /\ Awake(f)
    /\ alarm'[f] \in Nat
    /\ alarm' = [alarm EXCEPT ![f] = alarm'[f]]
    /\ UNCHANGED time

Ring ==
    /\ Due # {}
    /\ alarm' = [f \in Fibers |-> IF f \in Due THEN -1 ELSE alarm[f]]
    /\ UNCHANGED time

Next == Tick \/ Ring \/ \E f \in Fibers : Sleep(f)

Spec == Init /\ [][Next]_<<time, alarm>>
=============================================================================
