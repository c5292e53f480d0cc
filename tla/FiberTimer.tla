----------------------------- MODULE FiberTimer -----------------------------
(***************************************************************************)
(* fiber_sleep and the timer thread, src/timer.c, on top of the scheduler. *)
(*                                                                         *)
(* Sleeping fibers are kept twice: in time_list, and in a splay tree that  *)
(* is searched for the place of a new time and for the first time that is  *)
(* not due.  time_tree is the tree's sequence of nodes from left to right: *)
(* splaying does not change it, and what a search from the root finds      *)
(* depends on nothing else (see Gaps).                                     *)
(*                                                                         *)
(* The mutex timer->m is only released by the timer thread where it waits  *)
(* on the condition variable, so what lies between two such points is one  *)
(* step.  A wait may return without a signal (spuriously).                 *)
(*                                                                         *)
(* Time is a struct timespec with GIGA_CONSTANT nanoseconds to the second; *)
(* the clock does not go back, and it stops at LastSecond.                 *)
(***************************************************************************)
EXTENDS FiberScheduler, Integers, SequencesExt

CONSTANTS
    GIGA_CONSTANT,  \* nanoseconds in a second
    LastSecond      \* bound on the clock

ASSUME ClockBounds == GIGA_CONSTANT \in Nat \ {0} /\ LastSecond \in Nat

VARIABLES
    now,                    \* what timespec_get returns
    time_list, time_tree,   \* the sleeping fibers
    min_time, max_time,     \* the fibers of the first and the last time
    timer_pc,               \* where the timer thread is in its loop
    until,                  \* the time its fjx_thread_cond_timedwait ends
    calls,                  \* fiber -> where it stands in fiber_sleep
    tp                      \* fiber -> the time it sleeps until

tree == <<time_list, time_tree, min_time, max_time>>
wait == <<timer_pc, until>>
timerVars == <<vars, now, tree, wait, calls, tp>>

Timespec == [tv_sec : Nat, tv_nsec : 0..(GIGA_CONSTANT - 1)]

Zero == [tv_sec |-> 0, tv_nsec |-> 0]

(* fiber_timer_init, and the timer thread at the start of its loop.        *)
TimerInit ==
    /\ Init
    /\ now = Zero
    /\ time_list = <<>>
    /\ time_tree = <<>>
    /\ min_time = NULL
    /\ max_time = NULL
    /\ timer_pc = "top"
    /\ until = Zero
    /\ calls = [f \in Fibers |-> "none"]
    /\ tp = [f \in Fibers |-> Zero]

-----------------------------------------------------------------------------
(* timespec_comp.                                                          *)
Before(p, q) ==
    \/ p.tv_sec < q.tv_sec
    \/ p.tv_sec = q.tv_sec /\ p.tv_nsec < q.tv_nsec

(* Faulty variants of operators below; see FiberScheduler.  Nanoseconds    *)
(* are not carried into the seconds.                                       *)
TimeAfterNoCarry(p, d) ==
    [tv_sec |-> p.tv_sec + d.tv_sec, tv_nsec |-> p.tv_nsec + d.tv_nsec]

(* The sum in fiber_sleep.                                                 *)
TimeAfter(p, d) ==
    LET nsec == p.tv_nsec + d.tv_nsec
    IN  [tv_sec |-> p.tv_sec + d.tv_sec + nsec \div GIGA_CONSTANT,
         tv_nsec |-> nsec % GIGA_CONSTANT]

(* Where a search for the time p ends that goes left at a node after p and *)
(* right otherwise: below no node but those on both sides of the gap.      *)
Gaps(p) ==
    {i \in 0..Len(time_tree) :
        /\ i > 0 => ~Before(p, tp[time_tree[i]])
        /\ i < Len(time_tree) => Before(p, tp[time_tree[i + 1]])}

Position(s, f) == CHOOSE i \in DOMAIN s : s[i] = f

(* A call that slept returns when its fiber executes again, and its local  *)
(* variables are gone.                                                     *)
CallsReturn ==
    LET Returns(f) == calls[f] = "sleeping" /\ Executing(f)'
    IN  /\ calls' = [f \in Fibers |-> IF Returns(f) THEN "none" ELSE calls[f]]
        /\ tp' = [f \in Fibers |-> IF Returns(f) THEN Zero ELSE tp[f]]

(* t executes a fiber that stands at the label c.                          *)
At(t, c) == pc[t] = "user" /\ calls[running[t]] = c

(* fjx_thread_cond_siganl: the timer thread, if it waits, goes on.         *)
CondSignal ==
    /\ timer_pc' = IF timer_pc = "wait" THEN "woken"
                   ELSE IF timer_pc = "timedwait" THEN "again" ELSE timer_pc
    /\ until' = Zero

-----------------------------------------------------------------------------
(* Faulty variants of the operators and actions below; see FiberScheduler. *)

(* The timer thread is not told of the first fiber.                        *)
InsertFirstSilent(f) ==
    /\ time_tree = <<>>
    /\ time_tree' = <<f>>
    /\ time_list' = <<f>> \o time_list
    /\ min_time' = f
    /\ max_time' = f
    /\ UNCHANGED wait

(* The timer thread is not told of an earlier time.                        *)
InsertMinSilent(f) ==
    /\ time_tree # <<>>
    /\ Before(tp[f], tp[min_time])
    /\ time_tree' = InsertAt(time_tree, Position(time_tree, min_time), f)
    /\ time_list' = <<f>> \o time_list
    /\ min_time' = f
    /\ UNCHANGED <<max_time, wait>>

(* A left child is put after its parent in the list.                       *)
InsertBetweenSwapped(f) ==
    /\ time_tree # <<>>
    /\ ~Before(tp[f], tp[min_time])
    /\ Before(tp[f], tp[max_time])
    /\ \E i \in Gaps(tp[f]) :
          /\ time_tree' = InsertAt(time_tree, i + 1, f)
          /\ time_list' = InsertAt(time_list,
                        Position(time_list, time_tree[i + 1]) + 1, f)
    /\ UNCHANGED <<min_time, max_time, wait>>

(* The cut is made before the fibers whose time is the present one.        *)
WakeSomeStrictly ==
    /\ Before(now, tp[max_time])
    /\ \E i \in 0..(Len(time_tree) - 1) :
          /\ i > 0 => Before(tp[time_tree[i]], now)
          /\ ~Before(tp[time_tree[i + 1]], now)
          /\ WakeList(TimerThread, SubSeq(time_list, 1, i))
          /\ time_list' = SubSeq(time_list, i + 1, Len(time_list))
          /\ time_tree' = SubSeq(time_tree, i + 1, Len(time_tree))
          /\ min_time' = time_tree[i + 1]
    /\ UNCHANGED max_time

(* The fiber is put into the timer before it has left its stack.           *)
SetTimeoutAddsFirst(t) ==
    /\ pc[t] = "user"
    /\ calls[running[t]] = "timeout"
    /\ Before(now, tp[running[t]])
    /\ calls' = [calls EXCEPT ![running[t]] = "sleeping"]
    /\ InsertFirstSilent(running[t])
    /\ GetAvailableFiber(t)
    /\ GoTo(t, "switch")
    /\ UNCHANGED <<idle_thread_list, memory, contexts, sem, deferred, th, lists,
                   parked, now, tp>>

-----------------------------------------------------------------------------
(* insert_time_node, one definition for each of its branches: the first    *)
(* node, ...                                                               *)
InsertFirst(f) ==
    /\ time_tree = <<>>
    /\ time_tree' = <<f>>
    /\ time_list' = <<f>> \o time_list
    /\ min_time' = f
    /\ max_time' = f
    /\ CondSignal

(* ... a new earliest time, ...                                            *)
InsertMin(f) ==
    /\ time_tree # <<>>
    /\ Before(tp[f], tp[min_time])
    /\ time_tree' = InsertAt(time_tree, Position(time_tree, min_time), f)
    /\ time_list' = <<f>> \o time_list
    /\ min_time' = f
    /\ CondSignal
    /\ UNCHANGED max_time

(* ... a time not before the latest, ...                                   *)
InsertMax(f) ==
    /\ time_tree # <<>>
    /\ ~Before(tp[f], tp[min_time])
    /\ ~Before(tp[f], tp[max_time])
    /\ time_tree' = InsertAt(time_tree, Position(time_tree, max_time) + 1, f)
    /\ time_list' = Append(time_list, f)
    /\ max_time' = f
    /\ UNCHANGED <<min_time, wait>>

(* ... and any other: the leaf of the search lies below the lower of the   *)
(* two nodes beside the gap, next to which the fiber is put in the list.   *)
InsertBetween(f) ==
    /\ time_tree # <<>>
    /\ ~Before(tp[f], tp[min_time])
    /\ Before(tp[f], tp[max_time])
    /\ \E i \in Gaps(tp[f]) :
          /\ time_tree' = InsertAt(time_tree, i + 1, f)
          /\ \/ /\ i < Len(time_tree)
                /\ time_list' = InsertAt(time_list,
                        Position(time_list, time_tree[i + 1]), f)
             \/ /\ i > 0
                /\ time_list' = InsertAt(time_list,
                        Position(time_list, time_tree[i]) + 1, f)
    /\ UNCHANGED <<min_time, max_time, wait>>

InsertTimeNode(f) ==
    InsertFirst(f) \/ InsertMin(f) \/ InsertMax(f) \/ InsertBetween(f)

-----------------------------------------------------------------------------
(* The timer thread finds the earliest time reached.  It takes the whole   *)
(* list if the latest is reached too, ...                                  *)
WakeAll ==
    /\ ~Before(now, tp[max_time])
    /\ WakeList(TimerThread, time_list)
    /\ time_list' = <<>>
    /\ time_tree' = <<>>
    /\ min_time' = NULL
    /\ max_time' = NULL

(* ... otherwise it cuts the list and the tree before "up", the first node *)
(* that is not due.                                                        *)
WakeSome ==
    /\ Before(now, tp[max_time])
    /\ \E i \in Gaps(now) :
          LET up == time_tree[i + 1]
              k == Position(time_list, up)
          IN  /\ WakeList(TimerThread, SubSeq(time_list, 1, k - 1))
              /\ time_list' = SubSeq(time_list, k, Len(time_list))
              /\ time_tree' = SubSeq(time_tree, i + 1, Len(time_tree))
              /\ min_time' = up
    /\ UNCHANGED max_time

(* The inner loop: read the clock and wait for the earliest time, if it is *)
(* not reached.                                                            *)
Look ==
    \/ /\ ~Before(now, tp[min_time])
       /\ WakeAll \/ WakeSome
       /\ timer_pc' = "top"
       /\ UNCHANGED until
    \/ /\ Before(now, tp[min_time])
       /\ timer_pc' = "timedwait"
       /\ until' = tp[min_time]
       /\ UNCHANGED <<vars, tree>>

(* The top of the outer loop: with nobody asleep, wait for a first fiber.  *)
TimerTop ==
    /\ timer_pc = "top"
    /\ pc[TimerThread] = "timer"
    /\ \/ /\ time_tree = <<>>
          /\ timer_pc' = "wait"
          /\ UNCHANGED <<vars, tree, until>>
       \/ /\ time_tree # <<>>
          /\ Look
    /\ UNCHANGED <<now, calls, tp>>

(* fjx_thread_cond_wait has returned; the awake_list is still empty.       *)
WaitReturned ==
    /\ timer_pc = "woken"
    /\ \/ /\ time_tree = <<>>
          /\ timer_pc' = "wait"
          /\ UNCHANGED vars
       \/ /\ time_tree # <<>>
          /\ timer_pc' = "top"
          /\ WakeList(TimerThread, <<>>)
    /\ UNCHANGED <<now, tree, until, calls, tp>>

(* fjx_thread_cond_timedwait has returned, at the time or signalled.       *)
TimedwaitReturned ==
    /\ timer_pc = "again"
    /\ Look
    /\ UNCHANGED <<now, calls, tp>>

TimeReached ==
    /\ timer_pc = "timedwait"
    /\ ~Before(now, until)
    /\ timer_pc' = "again"
    /\ until' = Zero
    /\ UNCHANGED <<vars, now, tree, calls, tp>>

SpuriousWakeup ==
    /\ timer_pc \in {"wait", "timedwait"}
    /\ CondSignal
    /\ UNCHANGED <<vars, now, tree, calls, tp>>

TimerStep == TimerTop \/ WaitReturned \/ TimedwaitReturned \/ TimeReached

-----------------------------------------------------------------------------
(* fiber_sleep: the time is computed first ...                             *)
FiberSleep(t, d) ==
    /\ At(t, "none")
    /\ TimeAfter(now, d).tv_sec <= LastSecond
    /\ calls' = [calls EXCEPT ![running[t]] = "timeout"]
    /\ tp' = [tp EXCEPT ![running[t]] = TimeAfter(now, d)]
    /\ UNCHANGED <<vars, now, tree, wait>>

(* ... and fiber_timer_set_timeout reads the clock again.  A time that was *)
(* reached is no reason to leave the thread.                               *)
SetTimeout(t) ==
    /\ At(t, "timeout")
    /\ \/ /\ ~Before(now, tp[running[t]])
          /\ calls' = [calls EXCEPT ![running[t]] = "none"]
          /\ tp' = [tp EXCEPT ![running[t]] = Zero]
          /\ UNCHANGED vars
       \/ /\ Before(now, tp[running[t]])
          /\ calls' = [calls EXCEPT ![running[t]] = "sleeping"]
          /\ Sleep(t)
          /\ UNCHANGED tp
    /\ UNCHANGED <<now, tree, wait>>

(* The deferred timer_add_fiber.                                           *)
TimerAddFiber(t) ==
    /\ pc[t] = "release"
    /\ InsertTimeNode(it[t])
    /\ Release(t)
    /\ CallsReturn
    /\ UNCHANGED now

(* The scheduler's steps that do not concern the timer, and the timer      *)
(* thread's in enqueue_fiber_list.                                         *)
SchedulerStep(a) ==
    /\ \/ a \in Threads /\ LibraryStep(a) /\ pc[a] # "release"
       \/ ListStep(a)
    /\ CallsReturn
    /\ UNCHANGED <<now, tree, wait>>

LeaveFiber(t) ==
    /\ At(t, "none")
    /\ Yield(t) \/ Exit(t)
    /\ UNCHANGED <<now, tree, wait, calls, tp>>

(* The clock.                                                              *)
Tick ==
    /\ now' = TimeAfter(now, [tv_sec |-> 0, tv_nsec |-> 1])
    /\ now'.tv_sec <= LastSecond
    /\ UNCHANGED <<vars, tree, wait, calls, tp>>

Durations == [tv_sec : 0..LastSecond, tv_nsec : 0..(GIGA_CONSTANT - 1)]

TimerNext ==
    \/ Tick
    \/ TimerStep
    \/ SpuriousWakeup
    \/ SchedulerStep(TimerThread)
    \/ \E t \in Threads :
          \/ SchedulerStep(t)
          \/ LeaveFiber(t)
          \/ At(t, "none") /\ Spawn(t)
             /\ UNCHANGED <<now, tree, wait, calls, tp>>
          \/ \E d \in Durations : FiberSleep(t, d)
          \/ SetTimeout(t)
          \/ TimerAddFiber(t)

TimerSpec == TimerInit /\ [][TimerNext]_timerVars

(* As in FiberScheduler; time goes on.                                     *)
TimerFairSpec ==
    /\ TimerSpec
    /\ WF_timerVars(Tick)
    /\ WF_timerVars(TimerStep)
    /\ \A a \in Agents : WF_timerVars(SchedulerStep(a))
    /\ \A t \in Threads : /\ WF_timerVars(SetTimeout(t))
                          /\ WF_timerVars(TimerAddFiber(t))
                          /\ SF_timerVars(LeaveFiber(t))

-----------------------------------------------------------------------------
(* A time as one number, for the properties.                               *)
Ticks(p) == p.tv_sec * GIGA_CONSTANT + p.tv_nsec

(* Type invariant of the timer: all times are normalised.                  *)
TimerTypeOK ==
    /\ now \in Timespec
    /\ time_list \in Seq(Fibers)
    /\ time_tree \in Seq(Fibers)
    /\ min_time \in Fibers \cup {NULL}
    /\ max_time \in Fibers \cup {NULL}
    /\ timer_pc \in {"top", "wait", "woken", "timedwait", "again"}
    /\ until \in Timespec
    /\ calls \in [Fibers -> {"none", "timeout", "sleeping"}]
    /\ tp \in [Fibers -> Timespec]

(* The list and the tree agree and are ordered by time, and min_time and   *)
(* max_time are their ends, through insertions at each place and cuts.     *)
TreeIsList ==
    /\ time_tree = time_list
    /\ \A i, j \in DOMAIN time_list :
          i < j => Ticks(tp[time_list[i]]) <= Ticks(tp[time_list[j]])
    /\ IF time_list = <<>>
       THEN min_time = NULL /\ max_time = NULL
       ELSE min_time = Head(time_list) /\ max_time = Last(time_list)

(* The timer thread never waits past the earliest time: whoever makes the  *)
(* time it waits for too late wakes it.                                    *)
TimerArmed ==
    /\ timer_pc = "wait" => time_list = <<>>
    /\ timer_pc = "timedwait" =>
          \A f \in Range(time_list) : Ticks(until) <= Ticks(tp[f])

(* The timer uses the scheduler as FiberScheduler allows: the fibers it    *)
(* wakes have left their stacks.                                           *)
SchedulerSpec == Spec

Alarms == INSTANCE AlarmClock
            WITH time <- Ticks(now),
                 alarm <- [f \in Fibers |-> IF f \in Range(time_list)
                                            THEN Ticks(tp[f]) ELSE -1]

(* The timer implements AlarmClock: it takes out exactly the fibers that   *)
(* are due, none early and none of them left behind by the cut.            *)
AlarmSpec == Alarms!Spec

(* Every fiber_sleep returns.                                              *)
SleepReturns ==
    \A f \in Fibers : calls[f] = "sleeping" ~> calls[f] = "none"
=============================================================================
