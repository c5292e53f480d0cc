--------------------------- MODULE FiberScheduler ---------------------------
(***************************************************************************)
(* The M:N scheduler of fjx-fiber: src/scheduler.c, src/work-thread.c and  *)
(* src/fiber.c.                                                            *)
(*                                                                         *)
(* A context is a stack that an operating-system thread can execute: the   *)
(* stack of a fiber, or the stack on which a work thread runs              *)
(* work_thread_loop.  A struct fjx_fiber holds a saved stack pointer; each *)
(* context owns one such struct while it is switched out (a local variable *)
(* on a fiber's stack, or the thread_fiber member of a work thread), so    *)
(* structs and contexts share their names here: stack_top[c] is the        *)
(* context that the struct of c would resume.  fiber_switch swaps the      *)
(* running stack with the struct it is given.                              *)
(*                                                                         *)
(* Each thread executes one label at a time (pc).  A section between       *)
(* fjx_spinlock_lock and fjx_spinlock_unlock of one function is one step:  *)
(* queue_lock and disposed_fiber_lock are never held across a switch.      *)
(* What a thread does after such a section, with the pointers it took out  *)
(* of it, is a step of its own.                                            *)
(*                                                                         *)
(* The fibers that sleep in the wait list of a mutex, a semaphore, a       *)
(* channel or the timer are the set "parked"; the modules of those         *)
(* components add their own state to the actions Park, Sleep, WakeOne,     *)
(* WakeList and Handoff, through which all of them use the scheduler.      *)
(***************************************************************************)
EXTENDS Naturals, Sequences, FiniteSets, Functions

CONSTANTS
    MainThread,     \* the thread that calls fiber_scheduler_init (main_th)
    Workers,        \* the threads that work_thread_spawn starts
    TimerThread,    \* the thread that start_timer_thread starts
    MainFiber,      \* the stack of main(), which is in no fiber_memory
    Blocks,         \* the fiber_memory blocks that may be mapped; a bound
    NULL            \* no pointer

Threads == Workers \cup {MainThread}
Agents == Threads \cup {TimerThread}
Fibers == Blocks \cup {MainFiber}
Contexts == Fibers \cup Threads

ASSUME ConstantsDistinct ==
    /\ MainThread \notin Workers
    /\ TimerThread \notin Threads
    /\ MainFiber \notin Blocks
    /\ Fibers \cap Agents = {}
    /\ NULL \notin Fibers \cup Agents

\* fiber_scheduler_init_impl starts its threads one by one.
ASSUME WorkersFinite == IsFiniteSet(Workers)

VARIABLES
    fiber_list,           \* run queue, guarded by queue_lock
    idle_thread_list,     \* threads that went to sleep, same lock
    disposed_fiber_list,  \* structs of exited fibers
    fiber_pool,           \* the blocks in the AVL tree of mapped stacks
    stack_top,            \* struct -> the context it would resume
    running,              \* thread -> the context it executes
    sem,                  \* thread -> the count of its semaphore s
    pc,                   \* agent -> what it executes next
    it,                   \* agent -> the struct it took, if any
    deferred,             \* thread -> the call fiber_add_deferred pushed
    th,                   \* agent -> the idle thread enqueue_fiber took
    flist, tlist,         \* agent -> the local lists of enqueue_fiber_list
    parked                \* fibers asleep in some wait list

queues == <<fiber_list, idle_thread_list>>
memory == <<disposed_fiber_list, fiber_pool>>
contexts == <<stack_top, running>>
lists == <<flist, tlist>>
vars == <<queues, memory, contexts, sem, pc, it, deferred, th, lists, parked>>

-----------------------------------------------------------------------------
Deferrals == {"none", "enqueue", "recycle", "release"}

Labels == {"user", "loop", "wait", "switch", "enqueue", "handover", "signal",
           "recycle", "release", "list", "deal", "dealsignal", "timer"}

(* After fiber_scheduler_init: main() goes on on its own stack, the        *)
(* main_th.thread_fiber struct holds a fresh stack that will run the loop, *)
(* and the spawned threads enter their loops.                              *)
Init ==
    /\ fiber_list = <<>>
    /\ idle_thread_list = <<>>
    /\ disposed_fiber_list = <<>>
    /\ fiber_pool = {}
    /\ stack_top = [c \in Contexts |-> IF c = MainThread THEN c ELSE NULL]
    /\ running = [t \in Threads |-> IF t = MainThread THEN MainFiber ELSE t]
    /\ sem = [t \in Threads |-> 0]
    /\ pc = [a \in Agents |-> IF a = MainThread THEN "user"
                              ELSE IF a = TimerThread THEN "timer" ELSE "loop"]
    /\ it = [a \in Agents |-> NULL]
    /\ deferred = [t \in Threads |-> "none"]
    /\ th = [a \in Agents |-> NULL]
    /\ flist = [a \in Agents |-> <<>>]
    /\ tlist = [a \in Agents |-> <<>>]
    /\ parked = {}

-----------------------------------------------------------------------------
(* Where a context goes on when it is resumed or a library call returns.   *)
Resume(c) == IF c \in Fibers THEN "user" ELSE "loop"

(* A thread executes the code of f outside the library.                    *)
Executing(f) == \E t \in Threads : running[t] = f /\ pc[t] = "user"

ReturnLabel(a) == IF a = TimerThread THEN "timer" ELSE Resume(running[a])

GoTo(a, label) == pc' = [pc EXCEPT ![a] = label]

Return(a) == GoTo(a, ReturnLabel(a))

PopFiber(a) ==
    /\ it' = [it EXCEPT ![a] = Head(fiber_list)]
    /\ fiber_list' = Tail(fiber_list)

(* get_available_fiber: the head of the run queue or, when it is empty,    *)
(* the loop of the thread, whose struct is its thread_fiber.               *)
GetAvailableFiber(t) ==
    \/ /\ fiber_list = <<>>
       /\ it' = [it EXCEPT ![t] = t]
       /\ UNCHANGED fiber_list
    \/ /\ fiber_list # <<>>
       /\ PopFiber(t)

(* fiber_add_deferred and fiber_switch on the struct of the running        *)
(* context, into which the stack pointer of it[t] is loaded first: the     *)
(* struct ends up with the stack that stops running, and the deferred      *)
(* call, given that struct, is the first thing the other stack executes.   *)
(* A fiber's struct is gone once the fiber runs: it was a local variable.  *)
FiberSwitch(t) ==
    LET out == running[t]
        in == stack_top[it[t]]
    IN  /\ pc[t] = "switch"
        /\ running' = [running EXCEPT ![t] = in]
        /\ stack_top' = [c \in Contexts |->
                            IF c = out THEN out
                            ELSE IF c = in /\ c \in Fibers THEN NULL
                            ELSE stack_top[c]]
        /\ deferred' = [deferred EXCEPT ![t] = "none"]
        /\ \/ /\ deferred[t] = "none"
              /\ it' = [it EXCEPT ![t] = NULL]
              /\ GoTo(t, Resume(in))
           \/ /\ deferred[t] # "none"
              /\ it' = [it EXCEPT ![t] = out]
              /\ GoTo(t, deferred[t])
        /\ UNCHANGED <<queues, memory, sem, th, lists, parked>>

-----------------------------------------------------------------------------
(* Faulty variants of actions below, each with one plausible mistake.  No  *)
(* specification uses them: they show that the checks notice the mistake.  *)

(* The semaphore is decremented without waiting for a signal.              *)
SemaphoreWaitNoBlock(t) ==
    /\ pc[t] = "wait"
    /\ sem' = [sem EXCEPT ![t] = @ - 1]
    /\ it' = [it EXCEPT ![t] = t]
    /\ GoTo(t, "switch")
    /\ UNCHANGED <<queues, memory, contexts, deferred, th, lists, parked>>

(* The handed-over thread is never signalled.                              *)
SignalLost(a) ==
    /\ pc[a] = "signal"
    /\ th' = [th EXCEPT ![a] = NULL]
    /\ Return(a)
    /\ UNCHANGED <<queues, memory, contexts, sem, it, deferred, lists, parked>>

(* The idle list is copied but not emptied.                                *)
ListEnqueueKeepsIdle(a) ==
    /\ pc[a] = "list"
    /\ flist[a] # <<>>
    /\ idle_thread_list # <<>>
    /\ tlist' = [tlist EXCEPT ![a] = idle_thread_list]
    /\ GoTo(a, "deal")
    /\ UNCHANGED <<queues, memory, contexts, sem, it, deferred, th, flist,
                   parked>>

(* The threads go back to the idle list without a look at the run queue.   *)
ReturnIdleThreadsUnchecked(a) ==
    /\ pc[a] = "deal"
    /\ flist[a] = <<>>
    /\ tlist[a] # <<>>
    /\ idle_thread_list' = tlist[a] \o idle_thread_list
    /\ tlist' = [tlist EXCEPT ![a] = <<>>]
    /\ Return(a)
    /\ UNCHANGED <<fiber_list, memory, contexts, sem, it, deferred, th, flist,
                   parked>>

(* The struct is put on the disposed list before the switch, while it      *)
(* holds the stack pointer of the next fiber.                              *)
ExitRecyclesFirst(t) ==
    /\ pc[t] = "user"
    /\ running[t] # MainFiber
    /\ GetAvailableFiber(t)
    /\ stack_top' = [stack_top EXCEPT ![running[t]] = stack_top[it'[t]]]
    /\ disposed_fiber_list' = Append(disposed_fiber_list, running[t])
    /\ GoTo(t, "switch")
    /\ UNCHANGED <<idle_thread_list, fiber_pool, running, sem, deferred, th,
                   lists, parked>>

(* The wait list's lock is released before the switch.                     *)
ParkUnlocksFirst(t) ==
    /\ pc[t] = "user"
    /\ it' = [it EXCEPT ![t] = t]
    /\ parked' = parked \cup {running[t]}
    /\ GoTo(t, "switch")
    /\ UNCHANGED <<queues, memory, contexts, sem, deferred, th, lists>>

(* The partner is not unlinked from the wait list.                         *)
HandoffKeepsListed(t, f) ==
    /\ pc[t] = "user"
    /\ it' = [it EXCEPT ![t] = f]
    /\ deferred' = [deferred EXCEPT ![t] = "enqueue"]
    /\ GoTo(t, "switch")
    /\ UNCHANGED <<queues, memory, contexts, sem, th, lists, parked>>

-----------------------------------------------------------------------------
(* work_thread_loop, under queue_lock: sleep when there is nothing to run, *)
(* otherwise take the first fiber.                                         *)
WorkThreadLoop(t) ==
    /\ pc[t] = "loop"
    /\ \/ /\ fiber_list = <<>>
          /\ idle_thread_list' = Append(idle_thread_list, t)
          /\ GoTo(t, "wait")
          /\ UNCHANGED <<fiber_list, it>>
       \/ /\ fiber_list # <<>>
          /\ PopFiber(t)
          /\ GoTo(t, "switch")
          /\ UNCHANGED idle_thread_list
    /\ UNCHANGED <<memory, contexts, sem, deferred, th, lists, parked>>

(* fjx_thread_semaphore_wait, then the switch to what was put into the     *)
(* thread's own struct.                                                    *)
SemaphoreWait(t) ==
    /\ pc[t] = "wait"
    /\ sem[t] > 0
    /\ sem' = [sem EXCEPT ![t] = @ - 1]
    /\ it' = [it EXCEPT ![t] = t]
    /\ GoTo(t, "switch")
    /\ UNCHANGED <<queues, memory, contexts, deferred, th, lists, parked>>

(* enqueue_fiber, under queue_lock: take an idle thread or queue the       *)
(* fiber.                                                                  *)
EnqueueFiber(a) ==
    /\ pc[a] = "enqueue"
    /\ \/ /\ idle_thread_list # <<>>
          /\ th' = [th EXCEPT ![a] = Head(idle_thread_list)]
          /\ idle_thread_list' = Tail(idle_thread_list)
          /\ GoTo(a, "handover")
          /\ UNCHANGED <<fiber_list, it>>
       \/ /\ idle_thread_list = <<>>
          /\ fiber_list' = Append(fiber_list, it[a])
          /\ it' = [it EXCEPT ![a] = NULL]
          /\ Return(a)
          /\ UNCHANGED <<idle_thread_list, th>>
    /\ UNCHANGED <<memory, contexts, sem, deferred, lists, parked>>

(* th->thread_fiber.stack_top = f->stack_top, after the unlock.            *)
Handover(a) ==
    /\ pc[a] = "handover"
    /\ stack_top' = [stack_top EXCEPT ![th[a]] = stack_top[it[a]]]
    /\ it' = [it EXCEPT ![a] = NULL]
    /\ GoTo(a, "signal")
    /\ UNCHANGED <<queues, memory, running, sem, deferred, th, lists, parked>>

(* fjx_thread_semaphore_signal on the thread that was idle.                *)
Signal(a) ==
    /\ pc[a] = "signal"
    /\ sem' = [sem EXCEPT ![th[a]] = @ + 1]
    /\ th' = [th EXCEPT ![a] = NULL]
    /\ Return(a)
    /\ UNCHANGED <<queues, memory, contexts, it, deferred, lists, parked>>

-----------------------------------------------------------------------------
(* enqueue_fiber_list.  The test of the outer while loop and its critical  *)
(* section: append all the fibers to the run queue if no thread is idle,   *)
(* otherwise take every idle thread.                                       *)
ListEnqueue(a) ==
    /\ pc[a] = "list"
    /\ \/ /\ flist[a] = <<>>
          /\ Return(a)
          /\ UNCHANGED <<queues, lists>>
       \/ /\ flist[a] # <<>>
          /\ idle_thread_list = <<>>
          /\ fiber_list' = fiber_list \o flist[a]
          /\ flist' = [flist EXCEPT ![a] = <<>>]
          /\ Return(a)
          /\ UNCHANGED <<idle_thread_list, tlist>>
       \/ /\ flist[a] # <<>>
          /\ idle_thread_list # <<>>
          /\ tlist' = [tlist EXCEPT ![a] = idle_thread_list]
          /\ idle_thread_list' = <<>>
          /\ GoTo(a, "deal")
          /\ UNCHANGED <<fiber_list, flist>>
    /\ UNCHANGED <<memory, contexts, sem, it, deferred, th, parked>>

(* The inner loop: the first fiber goes into the first thread's struct ... *)
Deal(a) ==
    /\ pc[a] = "deal"
    /\ flist[a] # <<>>
    /\ tlist[a] # <<>>
    /\ stack_top' = [stack_top EXCEPT
                        ![Head(tlist[a])] = stack_top[Head(flist[a])]]
    /\ flist' = [flist EXCEPT ![a] = Tail(@)]
    /\ th' = [th EXCEPT ![a] = Head(tlist[a])]
    /\ tlist' = [tlist EXCEPT ![a] = Tail(@)]
    /\ GoTo(a, "dealsignal")
    /\ UNCHANGED <<queues, memory, running, sem, it, deferred, parked>>

(* ... and the thread is signalled.                                        *)
DealSignal(a) ==
    /\ pc[a] = "dealsignal"
    /\ sem' = [sem EXCEPT ![th[a]] = @ + 1]
    /\ th' = [th EXCEPT ![a] = NULL]
    /\ GoTo(a, "deal")
    /\ UNCHANGED <<queues, memory, contexts, it, deferred, lists, parked>>

(* Fibers are left but no thread: back to the outer loop.                  *)
DealOutOfThreads(a) ==
    /\ pc[a] = "deal"
    /\ flist[a] # <<>>
    /\ tlist[a] = <<>>
    /\ GoTo(a, "list")
    /\ UNCHANGED <<queues, memory, contexts, sem, it, deferred, th, lists,
                   parked>>

(* No fiber and no thread is left.                                         *)
DealDone(a) ==
    /\ pc[a] = "deal"
    /\ flist[a] = <<>>
    /\ tlist[a] = <<>>
    /\ Return(a)
    /\ UNCHANGED <<queues, memory, contexts, sem, it, deferred, th, lists,
                   parked>>

(* No fiber is left but threads are.  Under queue_lock: they go back to    *)
(* the idle list if the run queue is still empty ...                       *)
ReturnIdleThreads(a) ==
    /\ pc[a] = "deal"
    /\ flist[a] = <<>>
    /\ tlist[a] # <<>>
    /\ fiber_list = <<>>
    /\ idle_thread_list' = tlist[a] \o idle_thread_list
    /\ tlist' = [tlist EXCEPT ![a] = <<>>]
    /\ Return(a)
    /\ UNCHANGED <<fiber_list, memory, contexts, sem, it, deferred, th, flist,
                   parked>>

(* ... otherwise the fibers queued in the meantime are dealt out to them.  *)
TakeRunQueue(a) ==
    /\ pc[a] = "deal"
    /\ flist[a] = <<>>
    /\ tlist[a] # <<>>
    /\ fiber_list # <<>>
    /\ flist' = [flist EXCEPT ![a] = fiber_list]
    /\ fiber_list' = <<>>
    /\ UNCHANGED <<idle_thread_list, memory, contexts, sem, pc, it, deferred,
                   th, tlist, parked>>

-----------------------------------------------------------------------------
(* The deferred calls, executed on the stack that was switched to.         *)

(* recycle_fiber_pair: the exited fiber's struct, which lies on its own    *)
(* dead stack, goes to the tail of the disposed list.                      *)
RecycleFiber(t) ==
    /\ pc[t] = "recycle"
    /\ disposed_fiber_list' = Append(disposed_fiber_list, it[t])
    /\ it' = [it EXCEPT ![t] = NULL]
    /\ Return(t)
    /\ UNCHANGED <<queues, fiber_pool, contexts, sem, deferred, th, lists,
                   parked>>

(* fjx_spinlock_unlock on the lock of the wait list, or timer_add_fiber:   *)
(* from here on the fiber can be found by those that wake it.              *)
Release(t) ==
    /\ pc[t] = "release"
    /\ parked' = parked \cup {it[t]}
    /\ it' = [it EXCEPT ![t] = NULL]
    /\ Return(t)
    /\ UNCHANGED <<queues, memory, contexts, sem, deferred, th, lists>>

-----------------------------------------------------------------------------
(* What a fiber can ask of the library.                                    *)

(* get_available_memory, fiber_spawn_stack_top and the struct of the new   *)
(* fiber; enqueue_fiber follows.  The block of a disposed fiber is the one *)
(* that query_memory finds around its saved stack pointer.                 *)
Spawn(t) ==
    /\ pc[t] = "user"
    /\ \E b \in Blocks :
          /\ \/ /\ disposed_fiber_list = <<>>
                /\ b \notin fiber_pool
                /\ fiber_pool' = fiber_pool \cup {b}
                /\ UNCHANGED disposed_fiber_list
             \/ /\ disposed_fiber_list # <<>>
                /\ b = stack_top[Head(disposed_fiber_list)]
                /\ b \in fiber_pool
                /\ disposed_fiber_list' = Tail(disposed_fiber_list)
                /\ UNCHANGED fiber_pool
          /\ stack_top' = [stack_top EXCEPT ![b] = b]
          /\ it' = [it EXCEPT ![t] = b]
    /\ GoTo(t, "enqueue")
    /\ UNCHANGED <<queues, running, sem, deferred, th, lists, parked>>

(* fiber_yield.  With an empty run queue it only calls fjx_thread_yield.   *)
Yield(t) ==
    /\ pc[t] = "user"
    /\ fiber_list # <<>>
    /\ PopFiber(t)
    /\ deferred' = [deferred EXCEPT ![t] = "enqueue"]
    /\ GoTo(t, "switch")
    /\ UNCHANGED <<idle_thread_list, memory, contexts, sem, th, lists, parked>>

(* fiber_exit, called when the entry function of a spawned fiber returns.  *)
Exit(t) ==
    /\ pc[t] = "user"
    /\ running[t] # MainFiber
    /\ GetAvailableFiber(t)
    /\ deferred' = [deferred EXCEPT ![t] = "recycle"]
    /\ GoTo(t, "switch")
    /\ UNCHANGED <<idle_thread_list, memory, contexts, sem, th, lists, parked>>

(* A fiber puts itself into the wait list of a mutex, a semaphore or a     *)
(* channel, whose spinlock it leaves to the thread's loop to unlock.       *)
Park(t) ==
    /\ pc[t] = "user"
    /\ it' = [it EXCEPT ![t] = t]
    /\ deferred' = [deferred EXCEPT ![t] = "release"]
    /\ GoTo(t, "switch")
    /\ UNCHANGED <<queues, memory, contexts, sem, th, lists, parked>>

(* fiber_timer_set_timeout: as Park, but it leaves for the next runnable   *)
(* fiber, and the deferred call is timer_add_fiber.                        *)
Sleep(t) ==
    /\ pc[t] = "user"
    /\ GetAvailableFiber(t)
    /\ deferred' = [deferred EXCEPT ![t] = "release"]
    /\ GoTo(t, "switch")
    /\ UNCHANGED <<idle_thread_list, memory, contexts, sem, th, lists, parked>>

(* A fiber takes f out of a wait list and calls enqueue_fiber on it.       *)
WakeOne(t, f) ==
    /\ pc[t] = "user"
    /\ parked' = parked \ {f}
    /\ it' = [it EXCEPT ![t] = f]
    /\ GoTo(t, "enqueue")
    /\ UNCHANGED <<queues, memory, contexts, sem, deferred, th, lists>>

(* A fiber, or the timer thread, takes the fibers l out of a wait list and *)
(* calls enqueue_fiber_list on them.                                       *)
WakeList(a, l) ==
    /\ pc[a] \in {"user", "timer"}
    /\ parked' = parked \ Range(l)
    /\ flist' = [flist EXCEPT ![a] = l]
    /\ GoTo(a, "list")
    /\ UNCHANGED <<queues, memory, contexts, sem, it, deferred, th, tlist>>

(* A channel operation meets a waiting partner f: it switches to f at      *)
(* once and leaves itself in the run queue.                                *)
Handoff(t, f) ==
    /\ pc[t] = "user"
    /\ parked' = parked \ {f}
    /\ it' = [it EXCEPT ![t] = f]
    /\ deferred' = [deferred EXCEPT ![t] = "enqueue"]
    /\ GoTo(t, "switch")
    /\ UNCHANGED <<queues, memory, contexts, sem, th, lists>>

-----------------------------------------------------------------------------
ListStep(a) ==
    \/ ListEnqueue(a)
    \/ Deal(a)
    \/ DealSignal(a)
    \/ DealOutOfThreads(a)
    \/ DealDone(a)
    \/ ReturnIdleThreads(a)
    \/ TakeRunQueue(a)

(* The steps of the library's own code on a work thread.                   *)
LibraryStep(t) ==
    \/ WorkThreadLoop(t)
    \/ SemaphoreWait(t)
    \/ FiberSwitch(t)
    \/ EnqueueFiber(t)
    \/ Handover(t)
    \/ Signal(t)
    \/ RecycleFiber(t)
    \/ Release(t)

(* What close, destroy or the timer may take out of a wait list.           *)
WakeOrders ==
    {l \in UNION {[1..n -> parked] : n \in 0..Cardinality(parked)} :
        IsInjective(l)}

ClientStep(t) ==
    \/ Spawn(t)
    \/ Yield(t)
    \/ Exit(t)
    \/ Park(t)
    \/ Sleep(t)
    \/ \E f \in parked : WakeOne(t, f) \/ Handoff(t, f)

Next ==
    \/ \E t \in Threads : LibraryStep(t) \/ ClientStep(t)
    \/ \E a \in Agents : ListStep(a) \/ \E l \in WakeOrders : WakeList(a, l)

Spec == Init /\ [][Next]_vars

(* The operating system runs every thread, so a thread inside the library  *)
(* proceeds.  Fibers are scheduled cooperatively: that a fiber which keeps *)
(* executing reaches, again and again, a call that may take it off its     *)
(* thread is the clients' obligation, not the library's.                   *)
GiveUpThread(t) == Yield(t) \/ Exit(t) \/ Park(t) \/ Sleep(t)

Fairness ==
    /\ \A t \in Threads : WF_vars(LibraryStep(t)) /\ SF_vars(GiveUpThread(t))
    /\ \A a \in Agents : WF_vars(ListStep(a))

FairSpec == Spec /\ Fairness

-----------------------------------------------------------------------------
(* Type invariant of the variables above; NULL stands for a stack pointer  *)
(* that was never written, or that lies on a stack which moved on since.   *)
TypeOK ==
    /\ fiber_list \in Seq(Fibers)
    /\ idle_thread_list \in Seq(Threads)
    /\ disposed_fiber_list \in Seq(Fibers)
    /\ fiber_pool \subseteq Blocks
    /\ stack_top \in [Contexts -> Contexts \cup {NULL}]
    /\ running \in [Threads -> Contexts \cup {NULL}]
    /\ sem \in [Threads -> Nat]
    /\ pc \in [Agents -> Labels]
    /\ it \in [Agents -> Contexts \cup {NULL}]
    /\ deferred \in [Threads -> Deferrals]
    /\ th \in [Agents -> Threads \cup {NULL}]
    /\ flist \in [Agents -> Seq(Fibers)]
    /\ tlist \in [Agents -> Seq(Threads)]
    /\ parked \subseteq Fibers

(* No lost wakeup: while a thread is listed as idle, no fiber waits in the *)
(* run queue.  work_thread_loop, enqueue_fiber and both critical sections  *)
(* of enqueue_fiber_list must each keep it.                                *)
WorkConserving == idle_thread_list # <<>> => fiber_list = <<>>

(* The places from which a fiber can be resumed, reused or is executed,    *)
(* each with the agent whose it is.                                        *)
FiberPlaces(f) ==
    {<<"queue", NULL>> : g \in Range(fiber_list) \cap {f}}
    \cup {<<"disposed", NULL>> : g \in Range(disposed_fiber_list) \cap {f}}
    \cup {<<"parked", NULL>> : g \in parked \cap {f}}
    \cup {<<"running", t>> : t \in {u \in Threads : running[u] = f}}
    \cup {<<"cell", t>> : t \in {u \in Threads : stack_top[u] = f}}
    \cup {<<"it", a>> : a \in {b \in Agents : it[b] = f}}
    \cup {<<"list", a>> : a \in {b \in Agents : f \in Range(flist[b])}}

(* No list holds a fiber twice.                                            *)
ListedOnce ==
    /\ IsInjective(fiber_list)
    /\ IsInjective(disposed_fiber_list)
    /\ \A a \in Agents : IsInjective(flist[a])

(* Every fiber that exists is in exactly one place: on one thread, or in   *)
(* one queue, wait list, disposed list, idle thread's struct or local      *)
(* variable.  Two places would run one stack on two threads or reuse a     *)
(* stack in use; no place would lose the fiber.                            *)
OneOwner ==
    /\ ListedOnce
    /\ \A f \in Fibers :
          /\ f \in fiber_pool \cup {MainFiber} =>
                \E p \in FiberPlaces(f) : FiberPlaces(f) = {p}
          /\ f \notin fiber_pool \cup {MainFiber} => FiberPlaces(f) = {}

(* Where other threads can find a fiber that is switched out.              *)
Published ==
    Range(fiber_list) \cup Range(disposed_fiber_list) \cup parked
    \cup UNION {Range(flist[a]) : a \in Agents}

(* Save before publish: wherever a switched-out fiber can be found by      *)
(* another thread, its struct already holds its own saved stack; and while *)
(* a thread executes a fiber its thread_fiber struct holds its loop, which *)
(* is where the fiber goes when it blocks.                                 *)
SavedBeforePublished ==
    /\ \A f \in Published : stack_top[f] = f
    /\ \A t \in Threads : running[t] \in Fibers => stack_top[t] = t

(* Who knows of a sleeping thread: the idle list, a dealer that took it    *)
(* out of it, or the thread's semaphore, by a signal.                      *)
ThreadPlaces(t) ==
    {<<"idle", NULL>> : u \in Range(idle_thread_list) \cap {t}}
    \cup {<<"th", a>> : a \in {b \in Agents : th[b] = t}}
    \cup {<<"tlist", a>> : a \in {b \in Agents : t \in Range(tlist[b])}}
    \cup {<<"signal", i>> : i \in 1..sem[t]}

(* A sleeping worker is in the idle list, in the local list or about to be *)
(* signalled by one dealer, or has been signalled: once, and then with a   *)
(* fiber in its struct.  None is forgotten and none is woken for nothing.  *)
SleeperAccounted ==
    /\ IsInjective(idle_thread_list)
    /\ \A a \in Agents : IsInjective(tlist[a])
    /\ \A t \in Threads :
          /\ pc[t] = "wait" => \E p \in ThreadPlaces(t) : ThreadPlaces(t) = {p}
          /\ pc[t] # "wait" => ThreadPlaces(t) = {}
          /\ sem[t] > 0 => stack_top[t] \in Fibers

-----------------------------------------------------------------------------
(* The state of each fiber as its clients see it: FiberLifecycle.  A fiber *)
(* leaves its thread when its stack is switched out, is free again when it *)
(* has exited and blocked until it is taken out of its wait list.          *)
Status(f) ==
    IF \E t \in Threads : running[t] = f
    THEN "running"
    ELSE IF \/ f \notin fiber_pool \cup {MainFiber}
            \/ f \in Range(disposed_fiber_list)
            \/ \E t \in Threads : pc[t] = "recycle" /\ it[t] = f
    THEN "free"
    ELSE IF \/ f \in parked
            \/ \E t \in Threads : pc[t] = "release" /\ it[t] = f
    THEN "blocked"
    ELSE "runnable"

Lifecycle == INSTANCE FiberLifecycle
                WITH Capacity <- Cardinality(Threads),
                     status <- [f \in Fibers |-> Status(f)]

(* The scheduler implements FiberLifecycle.                                *)
LifecycleSpec == Lifecycle!Spec

(* Every fiber that is spawned, yields or is woken runs again, whichever   *)
(* mixture of enqueue_fiber, enqueue_fiber_list and switches it meets.     *)
RunnableRuns ==
    \A f \in Fibers : Status(f) = "runnable" ~> Status(f) = "running"
=============================================================================
