------------------------ MODULE FiberSchedulerProofs ------------------------
(***************************************************************************)
(* Theorems about FiberScheduler, for any number of threads and fibers.    *)
(***************************************************************************)
EXTENDS FiberScheduler, SequenceTheorems, FiniteSetTheorems, TLAPS

-----------------------------------------------------------------------------
(* Facts about the operators of the model.                                 *)

(* The head and the tail of a queue that is not empty.                     *)
LEMMA PopTyped ==
    ASSUME NEW S, NEW q \in Seq(S), q # <<>>
    PROVE  Head(q) \in S /\ Tail(q) \in Seq(S)
BY HeadTailProperties

(* Whatever a client takes out of a wait list is a sequence of fibers.     *)
LEMMA WakeOrderTyped ==
    ASSUME TypeOK, NEW l \in WakeOrders
    PROVE  l \in Seq(Fibers)
<1>1. PICK n \in 0..Cardinality(parked) : l \in [1..n -> parked]
    BY DEF WakeOrders
<1>2. n \in Nat /\ l \in Seq(parked)
    BY <1>1
<1>3. QED
    BY <1>2, SeqMonotonic DEF TypeOK

-----------------------------------------------------------------------------
(* TypeOK is not inductive: what enqueue_fiber appends and fiber_switch    *)
(* loads is what a local variable holds, so the proof needs to know what   *)
(* each local variable holds at each label.                                *)
Registers ==
    /\ \A t \in Threads :
          /\ deferred[t] # "none" => running[t] \in Fibers
          /\ pc[t] = "user" => running[t] \in Fibers
    /\ \A a \in Agents :
          /\ pc[a] \in {"enqueue", "handover", "recycle", "release"} =>
                it[a] \in Fibers
          /\ pc[a] \in {"handover", "signal", "dealsignal"} =>
                th[a] \in Threads
          /\ pc[a] = "switch" => it[a] \in Contexts

TypeInv == TypeOK /\ Registers

LEMMA InitTypeInv == Init => TypeInv
<1> SUFFICES ASSUME Init PROVE TypeInv
    OBVIOUS
<1>1. TypeOK
    BY ConstantsDistinct DEF Init, TypeOK, Threads, Agents, Fibers, Contexts,
                             Labels, Deferrals
<1>2. Registers
    BY ConstantsDistinct DEF Init, Registers, Threads, Agents, Fibers, Contexts
<1>3. QED
    BY <1>1, <1>2 DEF TypeInv

(* A library call goes back to its client or to the thread's loop.         *)
LEMMA ReturnTyped ==
    ASSUME TypeInv, NEW a \in Agents
    PROVE  /\ ReturnLabel(a) \in {"user", "loop", "timer"}
           /\ ReturnLabel(a) = "user" => running[a] \in Fibers
BY DEF ReturnLabel, Resume

(* The library's steps on a work thread.                                   *)
LEMMA LibraryTypeInv ==
    ASSUME TypeInv, NEW t \in Threads, LibraryStep(t)
    PROVE  TypeInv'
<1> USE DEF GoTo, queues, memory, contexts, lists
<1>0. /\ t \in Agents /\ t \in Contexts /\ NULL \notin Fibers
      /\ Fibers \subseteq Contexts
    BY ConstantsDistinct DEF Agents, Contexts
<1>10. TypeOK /\ Registers
    BY DEF TypeInv
<1>11. /\ ReturnLabel(t) \in {"user", "loop", "timer"}
       /\ ReturnLabel(t) = "user" => running[t] \in Fibers
    BY <1>0, ReturnTyped
<1>1. CASE WorkThreadLoop(t)
  <2>1. CASE fiber_list = <<>>
    <3>1. /\ idle_thread_list' = Append(idle_thread_list, t)
          /\ pc' = [pc EXCEPT ![t] = "wait"]
          /\ UNCHANGED <<fiber_list, it, memory, contexts, sem, deferred, th,
                         lists, parked>>
        BY <1>1, <2>1 DEF WorkThreadLoop
    <3>2. TypeOK'
        BY <1>0, <1>10, <3>1 DEF TypeOK, Labels
    <3>3. Registers'
        BY <1>0, <1>10, <3>1 DEF TypeOK, Registers
    <3>4. QED
        BY <3>2, <3>3 DEF TypeInv
  <2>2. CASE fiber_list # <<>>
    <3>1. /\ it' = [it EXCEPT ![t] = Head(fiber_list)]
          /\ fiber_list' = Tail(fiber_list)
          /\ pc' = [pc EXCEPT ![t] = "switch"]
          /\ UNCHANGED <<idle_thread_list, memory, contexts, sem, deferred,
                         th, lists, parked>>
        BY <1>1, <2>2 DEF WorkThreadLoop, PopFiber
    <3>2. Head(fiber_list) \in Fibers /\ Tail(fiber_list) \in Seq(Fibers)
        BY <1>10, <2>2, PopTyped DEF TypeOK
    <3>3. TypeOK'
        BY <1>0, <1>10, <3>1, <3>2 DEF TypeOK, Labels
    <3>4. Registers'
        BY <1>0, <1>10, <3>1, <3>2 DEF TypeOK, Registers
    <3>5. QED
        BY <3>3, <3>4 DEF TypeInv
  <2>3. QED
    BY <2>1, <2>2
<1>2. CASE SemaphoreWait(t)
  <2>1. TypeOK'
    BY <1>0, <1>10, <1>2 DEF SemaphoreWait, TypeOK, Labels
  <2>2. Registers'
    BY <1>0, <1>10, <1>2 DEF SemaphoreWait, TypeOK, Registers
  <2>3. QED
    BY <2>1, <2>2 DEF TypeInv
<1>3. CASE FiberSwitch(t)
  <2>1. /\ stack_top[it[t]] \in Contexts \cup {NULL}
        /\ running' = [running EXCEPT ![t] = stack_top[it[t]]]
        /\ deferred' = [deferred EXCEPT ![t] = "none"]
        /\ UNCHANGED <<queues, memory, sem, th, lists, parked>>
    BY <1>10, <1>3, <1>0 DEF FiberSwitch, TypeOK, Registers
  <2>5. stack_top' \in [Contexts -> Contexts \cup {NULL}]
    BY <1>10, <1>3, <1>0 DEF FiberSwitch, TypeOK
  <2>2. CASE deferred[t] = "none"
    <3>1. /\ it' = [it EXCEPT ![t] = NULL]
          /\ pc' = [pc EXCEPT ![t] = Resume(stack_top[it[t]])]
          /\ Resume(stack_top[it[t]]) \in {"user", "loop"}
          /\ Resume(stack_top[it[t]]) = "user" => stack_top[it[t]] \in Fibers
        BY <1>3, <2>2 DEF FiberSwitch, Resume
    <3>2. pc' \in [Agents -> Labels]
        BY <1>0, <1>10, <3>1 DEF TypeOK, Labels
    <3>3. TypeOK'
        BY <1>0, <1>10, <2>1, <2>5, <3>1, <3>2 DEF TypeOK, Deferrals
    <3>4. Registers'
        BY <1>0, <1>10, <2>1, <2>5, <3>1 DEF TypeOK, Registers
    <3>5. QED
        BY <3>3, <3>4 DEF TypeInv
  <2>3. CASE deferred[t] # "none"
    <3>1. /\ running[t] \in Fibers
          /\ deferred[t] \in {"enqueue", "recycle", "release"}
        BY <1>10, <2>3 DEF TypeOK, Registers, Deferrals
    <3>2. /\ it' = [it EXCEPT ![t] = running[t]]
          /\ pc' = [pc EXCEPT ![t] = deferred[t]]
        BY <1>3, <2>3 DEF FiberSwitch
    <3>3. TypeOK'
        BY <1>0, <1>10, <2>1, <2>5, <3>1, <3>2 DEF TypeOK, Labels, Deferrals
    <3>4. Registers'
        BY <1>0, <1>10, <2>1, <2>5, <3>1, <3>2 DEF TypeOK, Registers
    <3>5. QED
        BY <3>3, <3>4 DEF TypeInv
  <2>4. QED
    BY <2>2, <2>3
<1>4. CASE EnqueueFiber(t)
  <2>1. CASE idle_thread_list # <<>>
    <3>1. /\ th' = [th EXCEPT ![t] = Head(idle_thread_list)]
          /\ idle_thread_list' = Tail(idle_thread_list)
          /\ pc[t] = "enqueue"
          /\ pc' = [pc EXCEPT ![t] = "handover"]
          /\ UNCHANGED <<fiber_list, it, memory, contexts, sem, deferred,
                         lists, parked>>
        BY <1>4, <2>1 DEF EnqueueFiber
    <3>2. /\ Head(idle_thread_list) \in Threads
          /\ Tail(idle_thread_list) \in Seq(Threads)
        BY <1>10, <2>1, PopTyped DEF TypeOK
    <3>3. TypeOK'
        BY <1>0, <1>10, <3>1, <3>2 DEF TypeOK, Labels
    <3>4. Registers'
        BY <1>0, <1>10, <3>1, <3>2 DEF TypeOK, Registers
    <3>5. QED
        BY <3>3, <3>4 DEF TypeInv
  <2>2. CASE idle_thread_list = <<>>
    <3>1. /\ pc[t] = "enqueue"
          /\ fiber_list' = Append(fiber_list, it[t])
          /\ it' = [it EXCEPT ![t] = NULL]
          /\ pc' = [pc EXCEPT ![t] = ReturnLabel(t)]
          /\ UNCHANGED <<idle_thread_list, th, memory, contexts, sem, deferred,
                         lists, parked>>
        BY <1>4, <2>2 DEF EnqueueFiber, Return
    <3>2. it[t] \in Fibers
        BY <1>0, <1>10, <3>1 DEF Registers
    <3>3. TypeOK'
        BY <1>0, <1>10, <1>11, <3>1, <3>2 DEF TypeOK, Labels
    <3>4. Registers'
        BY <1>0, <1>10, <1>11, <3>1 DEF TypeOK, Registers
    <3>5. QED
        BY <3>3, <3>4 DEF TypeInv
  <2>3. QED
    BY <2>1, <2>2
<1>5. CASE Handover(t)
  <2>1. it[t] \in Fibers /\ stack_top[it[t]] \in Contexts \cup {NULL}
    BY <1>0, <1>5, <1>10 DEF Handover, TypeOK, Registers
  <2>2. TypeOK'
    BY <1>0, <1>5, <1>10, <2>1 DEF Handover, TypeOK, Labels
  <2>3. Registers'
    BY <1>0, <1>5, <1>10 DEF Handover, TypeOK, Registers
  <2>4. QED
    BY <2>2, <2>3 DEF TypeInv
<1>6. CASE Signal(t)
  <2>1. /\ pc[t] = "signal"
        /\ sem' = [sem EXCEPT ![th[t]] = @ + 1]
        /\ th' = [th EXCEPT ![t] = NULL]
        /\ pc' = [pc EXCEPT ![t] = ReturnLabel(t)]
        /\ UNCHANGED <<queues, memory, contexts, it, deferred, lists, parked>>
    BY <1>6 DEF Signal, Return
  <2>2. sem' \in [Threads -> Nat]
    BY <1>0, <1>10, <2>1 DEF TypeOK, Registers
  <2>3. TypeOK'
    BY <1>0, <1>10, <1>11, <2>1, <2>2 DEF TypeOK, Labels
  <2>4. Registers'
    BY <1>0, <1>10, <1>11, <2>1 DEF TypeOK, Registers
  <2>5. QED
    BY <2>3, <2>4 DEF TypeInv
<1>7. CASE RecycleFiber(t)
  <2>1. /\ pc[t] = "recycle"
        /\ disposed_fiber_list' = Append(disposed_fiber_list, it[t])
        /\ it' = [it EXCEPT ![t] = NULL]
        /\ pc' = [pc EXCEPT ![t] = ReturnLabel(t)]
        /\ UNCHANGED <<queues, fiber_pool, contexts, sem, deferred, th, lists,
                       parked>>
    BY <1>7 DEF RecycleFiber, Return
  <2>2. it[t] \in Fibers
    BY <1>0, <1>10, <2>1 DEF Registers
  <2>3. TypeOK'
    BY <1>0, <1>10, <1>11, <2>1, <2>2 DEF TypeOK, Labels
  <2>4. Registers'
    BY <1>0, <1>10, <1>11, <2>1 DEF TypeOK, Registers
  <2>5. QED
    BY <2>3, <2>4 DEF TypeInv
<1>8. CASE Release(t)
  <2>1. /\ pc[t] = "release"
        /\ parked' = parked \cup {it[t]}
        /\ it' = [it EXCEPT ![t] = NULL]
        /\ pc' = [pc EXCEPT ![t] = ReturnLabel(t)]
        /\ UNCHANGED <<queues, memory, contexts, sem, deferred, th, lists>>
    BY <1>8 DEF Release, Return
  <2>2. it[t] \in Fibers
    BY <1>0, <1>10, <2>1 DEF Registers
  <2>3. TypeOK'
    BY <1>0, <1>10, <1>11, <2>1, <2>2 DEF TypeOK, Labels
  <2>4. Registers'
    BY <1>0, <1>10, <1>11, <2>1 DEF TypeOK, Registers
  <2>5. QED
    BY <2>3, <2>4 DEF TypeInv
<1>9. QED
    BY <1>1, <1>2, <1>3, <1>4, <1>5, <1>6, <1>7, <1>8 DEF LibraryStep

(* The steps of enqueue_fiber_list, on a work thread or the timer thread.  *)
LEMMA ListTypeInv ==
    ASSUME TypeInv, NEW a \in Agents, ListStep(a)
    PROVE  TypeInv'
<1> USE DEF GoTo, queues, memory, contexts, lists
<1>10. TypeOK /\ Registers
    BY DEF TypeInv
<1>11. /\ ReturnLabel(a) \in {"user", "loop", "timer"}
       /\ ReturnLabel(a) = "user" => running[a] \in Fibers
    BY ReturnTyped
<1>12. /\ flist[a] # <<>> => /\ Head(flist[a]) \in Fibers
                             /\ Tail(flist[a]) \in Seq(Fibers)
       /\ tlist[a] # <<>> => /\ Head(tlist[a]) \in Threads
                             /\ Tail(tlist[a]) \in Seq(Threads)
    BY <1>10, PopTyped DEF TypeOK
<1>1. CASE ListEnqueue(a)
  <2>1. CASE flist[a] = <<>>
    <3>1. /\ pc' = [pc EXCEPT ![a] = ReturnLabel(a)]
          /\ UNCHANGED <<queues, lists, memory, contexts, sem, it, deferred,
                         th, parked>>
        BY <1>1, <2>1 DEF ListEnqueue, Return
    <3>2. TypeOK'
        BY <1>10, <1>11, <3>1 DEF TypeOK, Labels
    <3>3. Registers'
        BY <1>10, <1>11, <3>1 DEF TypeOK, Registers
    <3>4. QED
        BY <3>2, <3>3 DEF TypeInv
  <2>2. CASE flist[a] # <<>> /\ idle_thread_list = <<>>
    <3>1. /\ fiber_list' = fiber_list \o flist[a]
          /\ flist' = [flist EXCEPT ![a] = <<>>]
          /\ pc' = [pc EXCEPT ![a] = ReturnLabel(a)]
          /\ UNCHANGED <<idle_thread_list, tlist, memory, contexts, sem, it,
                         deferred, th, parked>>
        BY <1>1, <2>2 DEF ListEnqueue, Return
    <3>2. TypeOK'
        BY <1>10, <1>11, <3>1 DEF TypeOK, Labels
    <3>3. Registers'
        BY <1>10, <1>11, <3>1 DEF TypeOK, Registers
    <3>4. QED
        BY <3>2, <3>3 DEF TypeInv
  <2>3. CASE flist[a] # <<>> /\ idle_thread_list # <<>>
    <3>1. /\ tlist' = [tlist EXCEPT ![a] = idle_thread_list]
          /\ idle_thread_list' = <<>>
          /\ pc' = [pc EXCEPT ![a] = "deal"]
          /\ UNCHANGED <<fiber_list, flist, memory, contexts, sem, it,
                         deferred, th, parked>>
        BY <1>1, <2>3 DEF ListEnqueue
    <3>2. TypeOK'
        BY <1>10, <3>1 DEF TypeOK, Labels
    <3>3. Registers'
        BY <1>10, <3>1 DEF TypeOK, Registers
    <3>4. QED
        BY <3>2, <3>3 DEF TypeInv
  <2>4. QED
    BY <2>1, <2>2, <2>3
<1>2. CASE Deal(a)
  <2>1. Head(flist[a]) \in Contexts
    BY <1>2, <1>12 DEF Deal, Contexts
  <2>2. stack_top' \in [Contexts -> Contexts \cup {NULL}]
    BY <1>2, <1>10, <2>1 DEF Deal, TypeOK
  <2>3. TypeOK'
    BY <1>2, <1>10, <1>12, <2>2 DEF Deal, TypeOK, Labels
  <2>4. Registers'
    BY <1>2, <1>10, <1>12 DEF Deal, TypeOK, Registers
  <2>5. QED
    BY <2>3, <2>4 DEF TypeInv
<1>3. CASE DealSignal(a)
  <2>1. sem' \in [Threads -> Nat]
    BY <1>3, <1>10 DEF DealSignal, TypeOK, Registers
  <2>2. TypeOK'
    BY <1>3, <1>10, <2>1 DEF DealSignal, TypeOK, Labels
  <2>3. Registers'
    BY <1>3, <1>10 DEF DealSignal, TypeOK, Registers
  <2>4. QED
    BY <2>2, <2>3 DEF TypeInv
<1>4. CASE DealOutOfThreads(a)
  <2>1. TypeOK'
    BY <1>4, <1>10 DEF DealOutOfThreads, TypeOK, Labels
  <2>2. Registers'
    BY <1>4, <1>10 DEF DealOutOfThreads, TypeOK, Registers
  <2>3. QED
    BY <2>1, <2>2 DEF TypeInv
<1>5. CASE DealDone(a)
  <2>1. TypeOK'
    BY <1>5, <1>10, <1>11 DEF DealDone, Return, TypeOK, Labels
  <2>2. Registers'
    BY <1>5, <1>10, <1>11 DEF DealDone, Return, TypeOK, Registers
  <2>3. QED
    BY <2>1, <2>2 DEF TypeInv
<1>6. CASE ReturnIdleThreads(a)
  <2>1. idle_thread_list' \in Seq(Threads)
    BY <1>6, <1>10 DEF ReturnIdleThreads, TypeOK
  <2>2. TypeOK'
    BY <1>6, <1>10, <1>11, <2>1 DEF ReturnIdleThreads, Return, TypeOK, Labels
  <2>3. Registers'
    <3>1. /\ pc' = [pc EXCEPT ![a] = ReturnLabel(a)]
          /\ UNCHANGED <<it, th, running, deferred>>
        BY <1>6 DEF ReturnIdleThreads, Return
    <3>2. /\ pc'[a] = ReturnLabel(a)
          /\ \A b \in Agents : b # a => pc'[b] = pc[b]
        BY <1>10, <3>1 DEF TypeOK
    <3>3. QED
        BY <1>10, <1>11, <3>1, <3>2 DEF Registers
  <2>4. QED
    BY <2>2, <2>3 DEF TypeInv
<1>7. CASE TakeRunQueue(a)
  <2>1. TypeOK'
    BY <1>7, <1>10 DEF TakeRunQueue, TypeOK, Labels
  <2>2. Registers'
    BY <1>7, <1>10 DEF TakeRunQueue, TypeOK, Registers
  <2>3. QED
    BY <2>1, <2>2 DEF TypeInv
<1>8. QED
    BY <1>1, <1>2, <1>3, <1>4, <1>5, <1>6, <1>7 DEF ListStep

(* The calls of clients; a fiber that is taken out of a wait list was in   *)
(* it.                                                                     *)
LEMMA ClientTypeInv ==
    ASSUME TypeInv, NEW t \in Threads, ClientStep(t)
    PROVE  TypeInv'
<1> USE DEF GoTo, queues, memory, contexts, lists
<1>0. /\ t \in Agents /\ t \in Contexts /\ NULL \notin Fibers
      /\ Fibers \subseteq Contexts /\ Blocks \subseteq Fibers
    BY ConstantsDistinct DEF Agents, Contexts, Fibers
<1>10. TypeOK /\ Registers
    BY DEF TypeInv
<1>11. fiber_list # <<>> => /\ Head(fiber_list) \in Fibers
                            /\ Tail(fiber_list) \in Seq(Fibers)
    BY <1>10, PopTyped DEF TypeOK
<1>1. CASE Spawn(t)
  <2>1. PICK b \in Blocks :
          /\ \/ /\ fiber_pool' = fiber_pool \cup {b}
                /\ UNCHANGED disposed_fiber_list
             \/ /\ disposed_fiber_list # <<>>
                /\ disposed_fiber_list' = Tail(disposed_fiber_list)
                /\ UNCHANGED fiber_pool
          /\ stack_top' = [stack_top EXCEPT ![b] = b]
          /\ it' = [it EXCEPT ![t] = b]
    BY <1>1 DEF Spawn
  <2>8. disposed_fiber_list # <<>> =>
            Tail(disposed_fiber_list) \in Seq(Fibers)
    BY <1>10, PopTyped DEF TypeOK
  <2>2. disposed_fiber_list' \in Seq(Fibers) /\ fiber_pool' \subseteq Blocks
    BY <1>10, <2>1, <2>8 DEF TypeOK
  <2>3. stack_top' \in [Contexts -> Contexts \cup {NULL}]
    BY <1>0, <1>10, <2>1 DEF TypeOK
  <2>4. /\ pc' = [pc EXCEPT ![t] = "enqueue"]
        /\ UNCHANGED <<queues, running, sem, deferred, th, lists, parked>>
    BY <1>1 DEF Spawn
  <2>5. TypeOK'
    BY <1>0, <1>10, <2>1, <2>2, <2>3, <2>4 DEF TypeOK, Labels
  <2>6. Registers'
    BY <1>0, <1>10, <2>1, <2>4 DEF TypeOK, Registers
  <2>7. QED
    BY <2>5, <2>6 DEF TypeInv
<1>2. CASE Yield(t)
  <2>1. TypeOK'
    BY <1>0, <1>2, <1>10, <1>11
       DEF Yield, PopFiber, TypeOK, Labels, Deferrals
  <2>2. Registers'
    BY <1>0, <1>2, <1>10, <1>11 DEF Yield, PopFiber, TypeOK, Registers
  <2>3. QED
    BY <2>1, <2>2 DEF TypeInv
<1>3. CASE Exit(t) \/ Sleep(t)
  <2>1. /\ pc[t] = "user"
        /\ pc' = [pc EXCEPT ![t] = "switch"]
        /\ deferred' \in [Threads -> Deferrals]
        /\ \A u \in Threads : u # t => deferred'[u] = deferred[u]
        /\ UNCHANGED <<idle_thread_list, memory, contexts, sem, th, lists,
                       parked>>
    BY <1>3, <1>10 DEF Exit, Sleep, TypeOK, Deferrals
  <2>7. GetAvailableFiber(t)
    BY <1>3 DEF Exit, Sleep
  <2>2. PICK c \in Contexts : it' = [it EXCEPT ![t] = c]
    BY <1>0, <1>11, <2>7 DEF GetAvailableFiber, PopFiber
  <2>3. fiber_list' \in Seq(Fibers)
    BY <1>3, <1>10, <1>11
       DEF Exit, Sleep, GetAvailableFiber, PopFiber, TypeOK
  <2>4. TypeOK'
    BY <1>0, <1>10, <2>1, <2>2, <2>3 DEF TypeOK, Labels
  <2>5. Registers'
    BY <1>0, <1>10, <2>1, <2>2 DEF TypeOK, Registers
  <2>6. QED
    BY <2>4, <2>5 DEF TypeInv
<1>4. CASE Park(t)
  <2>1. TypeOK'
    BY <1>0, <1>4, <1>10 DEF Park, TypeOK, Labels, Deferrals
  <2>2. Registers'
    BY <1>0, <1>4, <1>10 DEF Park, TypeOK, Registers
  <2>3. QED
    BY <2>1, <2>2 DEF TypeInv
<1>5. ASSUME NEW f \in parked, WakeOne(t, f)
      PROVE  TypeInv'
  <2>1. f \in Fibers
    BY <1>10 DEF TypeOK
  <2>2. TypeOK'
    BY <1>0, <1>5, <1>10, <2>1 DEF WakeOne, TypeOK, Labels
  <2>3. Registers'
    BY <1>0, <1>5, <1>10, <2>1 DEF WakeOne, TypeOK, Registers
  <2>4. QED
    BY <2>2, <2>3 DEF TypeInv
<1>6. ASSUME NEW f \in parked, Handoff(t, f)
      PROVE  TypeInv'
  <2>1. f \in Fibers
    BY <1>10 DEF TypeOK
  <2>2. TypeOK'
    BY <1>0, <1>6, <1>10, <2>1 DEF Handoff, TypeOK, Labels, Deferrals
  <2>3. Registers'
    BY <1>0, <1>6, <1>10, <2>1 DEF Handoff, TypeOK, Registers
  <2>4. QED
    BY <2>2, <2>3 DEF TypeInv
<1>7. QED
    BY <1>1, <1>2, <1>3, <1>4, <1>5, <1>6 DEF ClientStep

LEMMA WakeListTypeInv ==
    ASSUME TypeInv, NEW a \in Agents, NEW l \in WakeOrders, WakeList(a, l)
    PROVE  TypeInv'
<1>1. l \in Seq(Fibers)
    BY WakeOrderTyped DEF TypeInv
<1>2. TypeOK'
    BY <1>1 DEF TypeInv, TypeOK, WakeList, GoTo, Labels, queues, memory,
                contexts
<1>3. Registers'
    BY DEF TypeInv, TypeOK, Registers, WakeList, GoTo, contexts
<1>4. QED
    BY <1>2, <1>3 DEF TypeInv

-----------------------------------------------------------------------------
(* The variables keep their types: no semaphore of a thread is decremented *)
(* below zero and no queue holds a null pointer, since whatever pops or    *)
(* dispatches has tested its list, in every interleaving.                  *)
THEOREM TypeCorrect == Spec => []TypeOK
<1>1. Init => TypeInv
    BY InitTypeInv
<1>2. ASSUME TypeInv, [Next]_vars
      PROVE  TypeInv'
  <2>1. CASE Next
    BY <1>2, <2>1, LibraryTypeInv, ClientTypeInv, ListTypeInv,
       WakeListTypeInv DEF Next
  <2>2. CASE UNCHANGED vars
    BY <1>2, <2>2 DEF TypeInv, TypeOK, Registers, vars, queues, memory,
                      contexts, lists
  <2>3. QED
    BY <1>2, <2>1, <2>2
<1>3. QED
    BY <1>1, <1>2, PTL DEF Spec, TypeInv

-----------------------------------------------------------------------------
(* No lost wakeup.  A list in which something is found was not empty, so a *)
(* step that leaves one of the two lists non-empty started with the other  *)
(* one empty, and a step that extends one of them has tested the other     *)
(* under the same lock.                                                    *)
THEOREM NoLostWakeup == Spec => []WorkConserving
<1>1. Init => WorkConserving
    BY DEF Init, WorkConserving
<1>2. ASSUME WorkConserving, [Next]_vars
      PROVE  WorkConserving'
  <2> USE DEF WorkConserving
  <2>1. ASSUME NEW t \in Threads, LibraryStep(t)
        PROVE  WorkConserving'
    <3>1. CASE WorkThreadLoop(t)
        BY <1>2, <3>1 DEF WorkThreadLoop, PopFiber
    <3>2. CASE EnqueueFiber(t)
        BY <1>2, <3>2 DEF EnqueueFiber
    <3>3. CASE UNCHANGED queues
        BY <1>2, <3>3 DEF queues
    <3>4. QED
        BY <2>1, <3>1, <3>2, <3>3 DEF LibraryStep, SemaphoreWait, FiberSwitch,
           Handover, Signal, RecycleFiber, Release
  <2>2. ASSUME NEW t \in Threads, ClientStep(t)
        PROVE  WorkConserving'
    <3>1. CASE Yield(t)
        BY <1>2, <3>1 DEF Yield, PopFiber
    <3>2. CASE Exit(t)
        BY <1>2, <3>2 DEF Exit, GetAvailableFiber, PopFiber
    <3>3. CASE Sleep(t)
        BY <1>2, <3>3 DEF Sleep, GetAvailableFiber, PopFiber
    <3>4. CASE UNCHANGED queues
        BY <1>2, <3>4 DEF queues
    <3>5. QED
        BY <2>2, <3>1, <3>2, <3>3, <3>4
           DEF ClientStep, Spawn, Park, WakeOne, Handoff
  <2>3. ASSUME NEW a \in Agents, ListStep(a)
        PROVE  WorkConserving'
    <3>1. CASE ListEnqueue(a)
        BY <1>2, <3>1 DEF ListEnqueue, queues
    <3>2. CASE ReturnIdleThreads(a)
        BY <1>2, <3>2 DEF ReturnIdleThreads
    <3>3. CASE TakeRunQueue(a)
        BY <1>2, <3>3 DEF TakeRunQueue
    <3>4. CASE UNCHANGED queues
        BY <1>2, <3>4 DEF queues
    <3>5. QED
        BY <2>3, <3>1, <3>2, <3>3, <3>4
           DEF ListStep, Deal, DealSignal, DealOutOfThreads, DealDone
  <2>4. ASSUME NEW a \in Agents, NEW l \in WakeOrders, WakeList(a, l)
        PROVE  WorkConserving'
    BY <1>2, <2>4 DEF WakeList, queues
  <2>5. CASE UNCHANGED vars
    BY <1>2, <2>5 DEF vars, queues
  <2>6. QED
    BY <1>2, <2>1, <2>2, <2>3, <2>4, <2>5 DEF Next
<1>3. QED
    BY <1>1, <1>2, PTL DEF Spec

-----------------------------------------------------------------------------
(***************************************************************************)
(* Who owns each fiber and each sleeping thread.  Fibers and sleeping      *)
(* threads move between places.  The invariant says that each is in one    *)
(* place, which local variables of which labels are places, and that a     *)
(* fiber has saved its stack wherever it is not running; each action then  *)
(* moves a few fibers or threads.                                          *)
(***************************************************************************)
(* The places of fibers, with the agent whose the place is.                *)
Kinds == {"queue", "disposed", "parked", "running", "cell", "it", "list"}
Holders == Agents \cup {NULL}

Sits(f, k, a) ==
    \/ k = "queue" /\ a = NULL /\ f \in Range(fiber_list)
    \/ k = "disposed" /\ a = NULL /\ f \in Range(disposed_fiber_list)
    \/ k = "parked" /\ a = NULL /\ f \in parked
    \/ k = "running" /\ a \in Threads /\ running[a] = f
    \/ k = "cell" /\ a \in Threads /\ stack_top[a] = f
    \/ k = "it" /\ a \in Agents /\ it[a] = f
    \/ k = "list" /\ a \in Agents /\ f \in Range(flist[a])

SitsAt(f, k, a) ==
    \A k2 \in Kinds, a2 \in Holders : Sits(f, k2, a2) <=> k2 = k /\ a2 = a

(* A fiber that exists is at one place, one that does not is nowhere.      *)
Owned(f) ==
    /\ f \in fiber_pool \cup {MainFiber} =>
          \E k \in Kinds, a \in Holders : SitsAt(f, k, a)
    /\ f \notin fiber_pool \cup {MainFiber} =>
          \A k \in Kinds, a \in Holders : ~Sits(f, k, a)

(* Wherever a fiber waits, its struct holds its own saved stack.           *)
Saved(f) ==
    \A k \in Kinds, a \in Holders :
        Sits(f, k, a) /\ k # "running" => stack_top[f] = f

FibersOwned == ListedOnce /\ \A f \in Fibers : Owned(f) /\ Saved(f)

-----------------------------------------------------------------------------
(* What the local variables hold at each label.                            *)
HoldsFiber(a) == pc[a] \in {"enqueue", "handover", "recycle", "release"}
HoldsThread(a) == pc[a] \in {"handover", "signal", "dealsignal"}

AgentLocals(a) ==
    /\ it[a] # NULL => HoldsFiber(a) \/ pc[a] = "switch"
    /\ th[a] # NULL => HoldsThread(a)
    /\ flist[a] # <<>> => pc[a] \in {"list", "deal", "dealsignal"}
    /\ tlist[a] # <<>> => pc[a] \in {"deal", "dealsignal"}
    /\ a = TimerThread => pc[a] \in {"timer", "list", "deal", "dealsignal"}
    /\ a \in Threads /\ pc[a] = "switch" => it[a] \in Fibers \cup {a}
    /\ a \in Threads /\ deferred[a] # "none" => pc[a] = "switch"

Locals == \A a \in Agents : AgentLocals(a)

(* A thread runs a fiber or its own loop.  While it runs a fiber its       *)
(* struct holds the loop; it leaves a fiber with a deferred call, from the *)
(* loop without one.                                                       *)
ThreadLoop(t) ==
    /\ running[t] \in Fibers \cup {t}
    /\ running[t] \in Fibers => stack_top[t] = t
    /\ pc[t] \in {"loop", "wait"} => running[t] = t
    /\ pc[t] = "switch" /\ running[t] \in Fibers => deferred[t] # "none"

LoopSaved == \A t \in Threads : ThreadLoop(t)

-----------------------------------------------------------------------------
(* A sleeping thread and who knows of it.                                  *)
ThreadKinds == {"idle", "th", "tlist", "signal"}

Sleeps(t, k, a) ==
    \/ k = "idle" /\ a = NULL /\ t \in Range(idle_thread_list)
    \/ k = "th" /\ a \in Agents /\ th[a] = t
    \/ k = "tlist" /\ a \in Agents /\ t \in Range(tlist[a])
    \/ k = "signal" /\ a = NULL /\ sem[t] # 0

SleepsAt(t, k, a) ==
    \A k2 \in ThreadKinds, a2 \in Holders : Sleeps(t, k2, a2) <=> k2 = k /\ a2 = a

Known(t) ==
    /\ pc[t] = "wait" =>
          \E k \in ThreadKinds, a \in Holders : SleepsAt(t, k, a)
    /\ pc[t] # "wait" =>
          \A k \in ThreadKinds, a \in Holders : ~Sleeps(t, k, a)

ThreadsListedOnce ==
    /\ IsInjective(idle_thread_list)
    /\ \A a \in Agents : IsInjective(tlist[a])

(* The struct of a thread holds a fiber from when a dealer has put it      *)
(* there until the thread, signalled, switches to it.                      *)
Filled(t) ==
    \/ sem[t] # 0
    \/ \E a \in Agents : th[a] = t /\ pc[a] \in {"signal", "dealsignal"}
    \/ pc[t] = "switch" /\ it[t] = t /\ running[t] = t

ThreadsKnown ==
    /\ ThreadsListedOnce
    /\ \A t \in Threads : sem[t] \in {0, 1} /\ Known(t)

CellsFilled == \A t \in Threads : stack_top[t] \in Fibers <=> Filled(t)

OwnInv == TypeInv /\ Locals /\ LoopSaved /\ FibersOwned /\ ThreadsKnown /\ CellsFilled

-----------------------------------------------------------------------------
(* Facts about lists without repetitions.                                  *)

LEMMA ListedEmpty == Range(<<>>) = {} /\ IsInjective(<<>>)
BY DEF Range, IsInjective

LEMMA ListedTyped ==
    ASSUME NEW S, NEW q \in Seq(S)
    PROVE  Range(q) \in SUBSET S
<1>1. DOMAIN q = 1..Len(q) /\ \A i \in 1..Len(q) : q[i] \in S
    OBVIOUS
<1>2. QED
    BY <1>1 DEF Range

(* Appending.                                                              *)
LEMMA ListedAppend ==
    ASSUME NEW S, NEW q \in Seq(S), NEW e \in S
    PROVE  /\ Range(Append(q, e)) = Range(q) \cup {e}
           /\ IsInjective(q) /\ e \notin Range(q) => IsInjective(Append(q, e))
<1>1. /\ Append(q, e) \in Seq(S) /\ Len(Append(q, e)) = Len(q) + 1
      /\ \A i \in 1..Len(q) : Append(q, e)[i] = q[i]
      /\ Append(q, e)[Len(q) + 1] = e
    BY AppendProperties
<1>2. /\ DOMAIN q = 1..Len(q) /\ Len(q) \in Nat
      /\ DOMAIN Append(q, e) = 1..(Len(q) + 1)
    BY <1>1
<1>3. QED
    BY <1>1, <1>2 DEF Range, IsInjective

(* Taking out the first element.                                           *)
LEMMA ListedPop ==
    ASSUME NEW S, NEW q \in Seq(S), q # <<>>, IsInjective(q)
    PROVE  /\ Head(q) \in S /\ Tail(q) \in Seq(S)
           /\ Head(q) \in Range(q)
           /\ Range(Tail(q)) = Range(q) \ {Head(q)}
           /\ IsInjective(Tail(q))
<1>1. /\ Head(q) \in S /\ Tail(q) \in Seq(S) /\ Len(Tail(q)) = Len(q) - 1
      /\ \A i \in 1..Len(Tail(q)) : Tail(q)[i] = q[i + 1]
    BY HeadTailProperties
<1>2. /\ DOMAIN q = 1..Len(q) /\ Len(q) \in Nat /\ Len(q) > 0 /\ Head(q) = q[1]
      /\ DOMAIN Tail(q) = 1..(Len(q) - 1)
    BY <1>1, EmptySeq
<1>3. Head(q) \in Range(q)
    BY <1>2 DEF Range
<1>4. IsInjective(Tail(q))
    BY <1>1, <1>2 DEF IsInjective
<1>5. Head(q) \notin Range(Tail(q))
    BY <1>1, <1>2 DEF IsInjective, Range
<1>6. Range(Tail(q)) \subseteq Range(q)
    BY <1>1, <1>2 DEF Range
<1>7. ASSUME NEW e \in Range(q), e # Head(q) PROVE e \in Range(Tail(q))
  <2>1. PICK i \in 1..Len(q) : e = q[i]
    BY <1>2 DEF Range
  <2>2. i # 1 /\ i - 1 \in 1..(Len(q) - 1)
    BY <1>2, <1>7, <2>1
  <2>3. Tail(q)[i - 1] = e
    BY <1>1, <1>2, <2>1, <2>2
  <2>4. QED
    BY <1>2, <2>2, <2>3 DEF Range
<1>8. QED
    BY <1>1, <1>3, <1>4, <1>5, <1>6, <1>7

(* Joining two lists that have nothing in common.                          *)
LEMMA ListedConcat ==
    ASSUME NEW S, NEW q \in Seq(S), NEW r \in Seq(S),
           IsInjective(q), IsInjective(r), Range(q) \cap Range(r) = {}
    PROVE  /\ q \o r \in Seq(S)
           /\ Range(q \o r) = Range(q) \cup Range(r)
           /\ IsInjective(q \o r)
<1>1. /\ q \o r \in Seq(S) /\ Len(q \o r) = Len(q) + Len(r)
      /\ \A i \in 1..Len(q) : (q \o r)[i] = q[i]
      /\ \A i \in 1..Len(r) : (q \o r)[i + Len(q)] = r[i]
    BY ConcatProperties
<1>2. /\ DOMAIN q = 1..Len(q) /\ Len(q) \in Nat
      /\ DOMAIN r = 1..Len(r) /\ Len(r) \in Nat
      /\ DOMAIN (q \o r) = 1..(Len(q) + Len(r))
    BY <1>1
<1>3. ASSUME NEW i \in DOMAIN (q \o r)
      PROVE  \/ i \in DOMAIN q /\ (q \o r)[i] = q[i]
             \/ i - Len(q) \in DOMAIN r /\ (q \o r)[i] = r[i - Len(q)]
    BY <1>1, <1>2
<1>4. Range(q \o r) \subseteq Range(q) \cup Range(r)
    BY <1>3 DEF Range
<1>5. Range(q) \subseteq Range(q \o r)
    BY <1>1, <1>2 DEF Range
<1>6. Range(r) \subseteq Range(q \o r)
  <2>1. ASSUME NEW i \in DOMAIN r
        PROVE  i + Len(q) \in DOMAIN (q \o r) /\ (q \o r)[i + Len(q)] = r[i]
    <3>1. i \in 1..Len(r) /\ i + Len(q) \in 1..(Len(q) + Len(r))
        BY <1>2
    <3>2. QED
        BY <1>1, <1>2, <3>1
  <2>2. QED
    BY <2>1 DEF Range
<1>7. ASSUME NEW i \in DOMAIN (q \o r), NEW j \in DOMAIN (q \o r),
             (q \o r)[i] = (q \o r)[j]
      PROVE  i = j
  <2>1. CASE i \in DOMAIN q /\ j \in DOMAIN q
    BY <1>1, <1>2, <1>7, <2>1 DEF IsInjective
  <2>2. CASE i - Len(q) \in DOMAIN r /\ j - Len(q) \in DOMAIN r
    BY <1>1, <1>2, <1>7, <2>2 DEF IsInjective
  <2>3. CASE i \in DOMAIN q /\ j - Len(q) \in DOMAIN r
    <3>1. q[i] = r[j - Len(q)]
        BY <1>1, <1>2, <1>7, <2>3
    <3>2. QED
        BY <2>3, <3>1 DEF Range
  <2>4. CASE i - Len(q) \in DOMAIN r /\ j \in DOMAIN q
    <3>1. r[i - Len(q)] = q[j]
        BY <1>1, <1>2, <1>7, <2>4
    <3>2. QED
        BY <2>4, <3>1 DEF Range
  <2>5. QED
    BY <1>2, <2>1, <2>2, <2>3, <2>4
<1>8. QED
    BY <1>1, <1>4, <1>5, <1>6, <1>7 DEF IsInjective

-----------------------------------------------------------------------------
(* A fiber, or a thread, that an action does not move.                     *)
LEMMA FiberStays ==
    ASSUME NEW f \in Fibers, Owned(f), Saved(f),
           \A k \in Kinds, a \in Holders : Sits(f, k, a)' <=> Sits(f, k, a),
           f \in fiber_pool' <=> f \in fiber_pool,
           stack_top'[f] = stack_top[f]
    PROVE  Owned(f)' /\ Saved(f)'
BY DEF Owned, SitsAt, Saved

LEMMA ThreadStays ==
    ASSUME NEW t \in Threads, Known(t),
           \A k \in ThreadKinds, a \in Holders :
               Sleeps(t, k, a)' <=> Sleeps(t, k, a),
           pc'[t] = "wait" <=> pc[t] = "wait"
    PROVE  Known(t)'
BY DEF Known, SleepsAt

(* One that it does.                                                       *)
LEMMA FiberArrives ==
    ASSUME NEW f \in Fibers, NEW k \in Kinds, NEW a \in Holders,
           \A k2 \in Kinds, a2 \in Holders :
               Sits(f, k2, a2)' <=> k2 = k /\ a2 = a,
           f \in fiber_pool' \cup {MainFiber},
           k = "running" \/ stack_top'[f] = f
    PROVE  Owned(f)' /\ Saved(f)'
BY DEF Owned, SitsAt, Saved

LEMMA ThreadArrives ==
    ASSUME NEW t \in Threads, NEW k \in ThreadKinds, NEW a \in Holders,
           \A k2 \in ThreadKinds, a2 \in Holders :
               Sleeps(t, k2, a2)' <=> k2 = k /\ a2 = a,
           pc'[t] = "wait"
    PROVE  Known(t)'
BY DEF Known, SleepsAt

(* Where a fiber, or a thread, is found it is and nowhere else.            *)
LEMMA FiberFound ==
    ASSUME FibersOwned, NEW f \in Fibers, NEW k \in Kinds, NEW a \in Holders,
           Sits(f, k, a)
    PROVE  /\ f \in fiber_pool \cup {MainFiber}
           /\ \A k2 \in Kinds, a2 \in Holders :
                 Sits(f, k2, a2) <=> k2 = k /\ a2 = a
           /\ k # "running" => stack_top[f] = f
BY DEF FibersOwned, Owned, SitsAt, Saved

LEMMA ThreadFound ==
    ASSUME ThreadsKnown, NEW t \in Threads, NEW k \in ThreadKinds,
           NEW a \in Holders, Sleeps(t, k, a)
    PROVE  /\ pc[t] = "wait"
           /\ \A k2 \in ThreadKinds, a2 \in Holders :
                 Sleeps(t, k2, a2) <=> k2 = k /\ a2 = a
BY DEF ThreadsKnown, Known, SleepsAt

(* An action that does not touch the places of fibers, or of threads.      *)
LEMMA FibersUntouched ==
    ASSUME FibersOwned, UNCHANGED <<fiber_list, memory, contexts, flist, parked>>,
           \A f \in Fibers, a \in Agents : it'[a] = f <=> it[a] = f
    PROVE  FibersOwned'
<1> USE DEF memory, contexts
<1>1. ASSUME NEW f \in Fibers PROVE Owned(f)' /\ Saved(f)'
  <2>1. \A k \in Kinds, a \in Holders : Sits(f, k, a)' <=> Sits(f, k, a)
    BY DEF Sits
  <2>2. QED
    BY <2>1, FiberStays DEF FibersOwned
<1>2. QED
    BY <1>1 DEF FibersOwned, ListedOnce

LEMMA ThreadsUntouched ==
    ASSUME ThreadsKnown, UNCHANGED <<idle_thread_list, tlist, th, sem>>,
           \A t \in Threads : pc'[t] = "wait" <=> pc[t] = "wait"
    PROVE  ThreadsKnown'
<1>1. ASSUME NEW t \in Threads PROVE Known(t)'
  <2>1. \A k \in ThreadKinds, a \in Holders : Sleeps(t, k, a)' <=> Sleeps(t, k, a)
    BY DEF Sleeps
  <2>2. QED
    BY <2>1, ThreadStays DEF ThreadsKnown
<1>2. QED
    BY <1>1 DEF ThreadsKnown, ThreadsListedOnce

(* The sets of names are disjoint.                                         *)
LEMMA Names ==
    /\ Threads \subseteq Agents /\ Threads \subseteq Contexts
    /\ Fibers \subseteq Contexts /\ Blocks \subseteq Fibers
    /\ Contexts = Fibers \cup Threads /\ Agents = Threads \cup {TimerThread}
    /\ Fibers \cap Agents = {} /\ NULL \notin Fibers \cup Agents \cup Contexts
    /\ TimerThread \notin Threads /\ MainFiber \in Fibers
    /\ MainThread \in Threads
BY ConstantsDistinct DEF Threads, Agents, Fibers, Contexts

LEMMA ReturnsTo ==
    ASSUME OwnInv, NEW a \in Agents
    PROVE  /\ ReturnLabel(a) \in {"user", "loop", "timer"}
           /\ a = TimerThread => ReturnLabel(a) = "timer"
           /\ a \in Threads => ReturnLabel(a) # "timer"
           /\ a \in Threads /\ ReturnLabel(a) = "loop" => running[a] = a
BY Names DEF OwnInv, LoopSaved, ThreadLoop, ReturnLabel, Resume

(* The first fiber of the run queue goes into an agent's it.               *)
LEMMA FiberPopped ==
    ASSUME TypeOK, FibersOwned, NEW t \in Threads, it[t] = NULL,
           NEW f \in Fibers, f = Head(fiber_list), fiber_list # <<>>,
           fiber_list' = Tail(fiber_list), it' = [it EXCEPT ![t] = f],
           UNCHANGED <<memory, contexts, flist, parked>>
    PROVE  FibersOwned'
<1> USE Names DEF Holders, memory, contexts
<1>1. /\ f \in Range(fiber_list)
      /\ Range(fiber_list') = Range(fiber_list) \ {f}
      /\ ListedOnce'
    BY ListedPop DEF TypeOK, FibersOwned, ListedOnce
<1>2. Sits(f, "queue", NULL)
    BY <1>1 DEF Sits
<1>3. /\ f \in fiber_pool \cup {MainFiber} /\ stack_top[f] = f
      /\ \A k \in Kinds, a \in Holders :
            Sits(f, k, a) <=> k = "queue" /\ a = NULL
    BY <1>2, FiberFound DEF Kinds
<1>4. it'[t] = f /\ \A b \in Agents : b # t => it'[b] = it[b]
    BY DEF TypeOK
<1>5. Owned(f)' /\ Saved(f)'
  <2>1. \A b \in Agents : it[b] # f
    BY <1>3 DEF Sits, Kinds
  <2>2. \A k \in Kinds, a \in Holders : Sits(f, k, a)' <=> k = "it" /\ a = t
    BY <1>1, <1>3, <1>4, <2>1 DEF Sits, Kinds
  <2>3. QED
    BY <1>3, <2>2, FiberArrives DEF Kinds
<1>6. ASSUME NEW g \in Fibers, g # f PROVE Owned(g)' /\ Saved(g)'
  <2>1. \A k \in Kinds, a \in Holders : Sits(g, k, a)' <=> Sits(g, k, a)
    BY <1>1, <1>4, <1>6 DEF Sits
  <2>2. QED
    BY <2>1, FiberStays DEF FibersOwned
<1>7. QED
    BY <1>1, <1>5, <1>6 DEF FibersOwned

-----------------------------------------------------------------------------
(* The library's steps on a work thread.                                   *)

LEMMA WorkThreadLoopOwn ==
    ASSUME OwnInv, TypeOK', NEW t \in Threads, WorkThreadLoop(t)
    PROVE  (Locals /\ LoopSaved /\ FibersOwned /\ ThreadsKnown /\ CellsFilled)'
<1> USE Names DEF GoTo, memory, contexts, lists, Holders
<1>1. /\ TypeOK /\ Locals /\ LoopSaved /\ FibersOwned /\ ThreadsKnown
      /\ CellsFilled
      /\ pc[t] = "loop" /\ it[t] = NULL /\ th[t] = NULL /\ t \in Agents
      /\ UNCHANGED <<memory, contexts, sem, deferred, th, lists, parked>>
    BY DEF OwnInv, TypeInv, WorkThreadLoop, Locals, AgentLocals, HoldsFiber,
           HoldsThread
<1>2. CASE fiber_list = <<>>
  <2>1. /\ idle_thread_list' = Append(idle_thread_list, t)
        /\ pc' = [pc EXCEPT ![t] = "wait"]
        /\ UNCHANGED <<fiber_list, it>>
    BY <1>2 DEF WorkThreadLoop
  <2>2. Locals' /\ LoopSaved'
    <3>1. pc'[t] = "wait" /\ \A b \in Agents : b # t => pc'[b] = pc[b]
        BY <1>1, <2>1 DEF TypeOK
    <3>2. Locals'
        BY <1>1, <2>1, <3>1 DEF Locals, AgentLocals, HoldsFiber, HoldsThread
    <3>3. LoopSaved'
        BY <1>1, <2>1, <3>1 DEF LoopSaved, ThreadLoop
    <3>4. QED
        BY <3>2, <3>3
  <2>3. FibersOwned'
    BY <1>1, <2>1, FibersUntouched
  <2>4. \A k \in ThreadKinds, a \in Holders : ~Sleeps(t, k, a)
    BY <1>1 DEF ThreadsKnown, Known
  <2>5. /\ Range(idle_thread_list') = Range(idle_thread_list) \cup {t}
        /\ IsInjective(idle_thread_list')
    BY <1>1, <2>1, <2>4, ListedAppend
       DEF TypeOK, ThreadsKnown, ThreadsListedOnce, Sleeps, ThreadKinds
  <2>6. Known(t)'
    <3>1. \A k \in ThreadKinds, a \in Holders :
            Sleeps(t, k, a)' <=> k = "idle" /\ a = NULL
        BY <1>1, <2>1, <2>4, <2>5 DEF Sleeps, ThreadKinds
    <3>2. QED
        BY <1>1, <2>1, <3>1, ThreadArrives DEF ThreadKinds, TypeOK
  <2>7. ASSUME NEW u \in Threads, u # t PROVE Known(u)'
    <3>1. \A k \in ThreadKinds, a \in Holders :
            Sleeps(u, k, a)' <=> Sleeps(u, k, a)
        BY <1>1, <2>1, <2>5, <2>7 DEF Sleeps
    <3>2. QED
        BY <1>1, <2>1, <2>7, <3>1, ThreadStays DEF TypeOK, ThreadsKnown
  <2>8. ThreadsKnown'
    BY <1>1, <2>5, <2>6, <2>7 DEF ThreadsKnown, ThreadsListedOnce
  <2>9. CellsFilled'
    BY <1>1, <2>1 DEF TypeOK, CellsFilled, Filled
  <2>10. QED
    BY <2>2, <2>3, <2>8, <2>9
<1>3. CASE fiber_list # <<>>
  <2>1. PICK f \in Fibers : f = Head(fiber_list)
    BY <1>1, <1>3, PopTyped DEF TypeOK
  <2>2. /\ it' = [it EXCEPT ![t] = f]
        /\ fiber_list' = Tail(fiber_list)
        /\ pc' = [pc EXCEPT ![t] = "switch"]
        /\ UNCHANGED idle_thread_list
    BY <1>3, <2>1 DEF WorkThreadLoop, PopFiber
  <2>3. /\ pc'[t] = "switch" /\ it'[t] = f /\ running'[t] = t
        /\ \A b \in Agents : b # t => pc'[b] = pc[b] /\ it'[b] = it[b]
    BY <1>1, <2>2 DEF TypeOK, LoopSaved, ThreadLoop
  <2>4. Locals'
    BY <1>1, <2>3 DEF Locals, AgentLocals, HoldsFiber, HoldsThread
  <2>5. LoopSaved'
    BY <1>1, <2>3 DEF LoopSaved, ThreadLoop
  <2>6. FibersOwned'
    BY <1>1, <1>3, <2>1, <2>2, FiberPopped DEF TypeOK
  <2>7. ThreadsKnown'
    BY <1>1, <2>2, <2>3, ThreadsUntouched
  <2>8. CellsFilled'
    BY <1>1, <2>2 DEF TypeOK, CellsFilled, Filled
  <2>9. QED
    BY <2>4, <2>6, <2>7, <2>8, <2>5
<1>4. QED
    BY <1>2, <1>3

(* A thread that does not sleep is in nobody's hands.                      *)
LEMMA AwakeFree ==
    ASSUME ThreadsKnown, NEW t \in Threads, pc[t] # "wait"
    PROVE  /\ sem[t] = 0 /\ t \notin Range(idle_thread_list)
           /\ \A a \in Agents : th[a] # t /\ t \notin Range(tlist[a])
<1>1. \A k \in ThreadKinds, a \in Holders : ~Sleeps(t, k, a)
    BY DEF ThreadsKnown, Known
<1>2. ~Sleeps(t, "signal", NULL) /\ ~Sleeps(t, "idle", NULL)
    BY <1>1 DEF ThreadKinds, Holders
<1>3. \A a \in Agents : ~Sleeps(t, "th", a) /\ ~Sleeps(t, "tlist", a)
    BY <1>1 DEF ThreadKinds, Holders
<1>4. QED
    BY <1>2, <1>3 DEF Sleeps

LEMMA SemaphoreWaitOwn ==
    ASSUME OwnInv, TypeOK', NEW t \in Threads, SemaphoreWait(t)
    PROVE  (Locals /\ LoopSaved /\ FibersOwned /\ ThreadsKnown /\ CellsFilled)'
<1> USE Names DEF GoTo, queues, memory, contexts, lists
<1>1. /\ TypeOK /\ Locals /\ LoopSaved /\ FibersOwned /\ ThreadsKnown
      /\ CellsFilled
      /\ pc[t] = "wait" /\ it[t] = NULL /\ th[t] = NULL /\ t \in Agents
      /\ sem[t] > 0 /\ running[t] = t
      /\ sem' = [sem EXCEPT ![t] = @ - 1]
      /\ it' = [it EXCEPT ![t] = t]
      /\ pc' = [pc EXCEPT ![t] = "switch"]
      /\ UNCHANGED <<queues, memory, contexts, deferred, th, lists, parked>>
    BY DEF OwnInv, TypeInv, SemaphoreWait, Locals, AgentLocals, HoldsFiber,
           HoldsThread, LoopSaved, ThreadLoop
<1>2. /\ pc'[t] = "switch" /\ it'[t] = t /\ sem[t] = 1 /\ sem'[t] = 0
      /\ \A b \in Agents : b # t => pc'[b] = pc[b] /\ it'[b] = it[b]
      /\ \A u \in Threads : u # t => sem'[u] = sem[u]
    BY <1>1 DEF TypeOK, ThreadsKnown
<1>3. Locals'
    BY <1>1, <1>2 DEF Locals, AgentLocals, HoldsFiber, HoldsThread
<1>4. LoopSaved'
    BY <1>1, <1>2 DEF LoopSaved, ThreadLoop
<1>5. FibersOwned'
    BY <1>1, <1>2, FibersUntouched
<1>6. Known(t)'
  <2>1. Sleeps(t, "signal", NULL)
    BY <1>2 DEF Sleeps
  <2>2. \A k \in ThreadKinds, a \in Holders :
            Sleeps(t, k, a) <=> k = "signal" /\ a = NULL
    BY <1>1, <2>1, ThreadFound DEF ThreadKinds, Holders
  <2>3. \A k \in ThreadKinds, a \in Holders : ~Sleeps(t, k, a)'
    BY <1>1, <1>2, <2>2 DEF Sleeps
  <2>4. QED
    BY <1>2, <2>3 DEF Known
<1>7. ASSUME NEW u \in Threads, u # t PROVE Known(u)'
  <2>1. \A k \in ThreadKinds, a \in Holders : Sleeps(u, k, a)' <=> Sleeps(u, k, a)
    BY <1>1, <1>2, <1>7 DEF Sleeps
  <2>2. QED
    BY <1>1, <1>2, <1>7, <2>1, ThreadStays DEF ThreadsKnown
<1>8. ThreadsKnown'
    BY <1>1, <1>2, <1>6, <1>7 DEF ThreadsKnown, ThreadsListedOnce
<1>9. CellsFilled'
  <2>1. Filled(t) /\ Filled(t)'
    BY <1>1, <1>2 DEF Filled
  <2>2. ASSUME NEW u \in Threads, u # t PROVE Filled(u)' <=> Filled(u)
    BY <1>1, <1>2, <2>2 DEF Filled
  <2>3. QED
    BY <1>1, <2>1, <2>2 DEF CellsFilled
<1>10. QED
    BY <1>3, <1>4, <1>5, <1>8, <1>9

(* fiber_switch.  From the loop to the fiber f that the thread took out of *)
(* the run queue, or found in its struct; from the fiber f to the fiber g  *)
(* that it took, or to the loop.                                           *)
LEMMA FiberSwitchOwn ==
    ASSUME OwnInv, TypeOK', NEW t \in Threads, FiberSwitch(t)
    PROVE  (Locals /\ LoopSaved /\ FibersOwned /\ ThreadsKnown /\ CellsFilled)'
<1> USE Names DEF GoTo, queues, memory, lists, Holders
<1>1. /\ TypeOK /\ Registers /\ Locals /\ LoopSaved /\ FibersOwned
      /\ ThreadsKnown /\ CellsFilled
      /\ pc[t] = "switch" /\ th[t] = NULL /\ t \in Agents
      /\ it[t] \in Fibers \cup {t} /\ running[t] \in Fibers \cup {t}
      /\ running[t] \in Fibers <=> deferred[t] # "none"
      /\ flist[t] = <<>> /\ tlist[t] = <<>>
      /\ UNCHANGED <<queues, memory, sem, th, lists, parked>>
    BY DEF OwnInv, TypeInv, Registers, FiberSwitch, Locals, AgentLocals,
           HoldsFiber, HoldsThread, LoopSaved, ThreadLoop
<1>2. PICK in \in Contexts \cup {NULL} : in = stack_top[it[t]]
    BY <1>1 DEF TypeOK
<1>3. PICK out \in Contexts : out = running[t]
    BY <1>1
<1>4. /\ running' = [running EXCEPT ![t] = in]
      /\ stack_top' = [c \in Contexts |->
                          IF c = out THEN out
                          ELSE IF c = in /\ c \in Fibers THEN NULL
                          ELSE stack_top[c]]
      /\ deferred' = [deferred EXCEPT ![t] = "none"]
    BY <1>2, <1>3 DEF FiberSwitch
<1>5. running'[t] = in /\ \A u \in Threads : u # t => running'[u] = running[u]
    BY <1>1, <1>4 DEF TypeOK
<1>6. deferred'[t] = "none" /\ \A u \in Threads : u # t => deferred'[u] = deferred[u]
    BY <1>1, <1>4 DEF TypeOK
<1>7. sem[t] = 0 /\ \A a \in Agents : th[a] # t
    BY <1>1, AwakeFree
(* What all the cases have in common.                                      *)
<1>8. ASSUME NEW l \in {"user", "enqueue", "recycle", "release"},
             NEW r \in Contexts \cup {NULL},
             pc' = [pc EXCEPT ![t] = l], it' = [it EXCEPT ![t] = r],
             l # "user" <=> r # NULL, stack_top'[t] = t,
             in \in Fibers \cup {t}
      PROVE  Locals' /\ LoopSaved' /\ ThreadsKnown' /\ CellsFilled'
  <2>1. /\ pc'[t] = l /\ it'[t] = r
        /\ \A b \in Agents : b # t => pc'[b] = pc[b] /\ it'[b] = it[b]
    BY <1>1, <1>8 DEF TypeOK
  <2>2. \A u \in Threads : u # t => stack_top'[u] = stack_top[u]
    BY <1>1, <1>3, <1>4, <1>8
  <2>3. Locals'
    BY <1>1, <1>6, <1>8, <2>1 DEF Locals, AgentLocals, HoldsFiber, HoldsThread
  <2>4. LoopSaved'
    BY <1>1, <1>5, <1>6, <1>8, <2>1, <2>2 DEF LoopSaved, ThreadLoop
  <2>5. ThreadsKnown'
    BY <1>1, <1>8, <2>1, ThreadsUntouched
  <2>6. ~Filled(t)'
    BY <1>1, <1>7, <1>8, <2>1 DEF Filled
  <2>7. ASSUME NEW u \in Threads, u # t PROVE Filled(u)' <=> Filled(u)
    BY <1>1, <1>5, <1>8, <2>1, <2>7 DEF Filled
  <2>8. CellsFilled'
    BY <1>1, <1>8, <2>2, <2>6, <2>7 DEF CellsFilled
  <2>9. QED
    BY <2>3, <2>4, <2>5, <2>8
(* A fiber that takes no part.                                             *)
<1>9. ASSUME NEW g \in Fibers, g # in, g # out,
             it[t] # g, it'[t] # g, stack_top[t] # g, stack_top'[t] # g,
             \A b \in Agents : b # t => it'[b] = it[b],
             \A u \in Threads : u # t => stack_top'[u] = stack_top[u]
      PROVE  Owned(g)' /\ Saved(g)'
  <2>1. stack_top'[g] = stack_top[g]
    BY <1>4, <1>9
  <2>2. \A k \in Kinds, a \in Holders : Sits(g, k, a)' <=> Sits(g, k, a)
    BY <1>1, <1>3, <1>5, <1>9 DEF Sits
  <2>3. QED
    BY <1>1, <1>9, <2>1, <2>2, FiberStays DEF FibersOwned
<1>10. CASE running[t] = t
  <2>1. /\ it' = [it EXCEPT ![t] = NULL]
        /\ pc' = [pc EXCEPT ![t] = Resume(in)]
        /\ out = t
    BY <1>1, <1>2, <1>3, <1>10 DEF FiberSwitch
  <2>2. it'[t] = NULL /\ \A b \in Agents : b # t => it'[b] = it[b]
    BY <1>1, <2>1 DEF TypeOK
  <2>3. PICK k0 \in {"it", "cell"} : in \in Fibers /\ Sits(in, k0, t)
    <3>1. CASE it[t] \in Fibers
      <4>1. Sits(it[t], "it", t)
        BY <1>1 DEF Sits
      <4>2. PICK f \in Fibers : f = it[t]
        BY <3>1
      <4>3. stack_top[f] = f /\ Sits(f, "it", t)
        BY <1>1, <4>1, <4>2, FiberFound DEF Kinds
      <4>4. QED
        BY <1>2, <4>2, <4>3
    <3>2. CASE it[t] = t
      <4>1. Filled(t)
        BY <1>1, <1>10, <3>2 DEF Filled
      <4>2. in \in Fibers /\ Sits(in, "cell", t)
        BY <1>1, <1>2, <3>2, <4>1 DEF CellsFilled, Sits
      <4>3. QED
        BY <4>2
    <3>3. QED
        BY <1>1, <3>1, <3>2
  <2>4. /\ in \in fiber_pool \cup {MainFiber}
        /\ \A k \in Kinds, a \in Holders : Sits(in, k, a) <=> k = k0 /\ a = t
    BY <1>1, <2>3, FiberFound DEF Kinds
  <2>5. /\ stack_top'[t] = t
        /\ \A u \in Threads : u # t => stack_top'[u] = stack_top[u]
    BY <1>4, <2>1, <2>3
  <2>6. Locals' /\ LoopSaved' /\ ThreadsKnown' /\ CellsFilled'
    BY <1>8, <2>1, <2>3, <2>5 DEF Resume
  <2>7. Owned(in)' /\ Saved(in)'
    <3>1. /\ \A b \in Agents : b # t => it[b] # in
          /\ \A u \in Threads : u # t => stack_top[u] # in
          /\ \A u \in Threads : u # t => running[u] # in
          /\ \A k \in {"queue", "disposed", "parked"} : ~Sits(in, k, NULL)
          /\ \A a \in Agents : ~Sits(in, "list", a)
        BY <2>3, <2>4 DEF Sits, Kinds
    <3>2. ASSUME NEW k \in Kinds, NEW a \in Holders
          PROVE  Sits(in, k, a)' <=> k = "running" /\ a = t
        BY <1>1, <1>5, <2>2, <2>3, <2>5, <3>1 DEF Sits, Kinds
    <3>3. QED
        BY <1>1, <2>3, <2>4, <3>2, FiberArrives DEF Kinds
  <2>8. ASSUME NEW g \in Fibers, g # in PROVE Owned(g)' /\ Saved(g)'
    <3>1. it[t] # g /\ stack_top[t] # g
      <4>1. CASE it[t] = t
        BY <1>2, <2>8, <4>1
      <4>2. CASE it[t] \in Fibers
        <5>1. PICK f \in Fibers : f = it[t]
            BY <4>2
        <5>2. Sits(f, "it", t)
            BY <1>1, <5>1 DEF Sits
        <5>3. f = in
            BY <1>1, <1>2, <5>1, <5>2, FiberFound DEF Kinds
        <5>4. ~Filled(t)
            BY <1>1, <1>7, <4>2 DEF Filled
        <5>5. QED
            BY <1>1, <2>8, <5>1, <5>3, <5>4 DEF CellsFilled
      <4>3. QED
        BY <1>1, <4>1, <4>2
    <3>2. QED
        BY <1>9, <2>1, <2>2, <2>5, <2>8, <3>1
  <2>9. FibersOwned'
    BY <1>1, <2>7, <2>8 DEF FibersOwned, ListedOnce
  <2>10. QED
    BY <2>6, <2>9
<1>11. CASE running[t] \in Fibers
  <2>1. /\ it' = [it EXCEPT ![t] = out] /\ out \in Fibers
        /\ pc' = [pc EXCEPT ![t] = deferred[t]]
        /\ deferred[t] \in {"enqueue", "recycle", "release"}
        /\ stack_top[t] = t
    BY <1>1, <1>3, <1>11 DEF FiberSwitch, TypeOK, Deferrals, LoopSaved, ThreadLoop
  <2>2. it'[t] = out /\ \A b \in Agents : b # t => it'[b] = it[b]
    BY <1>1, <2>1 DEF TypeOK
  <2>3. Sits(out, "running", t)
    BY <1>3 DEF Sits
  <2>4. /\ out \in fiber_pool \cup {MainFiber}
        /\ \A k \in Kinds, a \in Holders :
                Sits(out, k, a) <=> k = "running" /\ a = t
    BY <1>1, <2>1, <2>3, FiberFound DEF Kinds
  <2>5. it[t] # out
    <3>1. ~Sits(out, "it", t)
        BY <2>4 DEF Kinds
    <3>2. QED
        BY <1>1, <3>1 DEF Sits
  <2>6. it[t] \in Fibers => in = it[t] /\ Sits(in, "it", t)
    <3>1. SUFFICES ASSUME NEW f \in Fibers, f = it[t]
                   PROVE  in = f /\ Sits(f, "it", t)
        OBVIOUS
    <3>2. Sits(f, "it", t)
        BY <1>1, <3>1 DEF Sits
    <3>3. stack_top[f] = f
        BY <1>1, <3>2, FiberFound DEF Kinds
    <3>4. QED
        BY <1>2, <3>1, <3>2, <3>3
  <2>7. it[t] = t => in = t
    BY <1>2, <2>1
  <2>8. /\ in \in Fibers \cup {t} /\ in # out /\ stack_top'[t] = t
        /\ \A u \in Threads : u # t => stack_top'[u] = stack_top[u]
        /\ stack_top'[out] = out
    BY <1>1, <1>4, <2>1, <2>5, <2>6, <2>7
  <2>9. Locals' /\ LoopSaved' /\ ThreadsKnown' /\ CellsFilled'
    BY <1>8, <2>1, <2>8
  <2>10. Owned(out)' /\ Saved(out)'
    <3>1. /\ \A b \in Agents : it[b] # out
          /\ \A u \in Threads : stack_top[u] # out
          /\ \A u \in Threads : u # t => running[u] # out
          /\ \A k \in {"queue", "disposed", "parked"} : ~Sits(out, k, NULL)
          /\ \A a \in Agents : ~Sits(out, "list", a)
        BY <2>4 DEF Sits, Kinds
    <3>2. ASSUME NEW k \in Kinds, NEW a \in Holders
          PROVE  Sits(out, k, a)' <=> k = "it" /\ a = t
        BY <1>1, <1>5, <2>1, <2>2, <2>8, <3>1 DEF Sits, Kinds
    <3>3. QED
        BY <1>1, <2>1, <2>4, <2>8, <3>2, FiberArrives DEF Kinds
  <2>11. ASSUME in \in Fibers PROVE Owned(in)' /\ Saved(in)'
    <3>0. Sits(in, "it", t)
        BY <1>1, <2>6, <2>7, <2>11
    <3>1. /\ in \in fiber_pool \cup {MainFiber}
          /\ \A k \in Kinds, a \in Holders : Sits(in, k, a) <=> k = "it" /\ a = t
        BY <1>1, <2>11, <3>0, FiberFound DEF Kinds
    <3>2. /\ \A b \in Agents : b # t => it[b] # in
          /\ \A u \in Threads : stack_top[u] # in
          /\ \A u \in Threads : u # t => running[u] # in
          /\ \A k \in {"queue", "disposed", "parked"} : ~Sits(in, k, NULL)
          /\ \A a \in Agents : ~Sits(in, "list", a)
        BY <3>1 DEF Sits, Kinds
    <3>3. ASSUME NEW k \in Kinds, NEW a \in Holders
          PROVE  Sits(in, k, a)' <=> k = "running" /\ a = t
        BY <1>1, <1>5, <2>2, <2>8, <2>11, <3>2 DEF Sits, Kinds
    <3>4. QED
        BY <1>1, <2>11, <3>1, <3>3, FiberArrives DEF Kinds
  <2>12. ASSUME NEW g \in Fibers, g # in, g # out PROVE Owned(g)' /\ Saved(g)'
    BY <1>1, <1>9, <2>1, <2>2, <2>6, <2>8, <2>12
  <2>13. FibersOwned'
    BY <1>1, <2>10, <2>11, <2>12 DEF FibersOwned, ListedOnce
  <2>14. QED
    BY <2>9, <2>13
<1>12. QED
    BY <1>1, <1>10, <1>11

(* The fibers S go to the place of kind k of holder h, the others stay.    *)
FibersGo(S, k, h) ==
    /\ \A f \in S :
          /\ \A k2 \in Kinds, a2 \in Holders :
                Sits(f, k2, a2)' <=> k2 = k /\ a2 = h
          /\ f \in fiber_pool' \cup {MainFiber}
          /\ k = "running" \/ stack_top'[f] = f
    /\ \A f \in Fibers \ S :
          /\ \A k2 \in Kinds, a2 \in Holders :
                Sits(f, k2, a2)' <=> Sits(f, k2, a2)
          /\ f \in fiber_pool' <=> f \in fiber_pool
          /\ stack_top'[f] = stack_top[f]

LEMMA FibersMove ==
    ASSUME FibersOwned, ListedOnce', NEW S, NEW k \in Kinds, NEW h \in Holders,
           FibersGo(S, k, h)
    PROVE  FibersOwned'
<1>1. ASSUME NEW f \in Fibers, f \in S PROVE Owned(f)' /\ Saved(f)'
    BY <1>1, FiberArrives DEF FibersGo
<1>2. ASSUME NEW f \in Fibers, f \notin S PROVE Owned(f)' /\ Saved(f)'
    BY <1>2, FiberStays DEF FibersGo, FibersOwned
<1>3. QED
    BY <1>1, <1>2 DEF FibersOwned

(* The sleeping threads S go to the place of kind k of holder h.           *)
ThreadsGo(S, k, h) ==
    /\ \A t \in S :
          /\ \A k2 \in ThreadKinds, a2 \in Holders :
                Sleeps(t, k2, a2)' <=> k2 = k /\ a2 = h
          /\ pc'[t] = "wait"
    /\ \A t \in Threads \ S :
          \A k2 \in ThreadKinds, a2 \in Holders :
              Sleeps(t, k2, a2)' <=> Sleeps(t, k2, a2)
    /\ \A t \in Threads : pc'[t] = "wait" <=> pc[t] = "wait"
    /\ \A t \in Threads : sem'[t] \in {0, 1}

LEMMA ThreadsMove ==
    ASSUME ThreadsKnown, ThreadsListedOnce', NEW S, NEW k \in ThreadKinds,
           NEW h \in Holders, ThreadsGo(S, k, h)
    PROVE  ThreadsKnown'
<1>1. ASSUME NEW t \in Threads, t \in S PROVE Known(t)'
    BY <1>1, ThreadArrives DEF ThreadsGo
<1>2. ASSUME NEW t \in Threads, t \notin S PROVE Known(t)'
    BY <1>2, ThreadStays DEF ThreadsGo, ThreadsKnown
<1>3. QED
    BY <1>1, <1>2 DEF ThreadsKnown, ThreadsGo

(* enqueue_fiber, recycle_fiber_pair and the release of a wait list's lock *)
(* put the fiber that the thread holds into a list and return.             *)
LEMMA HeldFiber ==
    ASSUME OwnInv, NEW t \in Threads, HoldsFiber(t)
    PROVE  \E f \in Fibers :
               /\ f = it[t] /\ stack_top[f] = f
               /\ f \in fiber_pool \cup {MainFiber}
               /\ \A k \in Kinds, a \in Holders : Sits(f, k, a) <=> k = "it" /\ a = t
<1>1. PICK f \in Fibers : f = it[t]
    BY Names DEF OwnInv, TypeInv, Registers, HoldsFiber
<1>2. Sits(f, "it", t) /\ t \in Holders
    BY <1>1, Names DEF Sits, Holders
<1>3. QED
    BY <1>1, <1>2, FiberFound DEF OwnInv, Kinds

LEMMA FiberListed ==
    ASSUME OwnInv, TypeOK', NEW t \in Threads,
           pc[t] \in {"enqueue", "recycle", "release"},
           NEW f \in Fibers, f = it[t],
           it' = [it EXCEPT ![t] = NULL],
           pc' = [pc EXCEPT ![t] = ReturnLabel(t)],
           NEW k \in {"queue", "disposed", "parked"},
           fiber_list' = IF k = "queue" THEN Append(fiber_list, f) ELSE fiber_list,
           disposed_fiber_list' = IF k = "disposed"
                                  THEN Append(disposed_fiber_list, f)
                                  ELSE disposed_fiber_list,
           parked' = IF k = "parked" THEN parked \cup {f} ELSE parked,
           UNCHANGED <<idle_thread_list, fiber_pool, contexts, sem, deferred,
                       th, lists>>
    PROVE  (Locals /\ LoopSaved /\ FibersOwned /\ ThreadsKnown /\ CellsFilled)'
<1> USE Names DEF contexts, lists, Holders
<1>1. /\ TypeOK /\ Locals /\ LoopSaved /\ FibersOwned /\ ThreadsKnown
      /\ CellsFilled /\ th[t] = NULL /\ t \in Agents
      /\ flist[t] = <<>> /\ tlist[t] = <<>>
    BY DEF OwnInv, TypeInv, Locals, AgentLocals, HoldsThread
<1>2. /\ stack_top[f] = f /\ f \in fiber_pool \cup {MainFiber}
      /\ \A k2 \in Kinds, a2 \in Holders : Sits(f, k2, a2) <=> k2 = "it" /\ a2 = t
    BY HeldFiber DEF HoldsFiber
<1>3. /\ pc'[t] = ReturnLabel(t) /\ it'[t] = NULL
      /\ \A b \in Agents : b # t => pc'[b] = pc[b] /\ it'[b] = it[b]
    BY <1>1 DEF TypeOK
<1>4. /\ ReturnLabel(t) \in {"user", "loop"}
      /\ ReturnLabel(t) = "loop" => running[t] = t
    BY <1>1, ReturnsTo
<1>5. Locals'
    BY <1>1, <1>3, <1>4 DEF Locals, AgentLocals, HoldsFiber, HoldsThread
<1>6. LoopSaved'
    BY <1>1, <1>3, <1>4 DEF LoopSaved, ThreadLoop
<1>7. /\ Range(fiber_list') =
            IF k = "queue" THEN Range(fiber_list) \cup {f} ELSE Range(fiber_list)
      /\ Range(disposed_fiber_list') =
            IF k = "disposed" THEN Range(disposed_fiber_list) \cup {f}
                              ELSE Range(disposed_fiber_list)
      /\ ListedOnce'
  <2>1. f \notin Range(fiber_list) /\ f \notin Range(disposed_fiber_list)
    <3>1. ~Sits(f, "queue", NULL) /\ ~Sits(f, "disposed", NULL)
        BY <1>2 DEF Kinds
    <3>2. QED
        BY <3>1 DEF Sits
  <2>2. /\ Range(Append(fiber_list, f)) = Range(fiber_list) \cup {f}
        /\ Range(Append(disposed_fiber_list, f)) =
                Range(disposed_fiber_list) \cup {f}
        /\ IsInjective(Append(fiber_list, f))
        /\ IsInjective(Append(disposed_fiber_list, f))
    BY <1>1, <2>1, ListedAppend DEF TypeOK, FibersOwned, ListedOnce
  <2>3. QED
    BY <1>1, <2>2 DEF FibersOwned, ListedOnce
<1>8. FibersOwned'
  <2>1. /\ \A b \in Agents : b # t => it[b] # f
        /\ \A u \in Threads : stack_top[u] # f /\ running[u] # f
        /\ f \notin Range(fiber_list) /\ f \notin Range(disposed_fiber_list)
        /\ f \notin parked /\ \A a \in Agents : f \notin Range(flist[a])
    BY <1>2 DEF Sits, Kinds
  <2>2. ASSUME NEW k2 \in Kinds, NEW a2 \in Holders
        PROVE  Sits(f, k2, a2)' <=> k2 = k /\ a2 = NULL
    BY <1>1, <1>3, <1>7, <2>1 DEF Sits, Kinds
  <2>3. ASSUME NEW g \in Fibers, g # f, NEW k2 \in Kinds, NEW a2 \in Holders
        PROVE  Sits(g, k2, a2)' <=> Sits(g, k2, a2)
    BY <1>1, <1>3, <1>7, <2>3 DEF Sits
  <2>4. k \in Kinds /\ NULL \in Holders
    BY DEF Kinds
  <2>5. QED
    <3>1. FibersGo({f}, k, NULL)
        BY <1>1, <1>2, <2>2, <2>3 DEF FibersGo
    <3>2. QED
        BY <1>1, <1>7, <2>4, <3>1, FibersMove
<1>9. ThreadsKnown'
    BY <1>1, <1>3, <1>4, ThreadsUntouched
<1>10. CellsFilled'
    BY <1>1, <1>3, <1>4 DEF CellsFilled, Filled
<1>11. QED
    BY <1>5, <1>6, <1>8, <1>9, <1>10

LEMMA RecycleOrReleaseOwn ==
    ASSUME OwnInv, TypeOK', NEW t \in Threads, RecycleFiber(t) \/ Release(t)
    PROVE  (Locals /\ LoopSaved /\ FibersOwned /\ ThreadsKnown /\ CellsFilled)'
<1> USE DEF Return, GoTo, queues, memory
<1>1. CASE RecycleFiber(t)
  <2>1. PICK f \in Fibers : f = it[t]
    BY <1>1, HeldFiber DEF RecycleFiber, HoldsFiber
  <2>2. QED
    BY <1>1, <2>1, FiberListed, "disposed" \in {"queue", "disposed", "parked"}
       DEF RecycleFiber
<1>2. CASE Release(t)
  <2>1. PICK f \in Fibers : f = it[t]
    BY <1>2, HeldFiber DEF Release, HoldsFiber
  <2>2. QED
    BY <1>2, <2>1, FiberListed, "parked" \in {"queue", "disposed", "parked"}
       DEF Release
<1>3. QED
    BY <1>1, <1>2

LEMMA EnqueueFiberOwn ==
    ASSUME OwnInv, TypeOK', NEW t \in Threads, EnqueueFiber(t)
    PROVE  (Locals /\ LoopSaved /\ FibersOwned /\ ThreadsKnown /\ CellsFilled)'
<1> USE Names DEF GoTo, memory, contexts, lists, Holders
<1>1. CASE idle_thread_list = <<>>
  <2>1. PICK f \in Fibers : f = it[t]
    BY HeldFiber DEF EnqueueFiber, HoldsFiber
  <2>2. QED
    BY <1>1, <2>1, FiberListed, "queue" \in {"queue", "disposed", "parked"}
       DEF EnqueueFiber, Return
<1>2. CASE idle_thread_list # <<>>
  <2>1. /\ TypeOK /\ Locals /\ LoopSaved /\ FibersOwned /\ ThreadsKnown
        /\ CellsFilled /\ t \in Agents
    BY DEF OwnInv, TypeInv
  <2>2. PICK u \in Threads : u = Head(idle_thread_list)
    BY <1>2, <2>1, PopTyped DEF TypeOK
  <2>3. /\ pc[t] = "enqueue" /\ th[t] = NULL
        /\ th' = [th EXCEPT ![t] = u]
        /\ idle_thread_list' = Tail(idle_thread_list)
        /\ pc' = [pc EXCEPT ![t] = "handover"]
        /\ UNCHANGED <<fiber_list, it, memory, contexts, sem, deferred, lists,
                       parked>>
    BY <1>2, <2>1, <2>2
       DEF EnqueueFiber, Locals, AgentLocals, HoldsThread
  <2>4. /\ pc'[t] = "handover" /\ th'[t] = u
        /\ \A b \in Agents : b # t => pc'[b] = pc[b] /\ th'[b] = th[b]
    BY <2>1, <2>3 DEF TypeOK
  <2>5. /\ u \in Range(idle_thread_list)
        /\ Range(idle_thread_list') = Range(idle_thread_list) \ {u}
        /\ IsInjective(idle_thread_list')
    BY <1>2, <2>1, <2>2, <2>3, ListedPop
       DEF TypeOK, ThreadsKnown, ThreadsListedOnce
  <2>6. Sits(it[t], "it", t)
    BY <2>1 DEF Sits
  <2>7. /\ pc[u] = "wait"
        /\ \A k \in ThreadKinds, a \in Holders :
                Sleeps(u, k, a) <=> k = "idle" /\ a = NULL
    <3>1. Sleeps(u, "idle", NULL)
        BY <2>5 DEF Sleeps
    <3>2. QED
        BY <2>1, <3>1, ThreadFound DEF ThreadKinds
  <2>8. Locals'
    BY <2>1, <2>3, <2>4 DEF Locals, AgentLocals, HoldsFiber, HoldsThread
  <2>9. LoopSaved'
    BY <2>1, <2>3, <2>4 DEF LoopSaved, ThreadLoop
  <2>10. FibersOwned'
    BY <2>1, <2>3, FibersUntouched
  <2>11. ThreadsKnown'
    <3>1. \A a \in Agents : th[a] # u /\ u \notin Range(tlist[a])
        BY <2>7 DEF Sleeps, ThreadKinds
    <3>2. sem[u] = 0
        BY <2>7 DEF Sleeps, ThreadKinds
    <3>3. ASSUME NEW k \in ThreadKinds, NEW a \in Holders
          PROVE  Sleeps(u, k, a)' <=> k = "th" /\ a = t
        BY <2>1, <2>3, <2>4, <2>5, <3>1, <3>2 DEF Sleeps, ThreadKinds
    <3>4. ASSUME NEW v \in Threads, v # u, NEW k \in ThreadKinds, NEW a \in Holders
          PROVE  Sleeps(v, k, a)' <=> Sleeps(v, k, a)
        BY <2>1, <2>3, <2>4, <2>5, <3>4 DEF Sleeps
    <3>5. /\ "th" \in ThreadKinds /\ ThreadsListedOnce' /\ pc'[u] = "wait"
          /\ \A v \in Threads : pc'[v] = "wait" <=> pc[v] = "wait"
          /\ \A v \in Threads : sem'[v] \in {0, 1}
        BY <2>1, <2>3, <2>4, <2>5, <2>7
           DEF ThreadKinds, ThreadsListedOnce, ThreadsKnown
    <3>6. QED
        <4>1. ThreadsGo({u}, "th", t)
            BY <3>3, <3>4, <3>5 DEF ThreadsGo
        <4>2. QED
            BY <2>1, <3>5, <4>1, ThreadsMove
  <2>12. CellsFilled'
    BY <2>1, <2>3, <2>4 DEF CellsFilled, Filled
  <2>13. QED
    BY <2>8, <2>9, <2>10, <2>11, <2>12
<1>3. QED
    BY <1>1, <1>2

(* The idle thread that a dealer took has no fiber in its struct yet.      *)
LEMMA TakenThread ==
    ASSUME OwnInv, NEW a \in Agents, NEW u \in Threads,
           \/ pc[a] = "handover" /\ th[a] = u
           \/ u \in Range(tlist[a])
    PROVE  pc[u] = "wait" /\ running[u] = u /\ stack_top[u] \notin Fibers
<1>1. PICK k \in {"th", "tlist"} :
        Sleeps(u, k, a) /\ (k = "th" => pc[a] = "handover")
    BY DEF Sleeps
<1>2. /\ pc[u] = "wait"
      /\ \A k2 \in ThreadKinds, a2 \in Holders :
            Sleeps(u, k2, a2) <=> k2 = k /\ a2 = a
    BY <1>1, ThreadFound DEF OwnInv, ThreadKinds, Holders
<1>3. sem[u] = 0
    BY <1>2 DEF Sleeps, ThreadKinds, Holders
<1>4. \A b \in Agents : th[b] = u => pc[b] = "handover"
    BY <1>1, <1>2 DEF Sleeps, ThreadKinds, Holders
<1>5. QED
    BY <1>2, <1>3, <1>4
       DEF OwnInv, CellsFilled, Filled, LoopSaved, ThreadLoop

LEMMA HandoverOwn ==
    ASSUME OwnInv, TypeOK', NEW t \in Threads, Handover(t)
    PROVE  (Locals /\ LoopSaved /\ FibersOwned /\ ThreadsKnown /\ CellsFilled)'
<1> USE Names DEF GoTo, queues, memory, lists, Holders
<1>1. /\ TypeOK /\ Locals /\ LoopSaved /\ FibersOwned /\ ThreadsKnown
      /\ CellsFilled /\ t \in Agents
      /\ pc[t] = "handover" /\ HoldsFiber(t) /\ HoldsThread(t)
      /\ th[t] \in Threads
      /\ it' = [it EXCEPT ![t] = NULL]
      /\ pc' = [pc EXCEPT ![t] = "signal"]
      /\ UNCHANGED <<queues, memory, running, sem, deferred, th, lists, parked>>
    BY DEF OwnInv, TypeInv, Registers, Handover, HoldsFiber, HoldsThread
<1>2. PICK f \in Fibers :
        /\ f = it[t] /\ stack_top[f] = f
        /\ f \in fiber_pool \cup {MainFiber}
        /\ \A k \in Kinds, a \in Holders : Sits(f, k, a) <=> k = "it" /\ a = t
    BY <1>1, HeldFiber
<1>3. PICK u \in Threads : u = th[t]
    BY <1>1
<1>4. pc[u] = "wait" /\ running[u] = u /\ stack_top[u] \notin Fibers /\ u # t
    BY <1>1, <1>3, TakenThread
<1>5. stack_top' = [stack_top EXCEPT ![u] = f]
    BY <1>2, <1>3 DEF Handover
<1>6. /\ stack_top'[u] = f
      /\ \A c \in Contexts : c # u => stack_top'[c] = stack_top[c]
      /\ pc'[t] = "signal" /\ it'[t] = NULL
      /\ \A b \in Agents : b # t => pc'[b] = pc[b] /\ it'[b] = it[b]
    BY <1>1, <1>5 DEF TypeOK
<1>7. Locals'
    BY <1>1, <1>6 DEF Locals, AgentLocals, HoldsFiber, HoldsThread
<1>8. LoopSaved'
    BY <1>1, <1>4, <1>6 DEF LoopSaved, ThreadLoop
<1>9. FibersOwned'
  <2>1. /\ \A b \in Agents : b # t => it[b] # f
        /\ \A v \in Threads : stack_top[v] # f /\ running[v] # f
        /\ f \notin Range(fiber_list) /\ f \notin Range(disposed_fiber_list)
        /\ f \notin parked /\ \A a \in Agents : f \notin Range(flist[a])
    BY <1>2 DEF Sits, Kinds
  <2>2. ASSUME NEW k \in Kinds, NEW a \in Holders
        PROVE  Sits(f, k, a)' <=> k = "cell" /\ a = u
    BY <1>1, <1>6, <2>1 DEF Sits, Kinds
  <2>3. ASSUME NEW g \in Fibers, g # f, NEW k \in Kinds, NEW a \in Holders
        PROVE  Sits(g, k, a)' <=> Sits(g, k, a)
    BY <1>1, <1>2, <1>4, <1>6, <2>3 DEF Sits
  <2>4. /\ "cell" \in Kinds /\ u \in Holders /\ ListedOnce'
        /\ stack_top'[f] = f
        /\ \A g \in Fibers : stack_top'[g] = stack_top[g]
    BY <1>1, <1>2, <1>6 DEF Kinds, FibersOwned, ListedOnce
  <2>5. QED
    <3>1. FibersGo({f}, "cell", u)
        BY <1>1, <1>2, <2>2, <2>3, <2>4 DEF FibersGo
    <3>2. QED
        BY <1>1, <2>4, <3>1, FibersMove
<1>10. ThreadsKnown'
    BY <1>1, <1>6, ThreadsUntouched
<1>11. CellsFilled'
  <2>1. Filled(u)'
    BY <1>1, <1>3, <1>6 DEF Filled
  <2>2. ASSUME NEW v \in Threads, v # u PROVE Filled(v)' <=> Filled(v)
    BY <1>1, <1>3, <1>6, <2>2 DEF Filled
  <2>3. QED
    BY <1>1, <1>6, <2>1, <2>2 DEF CellsFilled
<1>12. QED
    BY <1>7, <1>8, <1>9, <1>10, <1>11

(* The signal of enqueue_fiber, and the one of enqueue_fiber_list.         *)
LEMMA SignalOwn ==
    ASSUME OwnInv, TypeOK', NEW a \in Agents, Signal(a) \/ DealSignal(a)
    PROVE  (Locals /\ LoopSaved /\ FibersOwned /\ ThreadsKnown /\ CellsFilled)'
<1> USE Names DEF GoTo, queues, memory, contexts, lists, Holders
<1>1. PICK l \in {"user", "loop", "timer", "deal"} :
        /\ l = IF pc[a] = "signal" THEN ReturnLabel(a) ELSE "deal"
        /\ pc[a] \in {"signal", "dealsignal"}
        /\ pc' = [pc EXCEPT ![a] = l]
    BY ReturnsTo DEF Signal, DealSignal, Return
<1>2. /\ TypeOK /\ Locals /\ LoopSaved /\ FibersOwned /\ ThreadsKnown
      /\ CellsFilled /\ it[a] = NULL /\ th[a] \in Threads
      /\ pc[a] = "signal" => flist[a] = <<>> /\ tlist[a] = <<>>
      /\ UNCHANGED <<queues, memory, contexts, it, deferred, lists, parked>>
    BY <1>1 DEF OwnInv, TypeInv, Registers, Signal, DealSignal, Locals,
                AgentLocals, HoldsFiber
<1>3. PICK u \in Threads : u = th[a]
    BY <1>2
<1>4. /\ pc[u] = "wait" /\ u # a
      /\ \A k \in ThreadKinds, b \in Holders : Sleeps(u, k, b) <=> k = "th" /\ b = a
  <2>1. Sleeps(u, "th", a)
    BY <1>3 DEF Sleeps
  <2>2. QED
    BY <1>1, <1>2, <2>1, ThreadFound DEF ThreadKinds
<1>5. /\ sem' = [sem EXCEPT ![u] = @ + 1]
      /\ th' = [th EXCEPT ![a] = NULL]
    BY <1>3 DEF Signal, DealSignal
<1>6. sem[u] = 0
    BY <1>4 DEF Sleeps, ThreadKinds
<1>7. /\ sem'[u] = 1 /\ \A v \in Threads : v # u => sem'[v] = sem[v]
      /\ pc'[a] = l /\ th'[a] = NULL
      /\ \A b \in Agents : b # a => pc'[b] = pc[b] /\ th'[b] = th[b]
    BY <1>1, <1>2, <1>5, <1>6 DEF TypeOK
<1>8. Locals'
    BY <1>1, <1>2, <1>7, ReturnsTo DEF Locals, AgentLocals, HoldsFiber, HoldsThread
<1>9. LoopSaved'
    BY <1>1, <1>2, <1>7, ReturnsTo DEF LoopSaved, ThreadLoop
<1>10. FibersOwned'
    BY <1>2, FibersUntouched
<1>11. ThreadsKnown'
  <2>1. ASSUME NEW k \in ThreadKinds, NEW b \in Holders
        PROVE  Sleeps(u, k, b)' <=> k = "signal" /\ b = NULL
    <3>1. /\ \A c \in Agents : c # a => th[c] # u
          /\ \A c \in Agents : u \notin Range(tlist[c])
          /\ u \notin Range(idle_thread_list)
        BY <1>4 DEF Sleeps, ThreadKinds
    <3>2. QED
        BY <1>2, <1>7, <3>1 DEF Sleeps, ThreadKinds
  <2>2. ASSUME NEW v \in Threads, v # u, NEW k \in ThreadKinds, NEW b \in Holders
        PROVE  Sleeps(v, k, b)' <=> Sleeps(v, k, b)
    BY <1>2, <1>3, <1>7, <2>2 DEF Sleeps
  <2>3. /\ "signal" \in ThreadKinds /\ ThreadsListedOnce'
        /\ \A v \in Threads : pc'[v] = "wait" <=> pc[v] = "wait"
        /\ \A v \in Threads : sem'[v] \in {0, 1}
    BY <1>1, <1>2, <1>7 DEF ThreadKinds, ThreadsListedOnce, ThreadsKnown
  <2>4. QED
    <3>1. ThreadsGo({u}, "signal", NULL)
        BY <1>1, <1>2, <1>4, <1>7, <2>1, <2>2, <2>3 DEF ThreadsGo
    <3>2. QED
        BY <1>2, <2>3, <3>1, ThreadsMove
<1>12. CellsFilled'
  <2>1. Filled(u) /\ Filled(u)'
    BY <1>1, <1>3, <1>7 DEF Filled
  <2>2. ASSUME NEW v \in Threads, v # u PROVE Filled(v)' <=> Filled(v)
    BY <1>1, <1>2, <1>3, <1>7, <2>2 DEF Filled
  <2>3. QED
    BY <1>2, <2>1, <2>2 DEF CellsFilled
<1>13. QED
    BY <1>8, <1>9, <1>10, <1>11, <1>12

-----------------------------------------------------------------------------
(* enqueue_fiber_list, which moves whole lists.                            *)

(* What its steps on lists have in common.                                 *)
ListMove(a, l) ==
    /\ pc' = [pc EXCEPT ![a] = l]
    /\ flist'[a] # <<>> => l \in {"list", "deal"}
    /\ tlist'[a] # <<>> => l = "deal"
    /\ \A b \in Agents : b # a => flist'[b] = flist[b] /\ tlist'[b] = tlist[b]
    /\ UNCHANGED <<contexts, sem, it, deferred, th>>

LEMMA ListFrame ==
    ASSUME OwnInv, TypeOK', NEW a \in Agents,
           pc[a] \in {"list", "deal", "user", "timer"},
           NEW l \in {"list", "deal", ReturnLabel(a)},
           ListMove(a, l)
    PROVE  /\ Locals' /\ LoopSaved' /\ CellsFilled'
           /\ \A u \in Threads : pc'[u] = "wait" <=> pc[u] = "wait"
<1> USE Names DEF contexts, ListMove
<1>1. /\ TypeOK /\ Locals /\ LoopSaved /\ CellsFilled
      /\ it[a] = NULL /\ th[a] = NULL
    BY DEF OwnInv, TypeInv, Locals, AgentLocals, HoldsFiber, HoldsThread
<1>2. pc'[a] = l /\ \A b \in Agents : b # a => pc'[b] = pc[b]
    BY <1>1 DEF TypeOK
<1>3. /\ l \in {"list", "deal", "user", "loop", "timer"}
      /\ a = TimerThread => l \in {"list", "deal", "timer"}
      /\ a \in Threads /\ l = "loop" => running[a] = a
    BY ReturnsTo
<1>4. Locals'
    BY <1>1, <1>2, <1>3 DEF Locals, AgentLocals, HoldsFiber, HoldsThread
<1>5. LoopSaved'
    BY <1>1, <1>2, <1>3 DEF LoopSaved, ThreadLoop
<1>6. CellsFilled'
    BY <1>1, <1>2, <1>3 DEF CellsFilled, Filled
<1>7. QED
    BY <1>2, <1>3, <1>4, <1>5, <1>6

(* The fibers of the local list go into the run queue, the idle threads    *)
(* into the other local list.                                              *)
LEMMA ListEnqueueOwn ==
    ASSUME OwnInv, TypeOK', NEW a \in Agents, ListEnqueue(a)
    PROVE  (Locals /\ LoopSaved /\ FibersOwned /\ ThreadsKnown /\ CellsFilled)'
<1> USE Names DEF GoTo, Return, queues, memory, contexts, lists
<1>0. Holders = Agents \cup {NULL} /\ a \in Holders /\ NULL \in Holders
    BY DEF Holders
<1>1. /\ TypeOK /\ FibersOwned /\ ThreadsKnown
      /\ pc[a] = "list" /\ tlist[a] = <<>>
      /\ UNCHANGED <<memory, contexts, sem, it, deferred, th, parked>>
    BY DEF OwnInv, TypeInv, ListEnqueue, Locals, AgentLocals
<1>2. CASE flist[a] = <<>>
  <2>1. UNCHANGED <<queues, lists>> /\ pc' = [pc EXCEPT ![a] = ReturnLabel(a)]
    BY <1>2 DEF ListEnqueue
  <2>2. /\ Locals' /\ LoopSaved' /\ CellsFilled'
        /\ \A u \in Threads : pc'[u] = "wait" <=> pc[u] = "wait"
    <3>1. ListMove(a, ReturnLabel(a))
        BY <1>1, <1>2, <2>1 DEF ListMove
    <3>2. QED
        BY <1>1, <1>2, <2>1, <3>1, ListFrame
  <2>3. QED
    BY <1>1, <2>1, <2>2, FibersUntouched, ThreadsUntouched
<1>3. CASE flist[a] # <<>> /\ idle_thread_list = <<>>
  <2>1. /\ fiber_list' = fiber_list \o flist[a]
        /\ flist' = [flist EXCEPT ![a] = <<>>]
        /\ pc' = [pc EXCEPT ![a] = ReturnLabel(a)]
        /\ UNCHANGED <<idle_thread_list, tlist>>
    BY <1>3 DEF ListEnqueue
  <2>2. flist'[a] = <<>> /\ \A b \in Agents : b # a => flist'[b] = flist[b]
    BY <1>1, <2>1 DEF TypeOK
  <2>3. /\ Locals' /\ LoopSaved' /\ CellsFilled'
        /\ \A u \in Threads : pc'[u] = "wait" <=> pc[u] = "wait"
    <3>1. ListMove(a, ReturnLabel(a))
        BY <1>1, <2>1, <2>2 DEF ListMove
    <3>2. QED
        BY <1>1, <2>1, <2>2, <3>1, ListFrame
  <2>4. PICK S \in SUBSET Fibers : S = Range(flist[a])
    BY <1>1, ListedTyped DEF TypeOK
  <2>5. \A g \in S : Sits(g, "list", a)
    BY <2>4 DEF Sits
  <2>6. \A g \in S, k \in Kinds, b \in Holders :
            Sits(g, k, b) <=> k = "list" /\ b = a
    BY <1>0, <1>1, <2>5, FiberFound DEF Kinds
  <2>7. Range(fiber_list) \cap S = {}
    BY <1>0, <2>6 DEF Sits, Kinds
  <2>8. /\ Range(fiber_list') = Range(fiber_list) \cup S
        /\ Range(flist'[a]) = {} /\ ListedOnce'
    BY <1>1, <2>1, <2>2, <2>4, <2>7, ListedConcat, ListedEmpty
       DEF TypeOK, FibersOwned, ListedOnce
  <2>9. ASSUME NEW g \in S, NEW k \in Kinds, NEW b \in Holders
        PROVE  Sits(g, k, b)' <=> k = "queue" /\ b = NULL
    <3>1. /\ g \notin Range(disposed_fiber_list) /\ g \notin parked
          /\ \A t \in Threads : running[t] # g /\ stack_top[t] # g
          /\ \A c \in Agents : it[c] # g
          /\ \A c \in Agents : c # a => g \notin Range(flist[c])
        BY <1>0, <2>6 DEF Sits, Kinds
    <3>2. QED
        BY <1>1, <2>2, <2>8, <3>1 DEF Sits, Kinds
  <2>10. ASSUME NEW g \in Fibers \ S, NEW k \in Kinds, NEW b \in Holders
         PROVE  Sits(g, k, b)' <=> Sits(g, k, b)
    BY <1>1, <2>2, <2>4, <2>8 DEF Sits
  <2>11. /\ "list" \in Kinds \ {"running"} /\ "queue" \in Kinds
         /\ UNCHANGED <<fiber_pool, stack_top>>
    BY <1>1 DEF Kinds
  <2>12. FibersOwned'
    <3>1. FibersGo(S, "queue", NULL)
      <4>1. \A g \in S : g \in fiber_pool' \cup {MainFiber} /\ stack_top'[g] = g
        BY <1>0, <1>1, <2>5, <2>11, FiberFound
      <4>2. QED
        BY <2>9, <2>10, <2>11, <4>1 DEF FibersGo
    <3>2. QED
        BY <1>0, <1>1, <2>8, <2>11, <3>1, FibersMove
  <2>13. QED
    BY <1>1, <2>1, <2>3, <2>12, ThreadsUntouched
<1>4. CASE flist[a] # <<>> /\ idle_thread_list # <<>>
  <2>1. /\ tlist' = [tlist EXCEPT ![a] = idle_thread_list]
        /\ idle_thread_list' = <<>>
        /\ pc' = [pc EXCEPT ![a] = "deal"]
        /\ UNCHANGED <<fiber_list, flist>>
    BY <1>4 DEF ListEnqueue
  <2>2. /\ tlist'[a] = idle_thread_list
        /\ \A b \in Agents : b # a => tlist'[b] = tlist[b]
    BY <1>1, <2>1 DEF TypeOK
  <2>3. /\ Locals' /\ LoopSaved' /\ CellsFilled'
        /\ \A u \in Threads : pc'[u] = "wait" <=> pc[u] = "wait"
    <3>1. ListMove(a, "deal")
        BY <1>1, <2>1, <2>2 DEF ListMove
    <3>2. QED
        BY <1>1, <2>1, <2>2, <3>1, ListFrame
  <2>4. PICK S \in SUBSET Threads : S = Range(idle_thread_list)
    BY <1>1, ListedTyped DEF TypeOK
  <2>5. \A u \in S : Sleeps(u, "idle", NULL)
    BY <2>4 DEF Sleeps
  <2>6. \A u \in S, k \in ThreadKinds, b \in Holders :
            Sleeps(u, k, b) <=> k = "idle" /\ b = NULL
    BY <1>0, <1>1, <2>5, ThreadFound DEF ThreadKinds
  <2>7. /\ Range(idle_thread_list') = {} /\ Range(tlist'[a]) = S
        /\ Range(tlist[a]) = {} /\ ThreadsListedOnce'
    BY <1>1, <2>1, <2>2, <2>4, ListedEmpty DEF ThreadsKnown, ThreadsListedOnce
  <2>8. ASSUME NEW u \in S, NEW k \in ThreadKinds, NEW b \in Holders
        PROVE  Sleeps(u, k, b)' <=> k = "tlist" /\ b = a
    <3>1. /\ \A c \in Agents : th[c] # u /\ u \notin Range(tlist[c])
          /\ sem[u] = 0
        BY <1>0, <2>6 DEF Sleeps, ThreadKinds
    <3>2. QED
        BY <1>1, <2>2, <2>7, <3>1 DEF Sleeps, ThreadKinds
  <2>9. ASSUME NEW u \in Threads \ S, NEW k \in ThreadKinds, NEW b \in Holders
        PROVE  Sleeps(u, k, b)' <=> Sleeps(u, k, b)
    BY <1>1, <2>2, <2>4, <2>7 DEF Sleeps
  <2>10. "idle" \in ThreadKinds /\ "tlist" \in ThreadKinds
    BY DEF ThreadKinds
  <2>11. ThreadsKnown'
    <3>1. ThreadsGo(S, "tlist", a)
      <4>1. \A u \in S : pc[u] = "wait"
        BY <1>0, <1>1, <2>5, <2>10, ThreadFound
      <4>2. QED
        BY <1>1, <2>3, <2>8, <2>9, <4>1 DEF ThreadsGo, ThreadsKnown
    <3>2. QED
        BY <1>0, <1>1, <2>7, <2>10, <3>1, ThreadsMove
  <2>12. QED
    BY <1>1, <2>1, <2>3, <2>11, FibersUntouched
<1>5. QED
    BY <1>2, <1>3, <1>4

(* The first fiber goes into the first thread's struct, the thread into th. *)
LEMMA DealOwn ==
    ASSUME OwnInv, TypeOK', NEW a \in Agents, Deal(a)
    PROVE  (Locals /\ LoopSaved /\ FibersOwned /\ ThreadsKnown /\ CellsFilled)'
<1> USE Names DEF GoTo, queues, memory
<1>0. Holders = Agents \cup {NULL} /\ a \in Holders
    BY DEF Holders
<1>1. /\ TypeOK /\ Locals /\ LoopSaved /\ FibersOwned /\ ThreadsKnown
      /\ CellsFilled /\ it[a] = NULL /\ th[a] = NULL
      /\ pc[a] = "deal" /\ flist[a] # <<>> /\ tlist[a] # <<>>
      /\ flist[a] \in Seq(Fibers) /\ tlist[a] \in Seq(Threads)
    BY DEF OwnInv, TypeInv, TypeOK, Deal, Locals, AgentLocals, HoldsFiber, HoldsThread
<1>2. PICK f \in Fibers : f = Head(flist[a])
    BY <1>1, PopTyped
<1>3. PICK u \in Threads : u = Head(tlist[a])
    BY <1>1, PopTyped
<1>4. /\ f \in Range(flist[a]) /\ u \in Range(tlist[a])
      /\ Range(Tail(flist[a])) = Range(flist[a]) \ {f}
      /\ Range(Tail(tlist[a])) = Range(tlist[a]) \ {u}
      /\ IsInjective(Tail(flist[a])) /\ IsInjective(Tail(tlist[a]))
    BY <1>1, <1>2, <1>3, ListedPop
       DEF FibersOwned, ListedOnce, ThreadsKnown, ThreadsListedOnce
<1>5. /\ f \in fiber_pool \cup {MainFiber} /\ stack_top[f] = f
      /\ \A k \in Kinds, b \in Holders : Sits(f, k, b) <=> k = "list" /\ b = a
  <2>1. Sits(f, "list", a)
    BY <1>4 DEF Sits
  <2>2. QED
    BY <1>0, <1>1, <2>1, FiberFound DEF Kinds
<1>6. \A k \in ThreadKinds, b \in Holders : Sleeps(u, k, b) <=> k = "tlist" /\ b = a
  <2>1. Sleeps(u, "tlist", a)
    BY <1>4 DEF Sleeps
  <2>2. QED
    BY <1>0, <1>1, <2>1, ThreadFound DEF ThreadKinds
<1>7. pc[u] = "wait" /\ running[u] = u /\ stack_top[u] \notin Fibers /\ u # a
    BY <1>1, <1>4, TakenThread
<1>8. /\ stack_top' = [stack_top EXCEPT ![u] = f]
      /\ flist' = [flist EXCEPT ![a] = Tail(@)]
      /\ tlist' = [tlist EXCEPT ![a] = Tail(@)]
      /\ th' = [th EXCEPT ![a] = u]
      /\ pc' = [pc EXCEPT ![a] = "dealsignal"]
      /\ UNCHANGED <<queues, memory, running, sem, it, deferred, parked>>
    BY <1>2, <1>3, <1>5 DEF Deal
<1>9. /\ stack_top'[u] = f
      /\ \A c \in Contexts : c # u => stack_top'[c] = stack_top[c]
      /\ flist'[a] = Tail(flist[a]) /\ tlist'[a] = Tail(tlist[a])
      /\ th'[a] = u /\ pc'[a] = "dealsignal"
      /\ \A b \in Agents : b # a => /\ flist'[b] = flist[b]
                                   /\ tlist'[b] = tlist[b]
                                   /\ th'[b] = th[b] /\ pc'[b] = pc[b]
    BY <1>1, <1>8 DEF TypeOK
<1>10. Locals'
    BY <1>1, <1>8, <1>9 DEF Locals, AgentLocals, HoldsFiber, HoldsThread
<1>11. LoopSaved'
    BY <1>1, <1>7, <1>8, <1>9 DEF LoopSaved, ThreadLoop
<1>12. FibersOwned'
  <2>1. /\ \A b \in Agents : it[b] # f /\ (b # a => f \notin Range(flist[b]))
        /\ \A v \in Threads : stack_top[v] # f /\ running[v] # f
        /\ f \notin Range(fiber_list) /\ f \notin Range(disposed_fiber_list)
        /\ f \notin parked
    BY <1>0, <1>5 DEF Sits, Kinds
  <2>2. ASSUME NEW k \in Kinds, NEW b \in Holders
        PROVE  Sits(f, k, b)' <=> k = "cell" /\ b = u
    BY <1>0, <1>4, <1>8, <1>9, <2>1 DEF Sits, Kinds
  <2>3. ASSUME NEW g \in Fibers, g # f, NEW k \in Kinds, NEW b \in Holders
        PROVE  Sits(g, k, b)' <=> Sits(g, k, b)
    BY <1>4, <1>7, <1>8, <1>9, <2>3 DEF Sits
  <2>4. /\ "cell" \in Kinds /\ u \in Holders /\ ListedOnce'
        /\ stack_top'[f] = f
        /\ \A g \in Fibers : stack_top'[g] = stack_top[g]
        /\ UNCHANGED fiber_pool
    BY <1>0, <1>1, <1>4, <1>5, <1>8, <1>9 DEF Kinds, FibersOwned, ListedOnce
  <2>5. QED
    <3>1. FibersGo({f}, "cell", u)
        BY <1>5, <2>2, <2>3, <2>4 DEF FibersGo
    <3>2. QED
        BY <1>1, <2>4, <3>1, FibersMove
<1>13. ThreadsKnown'
  <2>1. /\ \A b \in Agents : th[b] # u /\ (b # a => u \notin Range(tlist[b]))
        /\ sem[u] = 0 /\ u \notin Range(idle_thread_list)
    BY <1>0, <1>6 DEF Sleeps, ThreadKinds
  <2>2. ASSUME NEW k \in ThreadKinds, NEW b \in Holders
        PROVE  Sleeps(u, k, b)' <=> k = "th" /\ b = a
    BY <1>0, <1>4, <1>8, <1>9, <2>1 DEF Sleeps, ThreadKinds
  <2>3. ASSUME NEW v \in Threads, v # u, NEW k \in ThreadKinds, NEW b \in Holders
        PROVE  Sleeps(v, k, b)' <=> Sleeps(v, k, b)
    BY <1>1, <1>4, <1>8, <1>9, <2>3 DEF Sleeps
  <2>4. /\ "th" \in ThreadKinds /\ ThreadsListedOnce' /\ pc'[u] = "wait"
        /\ \A v \in Threads : pc'[v] = "wait" <=> pc[v] = "wait"
        /\ \A v \in Threads : sem'[v] \in {0, 1}
    BY <1>1, <1>4, <1>7, <1>8, <1>9
       DEF ThreadKinds, ThreadsListedOnce, ThreadsKnown
  <2>5. QED
    <3>1. ThreadsGo({u}, "th", a)
        BY <2>2, <2>3, <2>4 DEF ThreadsGo
    <3>2. QED
        BY <1>0, <1>1, <2>4, <3>1, ThreadsMove
<1>14. CellsFilled'
  <2>1. Filled(u)'
    BY <1>9 DEF Filled
  <2>2. ASSUME NEW v \in Threads, v # u PROVE Filled(v)' <=> Filled(v)
    BY <1>1, <1>8, <1>9, <2>2 DEF Filled
  <2>3. QED
    BY <1>1, <1>9, <2>1, <2>2 DEF CellsFilled
<1>15. QED
    BY <1>10, <1>11, <1>12, <1>13, <1>14

(* The end of the inner loop.                                              *)
LEMMA DealEndOwn ==
    ASSUME OwnInv, TypeOK', NEW a \in Agents, DealOutOfThreads(a) \/ DealDone(a)
    PROVE  (Locals /\ LoopSaved /\ FibersOwned /\ ThreadsKnown /\ CellsFilled)'
<1> USE Names DEF GoTo, Return, queues, memory, contexts, lists
<1>1. /\ FibersOwned /\ ThreadsKnown /\ pc[a] = "deal" /\ tlist[a] = <<>>
      /\ UNCHANGED <<queues, memory, contexts, sem, it, deferred, th, lists,
                     parked>>
    BY DEF OwnInv, DealOutOfThreads, DealDone
<1>2. PICK l \in {"list", ReturnLabel(a)} :
        /\ pc' = [pc EXCEPT ![a] = l]
        /\ flist[a] # <<>> => l = "list"
    BY DEF DealOutOfThreads, DealDone
<1>3. /\ Locals' /\ LoopSaved' /\ CellsFilled'
      /\ \A u \in Threads : pc'[u] = "wait" <=> pc[u] = "wait"
  <2>1. ListMove(a, l)
    BY <1>1, <1>2 DEF ListMove
  <2>2. QED
    BY <1>1, <1>2, <2>1, ListFrame
<1>4. QED
    BY <1>1, <1>3, FibersUntouched, ThreadsUntouched

(* The threads that are left go back to the idle list.                     *)
LEMMA ReturnIdleThreadsOwn ==
    ASSUME OwnInv, TypeOK', NEW a \in Agents, ReturnIdleThreads(a)
    PROVE  (Locals /\ LoopSaved /\ FibersOwned /\ ThreadsKnown /\ CellsFilled)'
<1> USE Names DEF GoTo, Return, memory, contexts
<1>0. Holders = Agents \cup {NULL} /\ a \in Holders /\ NULL \in Holders
    BY DEF Holders
<1>1. /\ TypeOK /\ FibersOwned /\ ThreadsKnown
      /\ pc[a] = "deal" /\ flist[a] = <<>> /\ tlist[a] \in Seq(Threads)
      /\ idle_thread_list' = tlist[a] \o idle_thread_list
      /\ tlist' = [tlist EXCEPT ![a] = <<>>]
      /\ pc' = [pc EXCEPT ![a] = ReturnLabel(a)]
      /\ UNCHANGED <<fiber_list, memory, contexts, sem, it, deferred, th, flist,
                     parked>>
    BY DEF OwnInv, TypeInv, TypeOK, ReturnIdleThreads
<1>2. tlist'[a] = <<>> /\ \A b \in Agents : b # a => tlist'[b] = tlist[b]
    BY <1>1 DEF TypeOK
<1>3. /\ Locals' /\ LoopSaved' /\ CellsFilled'
      /\ \A u \in Threads : pc'[u] = "wait" <=> pc[u] = "wait"
  <2>1. ListMove(a, ReturnLabel(a))
    BY <1>1, <1>2 DEF ListMove
  <2>2. QED
    BY <1>1, <1>2, <2>1, ListFrame
<1>4. PICK S \in SUBSET Threads : S = Range(tlist[a])
    BY <1>1, ListedTyped
<1>5. \A u \in S : Sleeps(u, "tlist", a)
    BY <1>4 DEF Sleeps
<1>6. \A u \in S, k \in ThreadKinds, b \in Holders :
        Sleeps(u, k, b) <=> k = "tlist" /\ b = a
    BY <1>0, <1>1, <1>5, ThreadFound DEF ThreadKinds
<1>7. S \cap Range(idle_thread_list) = {}
    BY <1>0, <1>6 DEF Sleeps, ThreadKinds
<1>8. /\ Range(idle_thread_list') = S \cup Range(idle_thread_list)
      /\ Range(tlist'[a]) = {} /\ ThreadsListedOnce'
    BY <1>1, <1>2, <1>4, <1>7, ListedConcat, ListedEmpty
       DEF TypeOK, ThreadsKnown, ThreadsListedOnce
<1>9. ASSUME NEW u \in S, NEW k \in ThreadKinds, NEW b \in Holders
      PROVE  Sleeps(u, k, b)' <=> k = "idle" /\ b = NULL
  <2>1. /\ \A c \in Agents : th[c] # u /\ (c # a => u \notin Range(tlist[c]))
        /\ sem[u] = 0
    BY <1>0, <1>6 DEF Sleeps, ThreadKinds
  <2>2. QED
    BY <1>1, <1>2, <1>8, <2>1 DEF Sleeps, ThreadKinds
<1>10. ASSUME NEW u \in Threads \ S, NEW k \in ThreadKinds, NEW b \in Holders
       PROVE  Sleeps(u, k, b)' <=> Sleeps(u, k, b)
    BY <1>1, <1>2, <1>4, <1>8 DEF Sleeps
<1>11. ThreadsKnown'
  <2>1. "idle" \in ThreadKinds /\ "tlist" \in ThreadKinds /\ UNCHANGED sem
    BY <1>1 DEF ThreadKinds
  <2>2. QED
    <3>1. \A u \in S : pc[u] = "wait"
        BY <1>0, <1>1, <1>5, <2>1, ThreadFound
    <3>2. ThreadsGo(S, "idle", NULL)
        BY <1>1, <1>3, <1>9, <1>10, <3>1 DEF ThreadsGo, ThreadsKnown
    <3>3. QED
        BY <1>0, <1>1, <1>8, <2>1, <3>2, ThreadsMove
<1>12. QED
    BY <1>1, <1>3, <1>11, FibersUntouched

(* The run queue becomes the local list.                                   *)
LEMMA TakeRunQueueOwn ==
    ASSUME OwnInv, TypeOK', NEW a \in Agents, TakeRunQueue(a)
    PROVE  (Locals /\ LoopSaved /\ FibersOwned /\ ThreadsKnown /\ CellsFilled)'
<1> USE Names DEF memory, contexts
<1>0. Holders = Agents \cup {NULL} /\ a \in Holders /\ NULL \in Holders
    BY DEF Holders
<1>1. /\ TypeOK /\ FibersOwned /\ ThreadsKnown
      /\ pc[a] = "deal" /\ flist[a] = <<>>
      /\ flist' = [flist EXCEPT ![a] = fiber_list]
      /\ fiber_list' = <<>>
      /\ pc' = [pc EXCEPT ![a] = "deal"]
      /\ UNCHANGED <<idle_thread_list, memory, contexts, sem, it, deferred, th,
                     tlist, parked>>
  <2>1. TypeOK /\ FibersOwned /\ ThreadsKnown
    BY DEF OwnInv, TypeInv
  <2>2. pc[a] = "deal" /\ UNCHANGED pc
    BY DEF TakeRunQueue
  <2>3. pc' = [pc EXCEPT ![a] = "deal"]
    BY <2>1, <2>2 DEF TypeOK
  <2>4. QED
    BY <2>1, <2>2, <2>3 DEF TakeRunQueue
<1>2. flist'[a] = fiber_list /\ \A b \in Agents : b # a => flist'[b] = flist[b]
    BY <1>1 DEF TypeOK
<1>3. /\ Locals' /\ LoopSaved' /\ CellsFilled'
      /\ \A u \in Threads : pc'[u] = "wait" <=> pc[u] = "wait"
  <2>1. ListMove(a, "deal")
    BY <1>1, <1>2 DEF ListMove
  <2>2. QED
    BY <1>1, <1>2, <2>1, ListFrame
<1>4. PICK S \in SUBSET Fibers : S = Range(fiber_list)
    BY <1>1, ListedTyped DEF TypeOK
<1>5. \A g \in S : Sits(g, "queue", NULL)
    BY <1>4 DEF Sits
<1>6. \A g \in S, k \in Kinds, b \in Holders :
        Sits(g, k, b) <=> k = "queue" /\ b = NULL
    BY <1>0, <1>1, <1>5, FiberFound DEF Kinds
<1>7. /\ Range(fiber_list') = {} /\ Range(flist'[a]) = S
      /\ Range(flist[a]) = {} /\ ListedOnce'
    BY <1>1, <1>2, <1>4, ListedEmpty DEF FibersOwned, ListedOnce
<1>8. ASSUME NEW g \in S, NEW k \in Kinds, NEW b \in Holders
      PROVE  Sits(g, k, b)' <=> k = "list" /\ b = a
  <2>1. /\ g \notin Range(disposed_fiber_list) /\ g \notin parked
        /\ \A t \in Threads : running[t] # g /\ stack_top[t] # g
        /\ \A c \in Agents : it[c] # g /\ g \notin Range(flist[c])
    BY <1>0, <1>6 DEF Sits, Kinds
  <2>2. QED
    BY <1>1, <1>2, <1>7, <2>1 DEF Sits, Kinds
<1>9. ASSUME NEW g \in Fibers \ S, NEW k \in Kinds, NEW b \in Holders
      PROVE  Sits(g, k, b)' <=> Sits(g, k, b)
    BY <1>1, <1>2, <1>4, <1>7 DEF Sits
<1>10. FibersOwned'
  <2>1. /\ "queue" \in Kinds \ {"running"} /\ "list" \in Kinds
        /\ UNCHANGED <<fiber_pool, stack_top>>
    BY <1>1 DEF Kinds
  <2>2. FibersOwned /\ ListedOnce'
    BY <1>1, <1>7
  <2>3. QED
    <3>1. \A g \in S : g \in fiber_pool' \cup {MainFiber} /\ stack_top'[g] = g
        BY <1>0, <1>1, <1>5, <2>1, FiberFound
    <3>2. FibersGo(S, "list", a)
        BY <1>8, <1>9, <2>1, <3>1 DEF FibersGo
    <3>3. QED
        BY <1>0, <2>1, <2>2, <3>2, FibersMove
<1>11. QED
    BY <1>1, <1>3, <1>10, ThreadsUntouched

-----------------------------------------------------------------------------
(* The clients' calls.                                                     *)

(* What they have in common: a struct goes into it.                        *)
LEMMA ClientFrame ==
    ASSUME OwnInv, TypeOK', NEW t \in Threads, pc[t] = "user",
           NEW l \in {"switch", "enqueue"}, pc' = [pc EXCEPT ![t] = l],
           NEW c \in Fibers \cup {t}, it' = [it EXCEPT ![t] = c],
           l = "enqueue" => UNCHANGED deferred,
           l = "switch" => \E d \in Deferrals \ {"none"} :
                              deferred' = [deferred EXCEPT ![t] = d],
           \A u \in Threads : stack_top'[u] = stack_top[u],
           UNCHANGED <<idle_thread_list, running, sem, th, lists>>
    PROVE  Locals' /\ LoopSaved' /\ ThreadsKnown' /\ CellsFilled'
<1> USE Names DEF lists
<1>1. /\ TypeOK /\ Locals /\ LoopSaved /\ ThreadsKnown /\ CellsFilled
      /\ th[t] = NULL /\ flist[t] = <<>> /\ tlist[t] = <<>>
      /\ deferred[t] = "none" /\ running[t] \in Fibers /\ t \in Agents
    BY DEF OwnInv, TypeInv, Registers, Locals, AgentLocals, HoldsThread
<1>2. /\ pc'[t] = l /\ it'[t] = c
      /\ \A b \in Agents : b # t => pc'[b] = pc[b] /\ it'[b] = it[b]
    BY <1>1 DEF TypeOK
<1>3. /\ l = "switch" <=> deferred'[t] # "none"
      /\ \A u \in Threads : u # t => deferred'[u] = deferred[u]
    BY <1>1 DEF TypeOK
<1>4. Locals'
    BY <1>1, <1>2, <1>3 DEF Locals, AgentLocals, HoldsFiber, HoldsThread
<1>5. LoopSaved'
    BY <1>1, <1>2, <1>3 DEF LoopSaved, ThreadLoop
<1>6. ThreadsKnown'
    BY <1>1, <1>2, ThreadsUntouched
<1>7. CellsFilled'
    BY <1>1, <1>2 DEF CellsFilled, Filled
<1>8. QED
    BY <1>4, <1>5, <1>6, <1>7

LEMMA ClientHoldsNothing ==
    ASSUME OwnInv, NEW a \in Agents, pc[a] \in {"user", "timer"}
    PROVE  it[a] = NULL /\ th[a] = NULL /\ flist[a] = <<>> /\ tlist[a] = <<>>
BY DEF OwnInv, Locals, AgentLocals, HoldsFiber, HoldsThread

(* fiber_yield, fiber_exit and fiber_timer_set_timeout leave for the next  *)
(* fiber of the run queue or for the loop; so does a fiber that parks.     *)
LEMMA LeaveOwn ==
    ASSUME OwnInv, TypeOK', NEW t \in Threads,
           Yield(t) \/ Exit(t) \/ Sleep(t) \/ Park(t)
    PROVE  (Locals /\ LoopSaved /\ FibersOwned /\ ThreadsKnown /\ CellsFilled)'
<1> USE Names DEF GoTo, queues, memory, contexts
<1>1. /\ TypeOK /\ FibersOwned /\ pc[t] = "user" /\ it[t] = NULL
      /\ pc' = [pc EXCEPT ![t] = "switch"]
      /\ \E d \in Deferrals \ {"none"} : deferred' = [deferred EXCEPT ![t] = d]
      /\ UNCHANGED <<idle_thread_list, memory, contexts, sem, th, lists, parked>>
    BY ClientHoldsNothing
       DEF OwnInv, TypeInv, Yield, Exit, Sleep, Park, Deferrals
<1>2. CASE it' = [it EXCEPT ![t] = t] /\ UNCHANGED fiber_list
  <2>1. Locals' /\ LoopSaved' /\ ThreadsKnown' /\ CellsFilled'
    BY <1>1, <1>2, ClientFrame
  <2>2. it'[t] = t /\ \A b \in Agents : b # t => it'[b] = it[b]
    BY <1>1, <1>2 DEF TypeOK
  <2>3. FibersOwned'
    BY <1>1, <1>2, <2>2, FibersUntouched DEF lists
  <2>4. QED
    BY <2>1, <2>3
<1>3. CASE fiber_list # <<>> /\ PopFiber(t)
  <2>1. PICK f \in Fibers : f = Head(fiber_list)
    BY <1>1, <1>3, PopTyped DEF TypeOK
  <2>2. /\ it' = [it EXCEPT ![t] = f]
        /\ fiber_list' = Tail(fiber_list)
    BY <1>3, <2>1 DEF PopFiber
  <2>3. Locals' /\ LoopSaved' /\ ThreadsKnown' /\ CellsFilled'
    BY <1>1, <2>2, ClientFrame
  <2>4. FibersOwned'
    BY <1>1, <1>3, <2>1, <2>2, FiberPopped DEF lists
  <2>5. QED
    BY <2>3, <2>4
<1>4. QED
    BY <1>2, <1>3 DEF Yield, Exit, Sleep, Park, GetAvailableFiber

(* A fiber comes out of a wait list, or out of the disposed list.          *)
LEMMA WakeOneOwn ==
    ASSUME OwnInv, TypeOK', NEW t \in Threads, NEW f \in parked,
           WakeOne(t, f) \/ Handoff(t, f)
    PROVE  (Locals /\ LoopSaved /\ FibersOwned /\ ThreadsKnown /\ CellsFilled)'
<1> USE Names DEF GoTo, queues, memory, contexts
<1>0. Holders = Agents \cup {NULL} /\ NULL \in Holders /\ t \in Holders
    BY DEF Holders
<1>1. PICK l \in {"switch", "enqueue"} :
        /\ pc' = [pc EXCEPT ![t] = l]
        /\ l = "enqueue" => UNCHANGED deferred
        /\ l = "switch" => deferred' = [deferred EXCEPT ![t] = "enqueue"]
    BY DEF WakeOne, Handoff
<1>2. /\ TypeOK /\ FibersOwned /\ pc[t] = "user" /\ it[t] = NULL /\ f \in Fibers
      /\ parked' = parked \ {f}
      /\ it' = [it EXCEPT ![t] = f]
      /\ UNCHANGED <<queues, memory, contexts, sem, th, lists>>
    BY ClientHoldsNothing
       DEF OwnInv, TypeInv, TypeOK, WakeOne, Handoff
<1>3. Locals' /\ LoopSaved' /\ ThreadsKnown' /\ CellsFilled'
    BY <1>1, <1>2, ClientFrame DEF Deferrals
<1>4. it'[t] = f /\ \A b \in Agents : b # t => it'[b] = it[b]
    BY <1>2 DEF TypeOK
<1>5. /\ f \in fiber_pool \cup {MainFiber} /\ stack_top[f] = f
      /\ \A k \in Kinds, a \in Holders :
            Sits(f, k, a) <=> k = "parked" /\ a = NULL
  <2>1. Sits(f, "parked", NULL)
    BY DEF Sits
  <2>2. QED
    BY <1>0, <1>2, <2>1, FiberFound DEF Kinds
<1>6. FibersOwned'
  <2>1. /\ \A b \in Agents : it[b] # f /\ f \notin Range(flist[b])
        /\ \A u \in Threads : stack_top[u] # f /\ running[u] # f
        /\ f \notin Range(fiber_list) /\ f \notin Range(disposed_fiber_list)
    BY <1>0, <1>5 DEF Sits, Kinds
  <2>2. ASSUME NEW k \in Kinds, NEW a \in Holders
        PROVE  Sits(f, k, a)' <=> k = "it" /\ a = t
    BY <1>0, <1>2, <1>4, <2>1 DEF Sits, Kinds, lists
  <2>3. ASSUME NEW g \in Fibers, g # f, NEW k \in Kinds, NEW a \in Holders
        PROVE  Sits(g, k, a)' <=> Sits(g, k, a)
    BY <1>2, <1>4, <2>3 DEF Sits, lists
  <2>4. "it" \in Kinds /\ ListedOnce'
    BY <1>2 DEF Kinds, FibersOwned, ListedOnce, lists
  <2>5. FibersGo({f}, "it", t)
    BY <1>2, <1>5, <2>2, <2>3 DEF FibersGo
  <2>6. QED
    BY <1>0, <1>2, <2>4, <2>5, FibersMove
<1>7. QED
    BY <1>3, <1>6

LEMMA SpawnOwn ==
    ASSUME OwnInv, TypeOK', NEW t \in Threads, Spawn(t)
    PROVE  (Locals /\ LoopSaved /\ FibersOwned /\ ThreadsKnown /\ CellsFilled)'
<1> USE Names DEF GoTo, queues
<1>0. Holders = Agents \cup {NULL} /\ NULL \in Holders /\ t \in Holders
    BY DEF Holders
<1>1. PICK b \in Blocks :
        /\ \/ /\ disposed_fiber_list = <<>>
              /\ b \notin fiber_pool
              /\ fiber_pool' = fiber_pool \cup {b}
              /\ UNCHANGED disposed_fiber_list
           \/ /\ disposed_fiber_list # <<>>
              /\ b = stack_top[Head(disposed_fiber_list)]
              /\ b \in fiber_pool
              /\ disposed_fiber_list' = Tail(disposed_fiber_list)
              /\ UNCHANGED fiber_pool
        /\ stack_top' = [stack_top EXCEPT ![b] = b]
        /\ it' = [it EXCEPT ![t] = b]
    BY DEF Spawn
<1>2. /\ TypeOK /\ FibersOwned /\ pc[t] = "user" /\ it[t] = NULL
      /\ b \in Fibers /\ b # MainFiber
      /\ pc' = [pc EXCEPT ![t] = "enqueue"]
      /\ UNCHANGED <<queues, running, sem, deferred, th, lists, parked>>
    BY ClientHoldsNothing, ConstantsDistinct DEF OwnInv, TypeInv, Spawn
<1>3. /\ it'[t] = b /\ \A a \in Agents : a # t => it'[a] = it[a]
      /\ stack_top'[b] = b
      /\ \A c \in Contexts : c # b => stack_top'[c] = stack_top[c]
    BY <1>1, <1>2 DEF TypeOK
<1>4. Locals' /\ LoopSaved' /\ ThreadsKnown' /\ CellsFilled'
    BY <1>1, <1>2, <1>3, ClientFrame
<1>5. /\ b \in fiber_pool'
      /\ Range(disposed_fiber_list') = Range(disposed_fiber_list) \ {b}
      /\ \A k \in Kinds, a \in Holders : Sits(b, k, a) => k = "disposed" /\ a = NULL
      /\ \A g \in Fibers : g # b => (g \in fiber_pool' <=> g \in fiber_pool)
      /\ ListedOnce'
  <2>1. CASE disposed_fiber_list = <<>>
    <3>1. \A k \in Kinds, a \in Holders : ~Sits(b, k, a)
        BY <1>1, <1>2, <2>1 DEF FibersOwned, Owned
    <3>2. QED
        BY <1>1, <1>2, <2>1, <3>1, ListedEmpty DEF FibersOwned, ListedOnce, lists
  <2>2. CASE disposed_fiber_list # <<>>
    <3>1. PICK h \in Fibers : h = Head(disposed_fiber_list)
        BY <1>2, <2>2, PopTyped DEF TypeOK
    <3>2. /\ h \in Range(disposed_fiber_list)
          /\ Range(Tail(disposed_fiber_list)) = Range(disposed_fiber_list) \ {h}
          /\ IsInjective(Tail(disposed_fiber_list))
        BY <1>2, <2>2, <3>1, ListedPop DEF TypeOK, FibersOwned, ListedOnce
    <3>3. Sits(h, "disposed", NULL)
        BY <3>2 DEF Sits
    <3>4. /\ stack_top[h] = h
          /\ \A k \in Kinds, a \in Holders :
                Sits(h, k, a) <=> k = "disposed" /\ a = NULL
        BY <1>0, <1>2, <3>3, FiberFound DEF Kinds
    <3>5. h = b
        BY <1>1, <2>2, <3>1, <3>4
    <3>6. QED
        BY <1>1, <1>2, <2>2, <3>2, <3>4, <3>5 DEF FibersOwned, ListedOnce, lists
  <2>3. QED
    BY <2>1, <2>2
<1>6. FibersOwned'
  <2>1. /\ \A a \in Agents : it[a] # b /\ b \notin Range(flist[a])
        /\ \A u \in Threads : stack_top[u] # b /\ running[u] # b
        /\ b \notin Range(fiber_list) /\ b \notin parked
    BY <1>0, <1>5 DEF Sits, Kinds
  <2>2. ASSUME NEW k \in Kinds, NEW a \in Holders
        PROVE  Sits(b, k, a)' <=> k = "it" /\ a = t
    BY <1>0, <1>2, <1>3, <1>5, <2>1 DEF Sits, Kinds, lists
  <2>3. ASSUME NEW g \in Fibers, g # b, NEW k \in Kinds, NEW a \in Holders
        PROVE  Sits(g, k, a)' <=> Sits(g, k, a)
    BY <1>2, <1>3, <1>5, <2>3 DEF Sits, lists
  <2>4. "it" \in Kinds
    BY DEF Kinds
  <2>5. FibersGo({b}, "it", t)
    BY <1>2, <1>3, <1>5, <2>2, <2>3 DEF FibersGo
  <2>6. QED
    BY <1>0, <1>2, <1>5, <2>4, <2>5, FibersMove
<1>7. QED
    BY <1>4, <1>6

LEMMA WakeListOwn ==
    ASSUME OwnInv, TypeOK', NEW a \in Agents, NEW l \in WakeOrders, WakeList(a, l)
    PROVE  (Locals /\ LoopSaved /\ FibersOwned /\ ThreadsKnown /\ CellsFilled)'
<1> USE Names DEF GoTo, queues, memory, contexts
<1>0. Holders = Agents \cup {NULL} /\ a \in Holders /\ NULL \in Holders
    BY DEF Holders
<1>1. /\ TypeOK /\ FibersOwned /\ ThreadsKnown
      /\ pc[a] \in {"user", "timer"} /\ flist[a] = <<>> /\ tlist[a] = <<>>
      /\ parked' = parked \ Range(l)
      /\ flist' = [flist EXCEPT ![a] = l]
      /\ pc' = [pc EXCEPT ![a] = "list"]
      /\ UNCHANGED <<queues, memory, contexts, sem, it, deferred, th, tlist>>
    BY ClientHoldsNothing DEF OwnInv, TypeInv, WakeList
<1>2. flist'[a] = l /\ \A b \in Agents : b # a => flist'[b] = flist[b]
    BY <1>1 DEF TypeOK
<1>3. /\ Locals' /\ LoopSaved' /\ CellsFilled'
      /\ \A u \in Threads : pc'[u] = "wait" <=> pc[u] = "wait"
  <2>1. ListMove(a, "list")
    BY <1>1, <1>2 DEF ListMove
  <2>2. QED
    BY <1>1, <1>2, <2>1, ListFrame
<1>4. IsInjective(l) /\ Range(l) \in SUBSET parked
  <2>1. PICK n \in 0..Cardinality(parked) : l \in [1..n -> parked]
    BY DEF WakeOrders
  <2>2. QED
    BY <2>1 DEF WakeOrders, Range
<1>5. PICK S \in SUBSET Fibers : S = Range(l)
    BY <1>1, <1>4 DEF TypeOK
<1>6. \A g \in S : Sits(g, "parked", NULL)
    BY <1>4, <1>5 DEF Sits
<1>7. \A g \in S, k \in Kinds, b \in Holders :
        Sits(g, k, b) <=> k = "parked" /\ b = NULL
    BY <1>0, <1>1, <1>6, FiberFound DEF Kinds
<1>8. Range(flist[a]) = {} /\ ListedOnce'
    BY <1>1, <1>2, <1>4, ListedEmpty DEF FibersOwned, ListedOnce
<1>9. ASSUME NEW g \in S, NEW k \in Kinds, NEW b \in Holders
      PROVE  Sits(g, k, b)' <=> k = "list" /\ b = a
  <2>1. /\ g \notin Range(disposed_fiber_list) /\ g \notin Range(fiber_list)
        /\ \A t \in Threads : running[t] # g /\ stack_top[t] # g
        /\ \A c \in Agents : it[c] # g /\ g \notin Range(flist[c])
    BY <1>0, <1>7 DEF Sits, Kinds
  <2>2. QED
    BY <1>1, <1>2, <1>5, <2>1 DEF Sits, Kinds
<1>10. ASSUME NEW g \in Fibers \ S, NEW k \in Kinds, NEW b \in Holders
       PROVE  Sits(g, k, b)' <=> Sits(g, k, b)
    BY <1>1, <1>2, <1>5, <1>8 DEF Sits
<1>11. FibersOwned'
  <2>1. /\ "parked" \in Kinds \ {"running"} /\ "list" \in Kinds
        /\ UNCHANGED <<fiber_pool, stack_top>>
    BY <1>1 DEF Kinds
  <2>2. FibersOwned /\ ListedOnce'
    BY <1>1, <1>8
  <2>3. \A g \in S : g \in fiber_pool' \cup {MainFiber} /\ stack_top'[g] = g
    BY <1>0, <1>1, <1>6, <2>1, FiberFound
  <2>4. FibersGo(S, "list", a)
    BY <1>9, <1>10, <2>1, <2>3 DEF FibersGo
  <2>5. QED
    BY <1>0, <2>1, <2>2, <2>4, FibersMove
<1>12. QED
    BY <1>1, <1>3, <1>11, ThreadsUntouched

-----------------------------------------------------------------------------
LEMMA InitOwn == Init => OwnInv
<1> USE Names, ListedEmpty DEF Init
<1> SUFFICES ASSUME Init PROVE OwnInv
    OBVIOUS
<1>1. TypeInv
    BY InitTypeInv
<1>2. Locals /\ LoopSaved
    BY ConstantsDistinct DEF Locals, AgentLocals, LoopSaved, ThreadLoop, HoldsFiber,
                             HoldsThread
<1>3. FibersOwned
  <2>1. ASSUME NEW f \in Fibers, NEW k \in Kinds, NEW a \in Holders
        PROVE  Sits(f, k, a) <=> f = MainFiber /\ k = "running" /\ a = MainThread
    BY DEF Sits, Kinds, Holders
  <2>2. "running" \in Kinds /\ MainThread \in Holders
    BY DEF Kinds, Holders
  <2>3. ASSUME NEW f \in Fibers PROVE Owned(f) /\ Saved(f)
    <3>1. CASE f = MainFiber
      <4>1. SitsAt(f, "running", MainThread)
        BY <2>1, <3>1 DEF SitsAt
      <4>2. QED
        BY <2>1, <2>2, <3>1, <4>1 DEF Owned, Saved
    <3>2. CASE f # MainFiber
      <4>1. \A k \in Kinds, a \in Holders : ~Sits(f, k, a)
        BY <2>1, <3>2
      <4>2. f \notin fiber_pool \cup {MainFiber}
        BY <3>2
      <4>3. QED
        BY <4>1, <4>2 DEF Owned, Saved
    <3>3. QED
        BY <3>1, <3>2
  <2>4. QED
    BY <2>3 DEF FibersOwned, ListedOnce
<1>4. ThreadsKnown
  <2>1. ASSUME NEW t \in Threads, NEW k \in ThreadKinds, NEW a \in Holders
        PROVE  ~Sleeps(t, k, a)
    BY DEF Sleeps
  <2>2. QED
    BY <2>1 DEF ThreadsKnown, ThreadsListedOnce, Known
<1>5. CellsFilled
    BY DEF CellsFilled, Filled
<1>6. QED
    BY <1>1, <1>2, <1>3, <1>4, <1>5 DEF OwnInv

LEMMA NextOwn ==
    ASSUME OwnInv, [Next]_vars
    PROVE  OwnInv'
<1> USE DEF OwnInv
<1>1. ASSUME NEW t \in Threads, LibraryStep(t) PROVE OwnInv'
  <2>1. TypeInv' /\ TypeOK' /\ t \in Agents
    BY <1>1, LibraryTypeInv, Names DEF TypeInv
  <2>2. QED
    BY <1>1, <2>1, WorkThreadLoopOwn, SemaphoreWaitOwn, FiberSwitchOwn,
       EnqueueFiberOwn, HandoverOwn, SignalOwn, RecycleOrReleaseOwn
       DEF LibraryStep
<1>2. ASSUME NEW t \in Threads, ClientStep(t) PROVE OwnInv'
  <2>1. TypeInv' /\ TypeOK'
    BY <1>2, ClientTypeInv DEF TypeInv
  <2>2. QED
    BY <1>2, <2>1, SpawnOwn, LeaveOwn, WakeOneOwn DEF ClientStep
<1>3. ASSUME NEW a \in Agents, ListStep(a) PROVE OwnInv'
  <2>1. TypeInv' /\ TypeOK'
    BY <1>3, ListTypeInv DEF TypeInv
  <2>2. QED
    BY <1>3, <2>1, ListEnqueueOwn, DealOwn, SignalOwn, DealEndOwn,
       ReturnIdleThreadsOwn, TakeRunQueueOwn DEF ListStep
<1>4. ASSUME NEW a \in Agents, NEW l \in WakeOrders, WakeList(a, l) PROVE OwnInv'
  <2>1. TypeInv' /\ TypeOK'
    BY <1>4, WakeListTypeInv DEF TypeInv
  <2>2. QED
    BY <1>4, <2>1, WakeListOwn
<1>5. CASE UNCHANGED vars
  <2> USE <1>5, Names DEF vars, queues, memory, contexts, lists
  <2>1. TypeInv'
    BY DEF TypeInv, TypeOK, Registers
  <2>2. Locals' /\ LoopSaved' /\ CellsFilled'
    BY DEF Locals, AgentLocals, HoldsFiber, HoldsThread, LoopSaved, ThreadLoop,
           CellsFilled, Filled
  <2>3. FibersOwned' /\ ThreadsKnown'
    BY FibersUntouched, ThreadsUntouched
  <2>4. QED
    BY <2>1, <2>2, <2>3
<1>6. QED
    BY <1>1, <1>2, <1>3, <1>4, <1>5 DEF Next

-----------------------------------------------------------------------------
(* Places as the checked invariants name them.                             *)
LEMMA PlacesOfFiber ==
    ASSUME NEW f \in Fibers
    PROVE  /\ \A k \in Kinds, a \in Holders :
                 <<k, a>> \in FiberPlaces(f) <=> Sits(f, k, a)
           /\ \A p \in FiberPlaces(f) :
                 \E k \in Kinds, a \in Holders : p = <<k, a>>
<1> USE Names DEF Holders
<1>1. ASSUME NEW k \in Kinds, NEW a \in Holders
      PROVE  <<k, a>> \in FiberPlaces(f) <=> Sits(f, k, a)
    BY DEF FiberPlaces, Sits, Kinds
<1>2. ASSUME NEW p \in FiberPlaces(f)
      PROVE  \E k \in Kinds, a \in Holders : p = <<k, a>>
    BY DEF FiberPlaces, Kinds
<1>3. QED
    BY <1>1, <1>2

LEMMA PlacesOfThread ==
    ASSUME NEW t \in Threads, sem[t] \in {0, 1}
    PROVE  /\ \A k \in ThreadKinds \ {"signal"}, a \in Holders :
                 <<k, a>> \in ThreadPlaces(t) <=> Sleeps(t, k, a)
           /\ <<"signal", 1>> \in ThreadPlaces(t) <=> Sleeps(t, "signal", NULL)
           /\ \A p \in ThreadPlaces(t) :
                 \/ p = <<"signal", 1>>
                 \/ \E k \in ThreadKinds \ {"signal"}, a \in Holders : p = <<k, a>>
<1> USE Names DEF Holders
<1>0. \A i : i \in 1..sem[t] <=> i = 1 /\ sem[t] # 0
  <2>1. CASE sem[t] = 0
    BY <2>1
  <2>2. CASE sem[t] = 1
    BY <2>2
  <2>3. QED
    BY <2>1, <2>2
<1>1. ASSUME NEW k \in ThreadKinds \ {"signal"}, NEW a \in Holders
      PROVE  <<k, a>> \in ThreadPlaces(t) <=> Sleeps(t, k, a)
    BY DEF ThreadPlaces, Sleeps, ThreadKinds
<1>2. <<"signal", 1>> \in ThreadPlaces(t) <=> Sleeps(t, "signal", NULL)
    BY <1>0 DEF ThreadPlaces, Sleeps
<1>3. ASSUME NEW p \in ThreadPlaces(t)
      PROVE  \/ p = <<"signal", 1>>
             \/ \E k \in ThreadKinds \ {"signal"}, a \in Holders : p = <<k, a>>
    BY <1>0 DEF ThreadPlaces, ThreadKinds
<1>4. QED
    BY <1>1, <1>2, <1>3

LEMMA OwnImplies ==
    ASSUME OwnInv
    PROVE  OneOwner /\ SavedBeforePublished /\ SleeperAccounted
<1>1. OneOwner
  <2>1. ASSUME NEW f \in Fibers, f \in fiber_pool \cup {MainFiber}
        PROVE  \E p \in FiberPlaces(f) : FiberPlaces(f) = {p}
    <3>1. PICK k \in Kinds, a \in Holders : SitsAt(f, k, a)
        BY <2>1 DEF OwnInv, FibersOwned, Owned
    <3>2. FiberPlaces(f) = {<<k, a>>}
        BY <3>1, PlacesOfFiber DEF SitsAt
    <3>3. QED
        BY <3>2
  <2>2. ASSUME NEW f \in Fibers, f \notin fiber_pool \cup {MainFiber}
        PROVE  FiberPlaces(f) = {}
    BY <2>2, PlacesOfFiber DEF OwnInv, FibersOwned, Owned
  <2>3. QED
    BY <2>1, <2>2 DEF OneOwner, OwnInv, FibersOwned
<1>2. SavedBeforePublished
  <2>1. ASSUME NEW f \in Published PROVE stack_top[f] = f
    <3>1. f \in Fibers
        BY ListedTyped DEF Published, OwnInv, TypeInv, TypeOK
    <3>2. \E k \in Kinds \ {"running"}, a \in Holders : Sits(f, k, a)
      <4>1. \/ Sits(f, "queue", NULL) \/ Sits(f, "disposed", NULL)
            \/ Sits(f, "parked", NULL) \/ \E a \in Agents : Sits(f, "list", a)
        BY DEF Published, Sits
      <4>2. QED
        BY <4>1 DEF Kinds, Holders
    <3>3. QED
        BY <3>1, <3>2 DEF OwnInv, FibersOwned, Saved
  <2>2. QED
    BY <2>1 DEF SavedBeforePublished, OwnInv, LoopSaved, ThreadLoop
<1>3. SleeperAccounted
  <2>1. ASSUME NEW t \in Threads, pc[t] = "wait"
        PROVE  \E p \in ThreadPlaces(t) : ThreadPlaces(t) = {p}
    <3>1. PICK k \in ThreadKinds, a \in Holders : SleepsAt(t, k, a)
        BY <2>1 DEF OwnInv, ThreadsKnown, Known
    <3>2. sem[t] \in {0, 1} /\ NULL \in Holders /\ "signal" \in ThreadKinds
        BY DEF OwnInv, ThreadsKnown, Holders, ThreadKinds
    <3>3. CASE k = "signal"
      <4>1. a = NULL
        BY <3>1, <3>3 DEF SleepsAt, Sleeps
      <4>2. ThreadPlaces(t) = {<<"signal", 1>>}
        BY <3>1, <3>2, <3>3, <4>1, PlacesOfThread DEF SleepsAt
      <4>3. QED
        BY <4>2
    <3>4. CASE k # "signal"
      <4>1. ThreadPlaces(t) = {<<k, a>>}
        BY <3>1, <3>2, <3>4, PlacesOfThread DEF SleepsAt
      <4>2. QED
        BY <4>1
    <3>5. QED
        BY <3>3, <3>4
  <2>2. ASSUME NEW t \in Threads, pc[t] # "wait" PROVE ThreadPlaces(t) = {}
    <3>1. \A k \in ThreadKinds, a \in Holders : ~Sleeps(t, k, a)
        BY <2>2 DEF OwnInv, ThreadsKnown, Known
    <3>2. sem[t] \in {0, 1} /\ NULL \in Holders /\ "signal" \in ThreadKinds
        BY DEF OwnInv, ThreadsKnown, Holders, ThreadKinds
    <3>3. QED
        BY <3>1, <3>2, PlacesOfThread
  <2>3. ASSUME NEW t \in Threads, sem[t] > 0 PROVE stack_top[t] \in Fibers
    BY <2>3 DEF OwnInv, ThreadsKnown, CellsFilled, Filled
  <2>4. QED
    BY <2>1, <2>2, <2>3
       DEF SleeperAccounted, OwnInv, ThreadsKnown, ThreadsListedOnce
<1>4. QED
    BY <1>1, <1>2, <1>3

LEMMA Owning == Spec => []OwnInv
<1>1. Init => OwnInv
    BY InitOwn
<1>2. OwnInv /\ [Next]_vars => OwnInv'
    BY NextOwn
<1>3. QED
    BY <1>1, <1>2, PTL DEF Spec

(* No stack is lost, run by two threads or reused while it is in use:      *)
(* whatever enqueue_fiber, enqueue_fiber_list, fiber_switch, spawn, exit   *)
(* and the wakers do, each existing fiber is in one place.                 *)
THEOREM EachFiberOwnedOnce == Spec => []OneOwner
BY Owning, OwnImplies, PTL

(* A fiber that another thread can find has saved its stack, although      *)
(* fiber_switch publishes it from the stack it left for.                   *)
THEOREM PublishedIsSaved == Spec => []SavedBeforePublished
BY Owning, OwnImplies, PTL

(* Every sleeping worker is listed as idle, held by one dealer, or         *)
(* signalled once and with a fiber to run.                                 *)
THEOREM NoSleeperForgotten == Spec => []SleeperAccounted
BY Owning, OwnImplies, PTL

-----------------------------------------------------------------------------
(* Facts for the modules of the primitives, in which fibers wait.          *)

(* The fiber f of thread t is on its way into a wait list: t still has to  *)
(* leave f's stack, or to execute the deferred release for it.             *)
Releasing(t, f) ==
    \/ pc[t] = "switch" /\ deferred[t] = "release" /\ running[t] = f
    \/ pc[t] = "release" /\ it[t] = f

LEMMA ReleasesOne ==
    ASSUME OwnInv, NEW t \in Threads
    PROVE  /\ deferred[t] = "release" \/ pc[t] = "release" <=>
                \E f \in Fibers : Releasing(t, f)
           /\ \A f, g \in Fibers : Releasing(t, f) /\ Releasing(t, g) => f = g
           /\ \A f \in Fibers : pc[t] = "user" => ~Releasing(t, f)
BY Names DEF OwnInv, TypeInv, Registers, Locals, AgentLocals, Releasing

(* Only Release and the actions that park or wake a fiber change that.     *)
LEMMA NoneParks ==
    ASSUME OwnInv, TypeOK', NEW t \in Agents,
           \/ t \in Threads /\ LibraryStep(t) /\ pc[t] # "release"
           \/ ListStep(t)
           \/ t \in Threads /\ (Spawn(t) \/ Yield(t) \/ Exit(t))
    PROVE  /\ parked' = parked
           /\ \A u \in Threads, f \in Fibers : Releasing(u, f)' <=> Releasing(u, f)
<1> USE Names DEF GoTo, Return, PopFiber, contexts
<1>1. /\ TypeOK /\ pc \in [Agents -> Labels] /\ deferred \in [Threads -> Deferrals]
      /\ t \in Threads /\ deferred[t] # "none" => pc[t] = "switch"
    BY DEF OwnInv, TypeInv, TypeOK, Locals, AgentLocals
<1>2. /\ ReturnLabel(t) \notin {"switch", "release"}
      /\ \A c : Resume(c) \notin {"switch", "release"}
    BY ReturnsTo DEF OwnInv, Resume
<1>3. CASE t \in Threads /\ FiberSwitch(t)
  <2>1. parked' = parked /\ pc[t] = "switch"
    BY <1>3 DEF FiberSwitch
  <2>2. /\ deferred'[t] = "none"
        /\ \A u \in Threads : u # t => /\ pc'[u] = pc[u] /\ it'[u] = it[u]
                                    /\ deferred'[u] = deferred[u]
                                    /\ running'[u] = running[u]
    <3>1. \A u \in Threads : u # t => pc'[u] = pc[u] /\ it'[u] = it[u]
      <4>1. (\E c : it' = [it EXCEPT ![t] = c]) /\ \E l : pc' = [pc EXCEPT ![t] = l]
        BY <1>3 DEF FiberSwitch
      <4>2. QED
        BY <1>1, <4>1 DEF TypeOK
    <3>2. /\ deferred' = [deferred EXCEPT ![t] = "none"]
          /\ running' = [running EXCEPT ![t] = stack_top[it[t]]]
        BY <1>3 DEF FiberSwitch
    <3>3. QED
        BY <1>1, <1>3, <3>1, <3>2 DEF TypeOK
  <2>3. CASE deferred[t] = "none"
    <3>1. pc'[t] \notin {"switch", "release"}
        BY <1>1, <1>2, <1>3, <2>3 DEF FiberSwitch, TypeOK
    <3>2. QED
        BY <2>1, <2>2, <2>3, <3>1 DEF Releasing
  <2>4. CASE deferred[t] # "none"
    <3>1. pc'[t] = deferred[t] /\ it'[t] = running[t]
        BY <1>1, <1>3, <2>4 DEF FiberSwitch, TypeOK
    <3>2. QED
        BY <1>1, <2>1, <2>2, <2>4, <3>1 DEF Releasing, Deferrals
  <2>5. QED
    BY <2>3, <2>4
<1>4. CASE t \in Threads /\ (WorkThreadLoop(t) \/ SemaphoreWait(t))
  <2>1. /\ parked' = parked /\ pc[t] \in {"loop", "wait"}
        /\ UNCHANGED <<deferred, contexts>>
    BY <1>4 DEF WorkThreadLoop, SemaphoreWait
  <2>2. /\ pc'[t] # "release"
        /\ \A u \in Threads : u # t => pc'[u] = pc[u] /\ it'[u] = it[u]
    BY <1>1, <1>4 DEF WorkThreadLoop, SemaphoreWait, TypeOK
  <2>3. QED
    BY <1>1, <1>4, <2>1, <2>2 DEF Releasing
<1>5. CASE t \in Threads /\ (EnqueueFiber(t) \/ Handover(t) \/ Signal(t) \/ RecycleFiber(t))
  <2>1. /\ parked' = parked /\ UNCHANGED <<deferred, running>>
        /\ pc[t] \notin {"switch", "release"}
    BY <1>5 DEF EnqueueFiber, Handover, Signal, RecycleFiber
  <2>2. /\ pc'[t] \notin {"switch", "release"}
        /\ \A u \in Threads : u # t => pc'[u] = pc[u] /\ it'[u] = it[u]
    BY <1>1, <1>2, <1>5 DEF EnqueueFiber, Handover, Signal, RecycleFiber, TypeOK
  <2>3. QED
    BY <2>1, <2>2 DEF Releasing
<1>6. CASE ListStep(t)
  <2>1. /\ parked' = parked /\ UNCHANGED <<deferred, running, it>>
        /\ pc[t] \notin {"switch", "release"}
    BY <1>6 DEF ListStep, ListEnqueue, Deal, DealSignal, DealOutOfThreads, DealDone,
                ReturnIdleThreads, TakeRunQueue
  <2>2. /\ pc'[t] \notin {"switch", "release"}
        /\ \A u \in Threads : u # t => pc'[u] = pc[u]
    <3>1. \/ UNCHANGED pc
          \/ \E l \in {"list", "deal", "dealsignal", ReturnLabel(t)} :
                pc' = [pc EXCEPT ![t] = l]
        BY <1>6 DEF ListStep, ListEnqueue, Deal, DealSignal, DealOutOfThreads,
                    DealDone, ReturnIdleThreads, TakeRunQueue
    <3>2. QED
        BY <1>1, <1>2, <2>1, <3>1
  <2>3. QED
    BY <2>1, <2>2 DEF Releasing
<1>7. CASE t \in Threads /\ (Spawn(t) \/ Yield(t) \/ Exit(t))
  <2>1. /\ parked' = parked /\ UNCHANGED running /\ pc[t] = "user"
    BY <1>7 DEF Spawn, Yield, Exit
  <2>2. /\ pc'[t] # "release" /\ deferred'[t] # "release"
        /\ \A u \in Threads : u # t => /\ pc'[u] = pc[u] /\ it'[u] = it[u]
                                    /\ deferred'[u] = deferred[u]
    <3>1. /\ \E l \in {"enqueue", "switch"} : pc' = [pc EXCEPT ![t] = l]
          /\ \E c : it' = [it EXCEPT ![t] = c]
        BY <1>7 DEF Spawn, Yield, Exit, GetAvailableFiber
    <3>2. \/ UNCHANGED deferred
          \/ \E d \in {"enqueue", "recycle"} : deferred' = [deferred EXCEPT ![t] = d]
        BY <1>7 DEF Spawn, Yield, Exit
    <3>3. deferred[t] # "release"
        BY <1>1, <1>7, <2>1
    <3>4. /\ pc'[t] # "release"
          /\ \A u \in Threads : u # t => pc'[u] = pc[u] /\ it'[u] = it[u]
        BY <1>1, <3>1 DEF TypeOK
    <3>5. /\ deferred'[t] # "release"
          /\ \A u \in Threads : u # t => deferred'[u] = deferred[u]
        BY <1>1, <1>7, <3>2, <3>3
    <3>6. QED
        BY <3>4, <3>5
  <2>3. QED
    BY <1>7, <2>1, <2>2 DEF Releasing
<1>8. LibraryStep(t) /\ pc[t] # "release" => ~Release(t)
    BY DEF Release
<1>9. QED
    BY <1>3, <1>4, <1>5, <1>6, <1>7, <1>8 DEF LibraryStep

(* A fiber in a wait list, or on its way into it, does not execute: it is  *)
(* in one place.  (Stated of the next state, for calls that return.)       *)
LEMMA WaiterIsOff ==
    ASSUME OwnInv', NEW f \in Fibers,
           f \in parked' \/ \E t \in Threads : Releasing(t, f)'
    PROVE  ~Executing(f)'
<1> USE Names DEF Holders
<1>1. \A k, k2 \in Kinds, a, a2 \in Holders :
        Sits(f, k, a)' /\ Sits(f, k2, a2)' => k = k2 /\ a = a2
    BY DEF OwnInv, FibersOwned, Owned, SitsAt
<1>2. ASSUME NEW u \in Threads, running'[u] = f PROVE pc'[u] # "user"
  <2>1. Sits(f, "running", u)' /\ "running" \in Kinds /\ u \in Holders
    BY <1>2 DEF Sits, Kinds
  <2>2. CASE f \in parked'
    <3>1. Sits(f, "parked", NULL)' /\ "parked" \in Kinds /\ NULL \in Holders
        BY <2>2 DEF Sits, Kinds
    <3>2. QED
        BY <1>1, <2>1, <3>1
  <2>3. ASSUME NEW t \in Threads, Releasing(t, f)' PROVE pc'[u] # "user"
    <3>1. CASE pc'[t] = "release" /\ it'[t] = f
      <4>1. Sits(f, "it", t)' /\ "it" \in Kinds /\ t \in Holders
        BY <3>1 DEF Sits, Kinds
      <4>2. QED
        BY <1>1, <2>1, <4>1
    <3>2. CASE pc'[t] = "switch" /\ running'[t] = f
      <4>1. Sits(f, "running", t)' /\ t \in Holders
        BY <3>2 DEF Sits
      <4>2. t = u
        BY <1>1, <2>1, <4>1
      <4>3. QED
        BY <3>2, <4>2
    <3>3. QED
        BY <2>3, <3>1, <3>2 DEF Releasing
  <2>4. QED
    BY <2>2, <2>3
<1>3. QED
    BY <1>2 DEF Executing

(* A fiber that executes is in no wait list.                               *)
LEMMA RunnerNotParked ==
    ASSUME OwnInv, NEW t \in Threads, pc[t] = "user"
    PROVE  running[t] \in Fibers /\ running[t] \notin parked
<1> USE Names DEF Holders
<1>1. PICK f \in Fibers : f = running[t]
    BY DEF OwnInv, TypeInv, Registers
<1>2. Sits(f, "running", t) /\ "running" \in Kinds /\ t \in Holders
    BY <1>1 DEF Sits, Kinds
<1>3. ~Sits(f, "parked", NULL)
    BY <1>2, FiberFound DEF OwnInv, Kinds
<1>4. QED
    BY <1>1, <1>3 DEF Sits

(* There are finitely many fibers in wait lists at any time.               *)
LEMMA ParkedFinite ==
    ASSUME IsFiniteSet(parked), [Next]_vars
    PROVE  IsFiniteSet(parked')
<1> USE DEF vars
<1>1. CASE parked' \in SUBSET parked
    BY <1>1, FS_Subset
<1>2. ASSUME NEW t \in Threads, Release(t) PROVE IsFiniteSet(parked')
    BY <1>2, FS_AddElement DEF Release
<1>3. QED
  <2>1. ASSUME NEW t \in Threads, LibraryStep(t), ~Release(t)
        PROVE  parked' \in SUBSET parked
    BY <2>1 DEF LibraryStep, WorkThreadLoop, SemaphoreWait, FiberSwitch,
                EnqueueFiber, Handover, Signal, RecycleFiber
  <2>2. ASSUME NEW t \in Threads, ClientStep(t) PROVE parked' \in SUBSET parked
    BY <2>2 DEF ClientStep, Spawn, Yield, Exit, Park, Sleep, WakeOne, Handoff
  <2>3. ASSUME NEW a \in Agents, ListStep(a) PROVE parked' \in SUBSET parked
    BY <2>3 DEF ListStep, ListEnqueue, Deal, DealSignal, DealOutOfThreads, DealDone,
                ReturnIdleThreads, TakeRunQueue
  <2>4. ASSUME NEW a \in Agents, NEW l \in WakeOrders, WakeList(a, l)
        PROVE  parked' \in SUBSET parked
    BY <2>4 DEF WakeList
  <2>5. QED
    BY <1>1, <1>2, <2>1, <2>2, <2>3, <2>4 DEF Next

(* A wait list without repetitions is what close or destroy may wake.      *)
LEMMA MayBeWoken ==
    ASSUME IsFiniteSet(parked), NEW S, NEW l \in Seq(S), IsInjective(l),
           Range(l) \subseteq parked
    PROVE  l \in WakeOrders
<1>1. /\ Len(l) \in Nat /\ DOMAIN l = 1..Len(l)
      /\ l = [i \in 1..Len(l) |-> l[i]]
    BY LenProperties
<1>2. l \in [1..Len(l) -> parked]
    BY <1>1 DEF Range
<1>3. l \in Injection(1..Len(l), parked)
    BY <1>2 DEF Injection
<1>4. Cardinality(1..Len(l)) <= Cardinality(parked)
    BY <1>3, FS_Injection
<1>5. Cardinality(1..Len(l)) = Len(l) /\ Cardinality(parked) \in Nat
  <2>1. Cardinality(1..Len(l)) = IF 1 > Len(l) THEN 0 ELSE Len(l) - 1 + 1
    BY <1>1, FS_Interval, 1 \in Int, Len(l) \in Int
  <2>2. Cardinality(parked) \in Nat
    BY FS_CardinalityType
  <2>3. QED
    BY <1>1, <2>1, <2>2
<1>6. Len(l) \in 0..Cardinality(parked)
    BY <1>1, <1>4, <1>5
<1>7. QED
    BY <1>2, <1>6 DEF WakeOrders

-----------------------------------------------------------------------------
(* The scheduler implements FiberLifecycle.  Where a fiber is decides its  *)
(* status.                                                                 *)
StatusAt(k, a) ==
    IF k = "running" THEN "running"
    ELSE IF k = "disposed" \/ (k = "it" /\ pc[a] = "recycle") THEN "free"
    ELSE IF k = "parked" \/ (k = "it" /\ pc[a] = "release") THEN "blocked"
    ELSE "runnable"

(* A fiber that queues itself leaves for another fiber, not for the loop,  *)
(* and main() does not exit.                                               *)
Leaving(t) ==
    /\ deferred[t] = "enqueue" => it[t] \in Fibers
    /\ deferred[t] = "recycle" => running[t] # MainFiber

LifeInv == OwnInv /\ \A t \in Threads : Leaving(t)

LEMMA StatusFound ==
    OwnInv => \A f \in Fibers, k \in Kinds, a \in Holders :
                  Sits(f, k, a) => Status(f) = StatusAt(k, a)
<1> SUFFICES ASSUME OwnInv, NEW f \in Fibers, NEW k \in Kinds, NEW a \in Holders,
                    Sits(f, k, a)
             PROVE  Status(f) = StatusAt(k, a)
    OBVIOUS
<1> USE Names
<1>1. /\ f \in fiber_pool \cup {MainFiber}
      /\ \A k2 \in Kinds, a2 \in Holders : Sits(f, k2, a2) <=> k2 = k /\ a2 = a
    BY FiberFound DEF OwnInv
<1>2. (\E t \in Threads : running[t] = f) <=> k = "running"
  <2>1. \A t \in Threads : running[t] = f <=> k = "running" /\ a = t
    BY <1>1 DEF Sits, Kinds, Holders
  <2>2. k = "running" => a \in Threads
    BY DEF Sits
  <2>3. QED
    BY <2>1, <2>2
<1>3. f \in Range(disposed_fiber_list) <=> k = "disposed"
  <2>1. f \in Range(disposed_fiber_list) <=> k = "disposed" /\ a = NULL
    BY <1>1 DEF Sits, Kinds, Holders
  <2>2. k = "disposed" => a = NULL
    BY DEF Sits
  <2>3. QED
    BY <2>1, <2>2
<1>4. f \in parked <=> k = "parked"
  <2>1. f \in parked <=> k = "parked" /\ a = NULL
    BY <1>1 DEF Sits, Kinds, Holders
  <2>2. k = "parked" => a = NULL
    BY DEF Sits
  <2>3. QED
    BY <2>1, <2>2
<1>5. ASSUME NEW l \in {"recycle", "release"}
      PROVE  (\E t \in Threads : pc[t] = l /\ it[t] = f) <=> k = "it" /\ pc[a] = l
  <2>1. \A t \in Threads : it[t] = f <=> k = "it" /\ a = t
    BY <1>1 DEF Sits, Kinds, Holders
  <2>2. k = "it" /\ pc[a] = l => a \in Threads
    BY DEF Sits, OwnInv, Locals, AgentLocals
  <2>3. QED
    BY <2>1, <2>2
<1>6. QED
    BY <1>1, <1>2, <1>3, <1>4, <1>5 DEF Status, StatusAt

LEMMA StatusFoundNext ==
    OwnInv' => (\A f \in Fibers, k \in Kinds, a \in Holders :
                   Sits(f, k, a) => Status(f) = StatusAt(k, a))'
BY StatusFound, PTL

LEMMA StatusUnused ==
    ASSUME OwnInv, NEW f \in Fibers, f \notin fiber_pool \cup {MainFiber}
    PROVE  Status(f) = "free"
<1>1. \A t \in Threads : ~Sits(f, "running", t)
    BY Names DEF OwnInv, FibersOwned, Owned, Kinds, Holders
<1>2. QED
    BY <1>1 DEF Sits, Status

-----------------------------------------------------------------------------
(* A step of one agent changes the status of those fibers only that it     *)
(* puts into, or takes out of, the places that count.                      *)
LEMMA StatusStays ==
    ASSUME NEW f \in Fibers, NEW t \in Agents,
           \A b \in Agents : b # t => pc'[b] = pc[b] /\ it'[b] = it[b],
           \A u \in Threads : running'[u] = f <=> running[u] = f,
           f \in fiber_pool' <=> f \in fiber_pool,
           f \in Range(disposed_fiber_list') <=> f \in Range(disposed_fiber_list),
           f \in parked' <=> f \in parked,
           it[t] = f => pc[t] \notin {"recycle", "release"},
           it'[t] = f => pc'[t] \notin {"recycle", "release"}
    PROVE  Status(f)' = Status(f)
<1>1. ASSUME NEW l \in {"recycle", "release"}, NEW u \in Threads
      PROVE  (pc'[u] = l /\ it'[u] = f) <=> (pc[u] = l /\ it[u] = f)
    BY DEF Agents
<1>2. QED
    BY <1>1 DEF Status

LEMMA QuietSteps ==
    ASSUME OwnInv, OwnInv', NEW t \in Agents,
           \/ t \in Threads /\ \/ WorkThreadLoop(t) \/ SemaphoreWait(t)
                               \/ EnqueueFiber(t) \/ Handover(t) \/ Signal(t)
                               \/ Yield(t) \/ Exit(t) \/ Park(t) \/ Sleep(t)
           \/ ListStep(t)
    PROVE  \A f \in Fibers : Status(f)' = Status(f)
<1> USE Names DEF GoTo, Return, memory, contexts, queues, lists
<1>1. TypeOK /\ TypeOK'
    BY DEF OwnInv, TypeInv
<1>2. ReturnLabel(t) \in {"user", "loop", "timer"}
    BY ReturnsTo
<1>3. UNCHANGED <<running, memory, parked>>
    BY DEF WorkThreadLoop, SemaphoreWait, EnqueueFiber, Handover, Signal,
           Yield, Exit, Park, Sleep, ListStep, ListEnqueue, Deal,
           DealSignal, DealOutOfThreads, DealDone, ReturnIdleThreads, TakeRunQueue
<1>4. pc[t] \notin {"recycle", "release"}
    BY DEF WorkThreadLoop, SemaphoreWait, EnqueueFiber, Handover, Signal,
           Yield, Exit, Park, Sleep, ListStep, ListEnqueue, Deal,
           DealSignal, DealOutOfThreads, DealDone, ReturnIdleThreads, TakeRunQueue
<1>5. \/ UNCHANGED pc
      \/ \E l \in Labels \ {"recycle", "release"} : pc' = [pc EXCEPT ![t] = l]
    BY <1>2 DEF WorkThreadLoop, SemaphoreWait, EnqueueFiber, Handover, Signal,
           Yield, Exit, Park, Sleep, ListStep, ListEnqueue, Deal,
           DealSignal, DealOutOfThreads, DealDone, ReturnIdleThreads,
           TakeRunQueue, Labels
<1>6. UNCHANGED it \/ \E c : it' = [it EXCEPT ![t] = c]
    BY DEF WorkThreadLoop, SemaphoreWait, EnqueueFiber, Handover, Signal,
           Yield, Exit, Park, Sleep, GetAvailableFiber, PopFiber, ListStep,
           ListEnqueue, Deal, DealSignal, DealOutOfThreads, DealDone,
           ReturnIdleThreads, TakeRunQueue
<1>7. /\ pc'[t] \notin {"recycle", "release"}
      /\ \A b \in Agents : b # t => pc'[b] = pc[b] /\ it'[b] = it[b]
    BY <1>1, <1>4, <1>5, <1>6 DEF TypeOK
<1>8. QED
    BY <1>3, <1>4, <1>7, StatusStays

(* The deferred calls put a fiber where its status says it is already.     *)
LEMMA DeferredStatus ==
    ASSUME OwnInv, OwnInv', NEW t \in Threads, RecycleFiber(t) \/ Release(t),
           NEW f \in Fibers
    PROVE  Status(f)' = Status(f)
<1> USE Names DEF GoTo, Return, contexts, queues, lists
<1>1. /\ TypeOK /\ TypeOK' /\ t \in Agents /\ it[t] \in Fibers
      /\ pc[t] \in {"recycle", "release"}
    BY DEF OwnInv, TypeInv, Registers, RecycleFiber, Release
<1>2. PICK g \in Fibers : g = it[t]
    BY <1>1
<1>3. PICK l \in {"user", "loop", "timer"} : l = ReturnLabel(t)
    BY <1>1, ReturnsTo
<1>4. /\ pc'[t] = l /\ it'[t] = NULL
      /\ \A b \in Agents : b # t => pc'[b] = pc[b] /\ it'[b] = it[b]
    BY <1>1, <1>3 DEF RecycleFiber, Release, TypeOK
<1>5. CASE f = g
  <2>1. Status(f) = StatusAt("it", t)
    <3>1. Sits(f, "it", t)
        BY <1>1, <1>2, <1>5 DEF Sits
    <3>2. QED
        BY <3>1, StatusFound DEF Kinds, Holders
  <2>2. CASE RecycleFiber(t)
    <3>1. Sits(f, "disposed", NULL)'
        BY <1>1, <1>2, <1>5, <2>2, ListedAppend DEF RecycleFiber, Sits, TypeOK
    <3>2. Status(f)' = StatusAt("disposed", NULL)'
        BY <3>1, StatusFoundNext DEF Kinds, Holders
    <3>3. QED
        BY <2>1, <2>2, <3>2 DEF StatusAt, RecycleFiber
  <2>3. CASE Release(t)
    <3>1. Sits(f, "parked", NULL)'
        BY <1>2, <1>5, <2>3 DEF Release, Sits
    <3>2. Status(f)' = StatusAt("parked", NULL)'
        BY <3>1, StatusFoundNext DEF Kinds, Holders
    <3>3. QED
        BY <2>1, <2>3, <3>2 DEF StatusAt, Release
  <2>4. QED
    BY <2>2, <2>3
<1>6. CASE f # g
  <2>1. f \in Range(disposed_fiber_list') <=> f \in Range(disposed_fiber_list)
    <3>1. CASE RecycleFiber(t)
        BY <1>1, <1>2, <1>6, <3>1, ListedAppend DEF RecycleFiber, TypeOK
    <3>2. CASE Release(t)
        BY <3>2 DEF Release, memory
    <3>3. QED
        BY <3>1, <3>2
  <2>2. /\ f \in parked' <=> f \in parked
        /\ UNCHANGED <<running, fiber_pool>>
    BY <1>2, <1>6 DEF RecycleFiber, Release, memory
  <2>3. QED
    BY <1>1, <1>2, <1>4, <1>6, <2>1, <2>2, StatusStays
<1>7. QED
    BY <1>5, <1>6

-----------------------------------------------------------------------------
(* Steps that change the status of one fiber or more.                      *)
St == [f \in Fibers |-> Status(f)]

LEMMA QuietMeans ==
    ASSUME \A f \in Fibers : Status(f)' = Status(f)
    PROVE  St' = St
BY DEF St

LEMMA OneChanges ==
    ASSUME NEW g \in Fibers, NEW s, Status(g)' = s,
           \A f \in Fibers : f # g => Status(f)' = Status(f)
    PROVE  St' = [St EXCEPT ![g] = s]
BY DEF St

(* fiber_spawn takes a stack that no fiber uses.                           *)
LEMMA SpawnCreates ==
    ASSUME OwnInv, OwnInv', NEW t \in Threads, Spawn(t)
    PROVE  Lifecycle!Next
<1> USE Names DEF GoTo, contexts, queues, lists
<1>1. /\ TypeOK /\ TypeOK' /\ FibersOwned /\ t \in Agents
      /\ IsInjective(disposed_fiber_list) /\ pc[t] = "user" /\ it[t] = NULL
    BY ClientHoldsNothing DEF OwnInv, TypeInv, FibersOwned, ListedOnce, Spawn
<1>2. PICK g \in Blocks :
         /\ \/ /\ g \notin fiber_pool
               /\ fiber_pool' = fiber_pool \cup {g}
               /\ UNCHANGED disposed_fiber_list
            \/ /\ disposed_fiber_list # <<>>
               /\ g = stack_top[Head(disposed_fiber_list)]
               /\ disposed_fiber_list' = Tail(disposed_fiber_list)
               /\ UNCHANGED fiber_pool
         /\ it' = [it EXCEPT ![t] = g]
    BY DEF Spawn
<1>3. g \in Fibers
    BY <1>2
<1>4. /\ it'[t] = g /\ pc'[t] = "enqueue" /\ UNCHANGED <<running, parked>>
      /\ \A b \in Agents : b # t => pc'[b] = pc[b] /\ it'[b] = it[b]
    BY <1>1, <1>2 DEF Spawn, TypeOK
<1>5. /\ Status(g) = "free"
      /\ \A f \in Fibers : f # g =>
            /\ f \in fiber_pool' <=> f \in fiber_pool
            /\ f \in Range(disposed_fiber_list') <=> f \in Range(disposed_fiber_list)
  <2>1. CASE g \notin fiber_pool /\ fiber_pool' = fiber_pool \cup {g}
             /\ UNCHANGED disposed_fiber_list
    <3>1. g # MainFiber
        BY <1>2, ConstantsDistinct
    <3>2. QED
        BY <1>3, <2>1, <3>1, StatusUnused
  <2>2. CASE /\ disposed_fiber_list # <<>>
             /\ g = stack_top[Head(disposed_fiber_list)]
             /\ disposed_fiber_list' = Tail(disposed_fiber_list)
             /\ UNCHANGED fiber_pool
    <3>1. PICK h \in Fibers :
             /\ h = Head(disposed_fiber_list) /\ h \in Range(disposed_fiber_list)
             /\ Range(disposed_fiber_list') = Range(disposed_fiber_list) \ {h}
      <4>1. disposed_fiber_list \in Seq(Fibers) /\ disposed_fiber_list # <<>>
        BY <1>1, <2>2 DEF TypeOK
      <4>2. /\ Head(disposed_fiber_list) \in Fibers
            /\ Head(disposed_fiber_list) \in Range(disposed_fiber_list)
            /\ Range(Tail(disposed_fiber_list))
                 = Range(disposed_fiber_list) \ {Head(disposed_fiber_list)}
        BY <1>1, <4>1, ListedPop
      <4>3. QED
        BY <2>2, <4>2
    <3>2. Sits(h, "disposed", NULL)
        BY <3>1 DEF Sits
    <3>3. h = g
        BY <1>1, <2>2, <3>1, <3>2, FiberFound DEF Kinds, Holders
    <3>4. Status(g) = "free"
        BY <3>2, <3>3, StatusFound DEF Kinds, Holders, StatusAt
    <3>5. QED
        BY <2>2, <3>1, <3>3, <3>4
  <2>3. QED
    BY <1>2, <2>1, <2>2
<1>6. Status(g)' = "runnable"
  <2>1. Sits(g, "it", t)'
    BY <1>4 DEF Sits
  <2>2. QED
    BY <1>1, <1>3, <1>4, <2>1, StatusFoundNext DEF Kinds, Holders, StatusAt
<1>7. \A f \in Fibers : f # g => Status(f)' = Status(f)
    BY <1>1, <1>4, <1>5, StatusStays
<1>8. St[g] = "free" /\ St' = [St EXCEPT ![g] = "runnable"]
    BY <1>3, <1>5, <1>6, <1>7, OneChanges DEF St
<1>9. QED
    BY <1>3, <1>8 DEF Lifecycle!Next, Lifecycle!Create, St

(* A fiber, or a list of them, is taken out of a wait list.                *)
LEMMA WakeWakes ==
    ASSUME OwnInv, OwnInv', NEW a \in Agents, NEW S \in SUBSET parked,
           pc[a] \in {"user", "timer"}, pc'[a] \in {"enqueue", "switch", "list"},
           parked' = parked \ S, UNCHANGED <<running, memory>>,
           NEW k \in {"it", "list"}, \A f \in S : Sits(f, k, a)',
           \A b \in Agents : b # a => pc'[b] = pc[b] /\ it'[b] = it[b]
    PROVE  Lifecycle!Next
<1> USE Names DEF memory
<1>1. S \subseteq Fibers
    BY DEF OwnInv, TypeInv, TypeOK
<1>2. ASSUME NEW f \in S
      PROVE  Status(f) = "blocked" /\ Status(f)' = "runnable"
  <2>1. Sits(f, "parked", NULL)
    BY <1>2 DEF Sits
  <2>2. Status(f) = "blocked"
    BY <1>1, <1>2, <2>1, StatusFound DEF Kinds, Holders, StatusAt
  <2>3. Status(f)' = "runnable"
    BY <1>1, <1>2, StatusFoundNext DEF Kinds, Holders, StatusAt
  <2>4. QED
    BY <2>2, <2>3
<1>3. ASSUME NEW f \in Fibers, f \notin S PROVE Status(f)' = Status(f)
    BY <1>3, StatusStays
<1>4. \A f \in S : St[f] = "blocked"
    BY <1>1, <1>2 DEF St
<1>5. St' = [f \in Fibers |-> IF f \in S THEN "runnable" ELSE St[f]]
    BY <1>1, <1>2, <1>3 DEF St
<1>6. Lifecycle!Wake(S)
    BY <1>4, <1>5 DEF Lifecycle!Wake, St
<1>7. QED
    BY <1>1, <1>6 DEF Lifecycle!Next

LEMMA WakeSteps ==
    ASSUME OwnInv, OwnInv', NEW a \in Agents,
           \/ a \in Threads /\ \E f \in parked : WakeOne(a, f) \/ Handoff(a, f)
           \/ \E l \in WakeOrders : WakeList(a, l)
    PROVE  Lifecycle!Next
<1> USE Names DEF GoTo, memory, contexts, queues, lists
<1>1. TypeOK /\ TypeOK'
    BY DEF OwnInv, TypeInv
<1>2. ASSUME NEW f \in parked, a \in Threads, WakeOne(a, f) \/ Handoff(a, f)
      PROVE  Lifecycle!Next
  <2>1. /\ pc[a] = "user" /\ pc'[a] \in {"enqueue", "switch"} /\ it'[a] = f
        /\ \A b \in Agents : b # a => pc'[b] = pc[b] /\ it'[b] = it[b]
        /\ parked' = parked \ {f} /\ UNCHANGED <<running, memory>>
    BY <1>1, <1>2 DEF WakeOne, Handoff, TypeOK
  <2>2. PICK S \in SUBSET parked : S = {f}
    OBVIOUS
  <2>3. parked' = parked \ S /\ \A g \in S : Sits(g, "it", a)'
    BY <2>1, <2>2 DEF Sits
  <2>4. QED
    BY <2>1, <2>3, WakeWakes
<1>3. ASSUME NEW l \in WakeOrders, WakeList(a, l)
      PROVE  Lifecycle!Next
  <2>1. Range(l) \in SUBSET parked
    BY <1>3 DEF WakeOrders, Range
  <2>2. /\ pc[a] \in {"user", "timer"} /\ pc'[a] = "list" /\ flist'[a] = l
        /\ \A b \in Agents : b # a => pc'[b] = pc[b] /\ it'[b] = it[b]
        /\ parked' = parked \ Range(l) /\ UNCHANGED <<running, memory>>
    BY <1>1, <1>3 DEF WakeList, TypeOK
  <2>3. \A g \in Range(l) : Sits(g, "list", a)'
    BY <2>2 DEF Sits
  <2>4. QED
    BY <2>1, <2>2, <2>3, WakeWakes
<1>4. QED
    BY <1>2, <1>3

(* Of the threads that do not run t's context, at most one less than there *)
(* are threads runs a fiber.                                               *)
LEMMA ThreadToSpare ==
    ASSUME OwnInv, NEW t \in Threads, running[t] \notin Fibers
    PROVE  Cardinality(Lifecycle!Running) < Cardinality(Threads)
<1> DEFINE R == Lifecycle!Running
           U == Threads \ {t}
           h == [f \in R |-> CHOOSE u \in Threads : running[u] = f]
<1>1. \A f \in R : f \in Fibers /\ \E u \in Threads : running[u] = f
    BY DEF Lifecycle!Running, Status
<1>2. \A f \in R : h[f] \in U /\ running[h[f]] = f
    BY <1>1
<1>3. h \in Injection(R, U)
    BY <1>2 DEF Injection, IsInjective
<1>4. IsFiniteSet(Threads)
    BY WorkersFinite, FS_AddElement DEF Threads
<1>5. IsFiniteSet(U) /\ Cardinality(U) = Cardinality(Threads) - 1
    BY <1>4, FS_RemoveElement
<1>6. Cardinality(R) <= Cardinality(U) /\ IsFiniteSet(R)
    BY <1>3, <1>5, FS_Injection
<1>7. Cardinality(R) \in Nat /\ Cardinality(Threads) \in Nat
    BY <1>4, <1>6, FS_CardinalityType
<1>8. QED
    BY <1>5, <1>6, <1>7

(* fiber_switch: the fiber that stops gets the status that its deferred    *)
(* call is for, the one that was taken out of a queue or handed over runs. *)
LEMMA SwitchStep ==
    ASSUME LifeInv, OwnInv', NEW t \in Threads, FiberSwitch(t)
    PROVE  Lifecycle!Next
<1> USE Names DEF GoTo, queues, memory, lists
<1>1. /\ OwnInv /\ TypeOK /\ TypeOK' /\ t \in Agents /\ pc[t] = "switch"
      /\ it[t] \in Fibers \cup {t} /\ running[t] \in Fibers \cup {t}
      /\ running[t] \in Fibers <=> deferred[t] # "none"
      /\ running[t] \in Fibers => stack_top[t] = t
      /\ running'[t] \in Fibers \cup {t}
      /\ UNCHANGED <<memory, parked>>
    BY DEF LifeInv, OwnInv, TypeInv, Registers, FiberSwitch, Locals, AgentLocals,
           LoopSaved, ThreadLoop
<1>2. PICK in \in Fibers \cup {t} : in = stack_top[it[t]] /\ in = running'[t]
    BY <1>1 DEF FiberSwitch, TypeOK
<1>3. PICK out \in Fibers \cup {t} : out = running[t]
    BY <1>1
<1>4. /\ \A u \in Threads : u # t => running'[u] = running[u]
      /\ \A b \in Agents : b # t => pc'[b] = pc[b] /\ it'[b] = it[b]
      /\ IF deferred[t] = "none" THEN it'[t] = NULL /\ pc'[t] = Resume(in)
                                ELSE it'[t] = out /\ pc'[t] = deferred[t]
    BY <1>1, <1>2, <1>3 DEF FiberSwitch, TypeOK
<1>5. ASSUME NEW f \in Fibers, f # in, f # out PROVE Status(f)' = Status(f)
  <2>1. it'[t] # f
    BY <1>4, <1>5
  <2>2. \A u \in Threads : running'[u] = f <=> running[u] = f
    BY <1>2, <1>3, <1>4, <1>5
  <2>3. QED
    BY <1>1, <1>4, <2>1, <2>2, StatusStays
<1>6. it[t] \in Fibers => it[t] = in
  <2>1. SUFFICES ASSUME NEW g \in Fibers, g = it[t] PROVE g = in
    OBVIOUS
  <2>2. Sits(g, "it", t)
    BY <1>1, <2>1 DEF Sits
  <2>3. stack_top[g] = g
    BY <1>1, <2>2, FiberFound DEF OwnInv, Kinds, Holders
  <2>4. QED
    BY <1>2, <2>1, <2>3
<1>7. ASSUME in \in Fibers PROVE Status(in) = "runnable" /\ Status(in)' = "running"
  <2>1. Sits(in, "it", t) \/ Sits(in, "cell", t)
    BY <1>1, <1>2, <1>7, <1>6 DEF Sits
  <2>2. Status(in) = "runnable"
    BY <1>1, <1>7, <2>1, StatusFound DEF Kinds, Holders, StatusAt
  <2>3. Sits(in, "running", t)'
    BY <1>2 DEF Sits
  <2>4. Status(in)' = "running"
    BY <1>7, <2>3, StatusFoundNext DEF Kinds, Holders, StatusAt
  <2>5. QED
    BY <2>2, <2>4
<1>8. ASSUME out \in Fibers
      PROVE  /\ Status(out) = "running"
             /\ deferred[t] \in {"enqueue", "recycle", "release"}
             /\ deferred[t] = "enqueue" => Status(out)' = "runnable"
             /\ deferred[t] = "recycle" => Status(out)' = "free"
             /\ deferred[t] = "release" => Status(out)' = "blocked"
  <2>1. Sits(out, "running", t)
    BY <1>3 DEF Sits
  <2>2. Status(out) = "running"
    BY <1>1, <1>8, <2>1, StatusFound DEF Kinds, Holders, StatusAt
  <2>3. Sits(out, "it", t)' /\ pc'[t] = deferred[t]
    BY <1>1, <1>3, <1>4, <1>8 DEF Sits
  <2>4. Status(out)' = StatusAt("it", t)'
    BY <1>1, <1>8, <2>3, StatusFoundNext DEF Kinds, Holders
  <2>5. deferred[t] \in {"enqueue", "recycle", "release"}
    BY <1>1, <1>3, <1>8 DEF TypeOK, Deferrals
  <2>6. QED
    BY <2>2, <2>3, <2>4, <2>5 DEF StatusAt
<1>9. CASE out = t
  <2>1. in \in Fibers
    <3>1. it[t] = t => Filled(t)
        BY <1>1, <1>3, <1>9 DEF Filled
    <3>2. QED
        BY <1>1, <1>2, <1>6, <3>1 DEF OwnInv, CellsFilled
  <2>2. /\ St[in] = "runnable"
        /\ St' = [St EXCEPT ![in] = "running"]
    BY <1>5, <1>7, <1>9, <2>1, OneChanges DEF St
  <2>3. Cardinality(Lifecycle!Running) < Cardinality(Threads)
    BY <1>1, <1>3, <1>9, ThreadToSpare
  <2>4. Lifecycle!Dispatch(in)
    <3>1. Lifecycle!Cardinality(Lifecycle!Running) = Cardinality(Lifecycle!Running)
        BY DEF Lifecycle!Cardinality, Cardinality
    <3>2. QED
        BY <2>2, <2>3, <3>1 DEF Lifecycle!Dispatch, St
  <2>5. QED
    BY <2>1, <2>4 DEF Lifecycle!Next
<1>10. CASE out \in Fibers
  <2>1. PICK s \in {"runnable", "free", "blocked"} :
          /\ Status(out)' = s
          /\ s = "runnable" => deferred[t] = "enqueue"
          /\ s = "free" => deferred[t] = "recycle"
    BY <1>8, <1>10
  <2>2. St[out] = "running"
    BY <1>8, <1>10 DEF St
  <2>3. s = "free" => out # MainFiber
    BY <1>3, <2>1 DEF LifeInv, Leaving
  <2>4. CASE in \in Fibers
    <3>1. in # out /\ St[in] = "runnable"
        BY <1>7, <1>8, <1>10, <2>4 DEF St
    <3>2. St' = [St EXCEPT ![out] = s, ![in] = "running"]
        BY <1>5, <1>7, <1>10, <2>1, <2>4, <3>1 DEF St
    <3>3. Lifecycle!Replace(out, s, in)
        BY <2>2, <3>1, <3>2 DEF Lifecycle!Replace, St
    <3>4. QED
        BY <1>10, <2>3, <2>4, <3>3 DEF Lifecycle!Next
  <2>5. CASE in = t
    <3>1. s # "runnable"
        BY <1>6, <2>1, <2>5 DEF LifeInv, Leaving
    <3>2. St' = [St EXCEPT ![out] = s]
        BY <1>5, <1>10, <2>1, <2>5, OneChanges
    <3>3. Lifecycle!Leave(out, s)
        BY <2>2, <3>2 DEF Lifecycle!Leave, St
    <3>4. QED
        BY <1>10, <2>3, <3>1, <3>3 DEF Lifecycle!Next
  <2>6. QED
    BY <2>4, <2>5
<1>11. QED
    BY <1>9, <1>10

-----------------------------------------------------------------------------
(* Leaving is kept: only a running fiber sets deferred, and only the       *)
(* switch clears it.                                                       *)
LEMMA InitLeaving == Init => \A t \in Threads : Leaving(t)
BY DEF Init, Leaving

LEMMA NextLeaving ==
    ASSUME LifeInv, OwnInv', [Next]_vars
    PROVE  \A t \in Threads : Leaving(t)'
<1> USE Names DEF GoTo, queues, memory, contexts, lists
<1>1. /\ OwnInv /\ TypeOK /\ TypeOK' /\ (\A t \in Threads : Leaving(t))
      /\ \A t \in Threads : deferred[t] # "none" => pc[t] = "switch"
    BY DEF LifeInv, OwnInv, TypeInv, Locals, AgentLocals
<1>2. ASSUME NEW a \in Agents, pc[a] # "switch", UNCHANGED <<running, deferred>>,
             \A b \in Agents : b # a => it'[b] = it[b],
             NEW t \in Threads
      PROVE  Leaving(t)'
    BY <1>1, <1>2 DEF Leaving
<1>3. ASSUME NEW a \in Threads, FiberSwitch(a), NEW t \in Threads
      PROVE  Leaving(t)'
  <2>1. /\ deferred' = [deferred EXCEPT ![a] = "none"]
        /\ running' = [running EXCEPT ![a] = stack_top[it[a]]]
        /\ \E c : it' = [it EXCEPT ![a] = c]
    BY <1>3 DEF FiberSwitch
  <2>2. QED
    BY <1>1, <2>1 DEF TypeOK, Leaving
<1>4. ASSUME NEW a \in Threads, LibraryStep(a), ~FiberSwitch(a), NEW t \in Threads
      PROVE  Leaving(t)'
  <2>1. pc[a] # "switch" /\ UNCHANGED <<running, deferred>>
    BY <1>4 DEF LibraryStep, WorkThreadLoop, SemaphoreWait, EnqueueFiber,
                Handover, Signal, RecycleFiber, Release
  <2>2. UNCHANGED it \/ \E c : it' = [it EXCEPT ![a] = c]
    BY <1>4 DEF LibraryStep, WorkThreadLoop, PopFiber, SemaphoreWait,
                EnqueueFiber, Handover, Signal, RecycleFiber, Release
  <2>3. QED
    <3>1. \A b \in Agents : b # a => it'[b] = it[b]
        BY <1>1, <2>2 DEF TypeOK
    <3>2. QED
        BY <1>2, <2>1, <3>1
<1>5. ASSUME NEW a \in Agents, \/ ListStep(a)
                               \/ \E l \in WakeOrders : WakeList(a, l),
             NEW t \in Threads
      PROVE  Leaving(t)'
  <2>1. pc[a] # "switch" /\ UNCHANGED <<running, deferred, it>>
    BY <1>5 DEF WakeList, ListStep, ListEnqueue, Deal, DealSignal,
                DealOutOfThreads, DealDone, ReturnIdleThreads, TakeRunQueue
  <2>2. QED
    BY <1>2, <2>1
<1>6. ASSUME NEW a \in Threads, ClientStep(a), NEW t \in Threads
      PROVE  Leaving(t)'
  <2>1. pc[a] = "user" /\ UNCHANGED running
    BY <1>6 DEF ClientStep, Spawn, Yield, Exit, Park, Sleep, WakeOne, Handoff
  <2>2. \E c : it' = [it EXCEPT ![a] = c]
    BY <1>6 DEF ClientStep, Spawn, Yield, Exit, Park, Sleep, WakeOne, Handoff,
                GetAvailableFiber, PopFiber
  <2>3. CASE Yield(a) \/ \E f \in parked : Handoff(a, f)
    <3>1. PICK f \in Fibers : it' = [it EXCEPT ![a] = f]
        BY <1>1, <2>3, PopTyped DEF Yield, PopFiber, Handoff, TypeOK
    <3>2. deferred' = [deferred EXCEPT ![a] = "enqueue"]
        BY <2>3 DEF Yield, Handoff
    <3>3. QED
        BY <1>1, <2>1, <3>1, <3>2 DEF TypeOK, Leaving
  <2>4. CASE Exit(a)
    <3>1. running[a] # MainFiber /\ deferred' = [deferred EXCEPT ![a] = "recycle"]
        BY <2>4 DEF Exit
    <3>2. QED
        BY <1>1, <2>1, <2>2, <3>1 DEF TypeOK, Leaving
  <2>5. CASE Park(a) \/ Sleep(a)
    <3>1. deferred' = [deferred EXCEPT ![a] = "release"]
        BY <2>5 DEF Park, Sleep
    <3>2. QED
        BY <1>1, <2>1, <2>2, <3>1 DEF TypeOK, Leaving
  <2>6. CASE Spawn(a) \/ \E f \in parked : WakeOne(a, f)
    <3>1. UNCHANGED deferred
        BY <2>6 DEF Spawn, WakeOne
    <3>2. \A b \in Agents : b # a => it'[b] = it[b]
        BY <1>1, <2>2 DEF TypeOK
    <3>3. QED
        BY <1>2, <2>1, <3>1, <3>2
  <2>7. QED
    BY <1>6, <2>3, <2>4, <2>5, <2>6 DEF ClientStep
<1>7. CASE UNCHANGED vars
    BY <1>1, <1>7 DEF vars, Leaving
<1>8. QED
    BY <1>3, <1>4, <1>5, <1>6, <1>7 DEF Next

LEMMA LifecycleStep ==
    ASSUME LifeInv, OwnInv', [Next]_vars
    PROVE  [Lifecycle!Next]_St
<1>1. OwnInv
    BY DEF LifeInv
<1>2. ASSUME NEW t \in Threads, LibraryStep(t) PROVE [Lifecycle!Next]_St
    BY <1>1, <1>2, Names, QuietSteps, DeferredStatus, QuietMeans, SwitchStep
       DEF LibraryStep
<1>3. ASSUME NEW t \in Threads, ClientStep(t) PROVE [Lifecycle!Next]_St
    BY <1>1, <1>3, Names, QuietSteps, QuietMeans, SpawnCreates, WakeSteps
       DEF ClientStep
<1>4. ASSUME NEW a \in Agents, ListStep(a) PROVE St' = St
    BY <1>1, <1>4, QuietSteps, QuietMeans
<1>5. ASSUME NEW a \in Agents, NEW l \in WakeOrders, WakeList(a, l)
      PROVE  Lifecycle!Next
    BY <1>1, <1>5, WakeSteps
<1>6. CASE UNCHANGED vars
    BY <1>6 DEF vars, queues, memory, contexts, lists, St, Status
<1>7. QED
    BY <1>2, <1>3, <1>4, <1>5, <1>6 DEF Next

(* The scheduler implements FiberLifecycle: a fiber changes its status     *)
(* only as its clients expect, whatever queue, struct or local variable it *)
(* goes through meanwhile.                                                 *)
THEOREM SchedulerIsLifecycle == Spec => LifecycleSpec
<1>1. Init => LifeInv
    BY InitOwn, InitLeaving DEF LifeInv
<1>2. LifeInv /\ [Next]_vars => LifeInv'
    BY NextOwn, NextLeaving DEF LifeInv
<1>3. Init => Lifecycle!Init
    BY Names DEF Init, Lifecycle!Init, Status
<1>4. LifeInv /\ LifeInv' /\ [Next]_vars
        => [Lifecycle!Next]_([f \in Fibers |-> Status(f)])
    BY LifecycleStep DEF St, LifeInv
<1>5. QED
    BY <1>1, <1>2, <1>3, <1>4, PTL DEF Spec, LifecycleSpec, Lifecycle!Spec
=============================================================================
