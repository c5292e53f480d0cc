------------------------- MODULE FiberChannelProofs -------------------------
(***************************************************************************)
(* Theorems about FiberChannel, for any number of threads and fibers: no   *)
(* call is left in a list or on a freed channel, an item is used only      *)
(* while its fiber is off, and the channel uses the scheduler as it must.  *)
(***************************************************************************)
EXTENDS FiberChannel, FiberSchedulerProofs

-----------------------------------------------------------------------------
(* A fiber in a list has left its stack or is about to leave it with the   *)
(* spinlock held.                                                          *)
OnItsWay(f) == f \in parked \/ \E t \in Threads : Releasing(t, f)

Listed == Range(ritem_list) \cup Range(witem_list)

ListsWait ==
    /\ IsInjective(ritem_list) /\ IsInjective(witem_list)
    /\ \A f \in Range(ritem_list) : calls[f] = "receiving"
    /\ \A f \in Range(witem_list) : calls[f] = "sending"
    /\ \A f \in Listed : OnItsWay(f)

(* Which calls have unlinked items, and of what kind of calls.             *)
Takes(c, d) ==
    \/ c \in {"sendmeet", "closing"} /\ d = "receiving"
    \/ c = "receivemeet" /\ d = "sending"
    \/ c = "destroying" /\ d \in {"receiving", "sending"}

(* The unlinked items belong to fibers that left their stacks, in no list  *)
(* and unlinked once.                                                      *)
TakenWait ==
    /\ \A g \in Fibers :
        /\ IsInjective(taken[g])
        /\ calls[g] \in {"sendmeet", "receivemeet"} =>
              \E f \in Fibers : taken[g] = <<f>>
    /\ \A f, g \in Fibers :
        f \in Range(taken[g]) =>
            /\ Takes(calls[g], calls[f])
            /\ f \in parked
            /\ f \notin Listed
            /\ \A h \in Fibers : f \in Range(taken[h]) => g = h

(* One thread at a time is about to unlock the spinlock for a fiber that   *)
(* left, and until then nobody takes it.                                   *)
SpinlockKept ==
    /\ \A t \in Threads, f \in Fibers : Releasing(t, f) => locked
    /\ \A t, u \in Threads, f, g \in Fibers :
          Releasing(t, f) /\ Releasing(u, g) => t = u

(* In the middle of a call a fiber executes.                               *)
InMiddle == {"send", "sendmeet", "receivemeet", "close", "closing", "destroying"}

CallsExecute == \A f \in Fibers : calls[f] \in InMiddle => Executing(f)

(* Once the channel is freed no call uses it.                              *)
Freed ==
    ~alive => /\ ~locked
              /\ \A f \in Fibers : calls[f] \in Away \cup {"none", "destroying"}

ChannelState ==
    /\ OneSided /\ NobodyStranded
    /\ ListsWait /\ TakenWait /\ SpinlockKept /\ CallsExecute /\ Freed

ChannelInv == OwnInv /\ IsFiniteSet(parked) /\ ChannelState

-----------------------------------------------------------------------------
LEMMA InitChannelInv == ChannelInit => ChannelInv
<1> SUFFICES ASSUME ChannelInit PROVE ChannelInv
    OBVIOUS
<1> USE ListedEmpty DEF ChannelInit
<1>1. OwnInv /\ IsFiniteSet(parked)
    BY InitOwn, FS_EmptySet DEF Init
<1>2. OneSided /\ NobodyStranded
    BY EmptySeq DEF OneSided, ChannelTypeOK, NobodyStranded
<1>3. /\ Range(ritem_list) = {} /\ IsInjective(ritem_list)
      /\ Range(witem_list) = {} /\ IsInjective(witem_list)
    OBVIOUS
<1>4. \A g \in Fibers :
         Range(taken[g]) = {} /\ IsInjective(taken[g]) /\ calls[g] = "none"
    OBVIOUS
<1>5. ListsWait /\ TakenWait
    BY <1>3, <1>4 DEF ListsWait, Listed, TakenWait
<1>6. SpinlockKept
    BY Names DEF SpinlockKept, Releasing, Init
<1>7. CallsExecute /\ Freed
    BY DEF CallsExecute, Freed, InMiddle, Away
<1>8. QED
    BY <1>1, <1>2, <1>5, <1>6, <1>7 DEF ChannelInv, ChannelState

-----------------------------------------------------------------------------
(* The lists and the unlinked items hold fibers.                           *)
LEMMA ItemsTyped ==
    ASSUME ChannelInv
    PROVE  /\ ritem_list \in Seq(Fibers) /\ Range(ritem_list) \in SUBSET Fibers
           /\ witem_list \in Seq(Fibers) /\ Range(witem_list) \in SUBSET Fibers
           /\ \A g \in Fibers : /\ taken[g] \in Seq(Fibers)
                                /\ Range(taken[g]) \in SUBSET Fibers
<1>1. /\ ritem_list \in Seq(Fibers) /\ witem_list \in Seq(Fibers)
      /\ \A g \in Fibers : taken[g] \in Seq(Fibers)
    BY DEF ChannelInv, ChannelState, OneSided, ChannelTypeOK
<1>2. QED
    BY <1>1, ListedTyped

(* Who has the spinlock finds in the lists only fibers that left.          *)
LEMMA ListsAreParked ==
    ASSUME ChannelInv, ~locked
    PROVE  /\ Listed \subseteq parked
           /\ \A t \in Threads, f \in Fibers : ~Releasing(t, f)
<1>1. \A t \in Threads, f \in Fibers : ~Releasing(t, f)
    BY DEF ChannelInv, ChannelState, SpinlockKept
<1>2. Listed \in SUBSET Fibers
    BY ItemsTyped DEF Listed
<1>3. QED
    BY <1>1, <1>2 DEF ChannelInv, ChannelState, ListsWait, OnItsWay

(* The fiber that executes a call is neither in a list nor unlinked.       *)
LEMMA Caller ==
    ASSUME ChannelInv, NEW t \in Threads, NEW c, At(t, c), c \notin Away
    PROVE  \E f \in Fibers :
              /\ f = running[t] /\ calls[f] = c
              /\ f \notin Listed /\ f \notin parked
              /\ \A g \in Fibers : f \notin Range(taken[g])
<1>1. PICK f \in Fibers : f = running[t] /\ f \notin parked /\ calls[f] = c
    BY RunnerNotParked DEF ChannelInv, At
<1>2. calls[f] \notin {"sending", "receiving"}
    BY <1>1 DEF Away
<1>3. f \notin Listed
    BY <1>2 DEF ChannelInv, ChannelState, ListsWait, Listed
<1>4. \A g \in Fibers : f \notin Range(taken[g])
    BY <1>1 DEF ChannelInv, ChannelState, TakenWait
<1>5. QED
    BY <1>1, <1>3, <1>4

(* The partner of a call that has met one.                                 *)
LEMMA Partner ==
    ASSUME ChannelInv, NEW t \in Threads, NEW c \in {"sendmeet", "receivemeet"},
           At(t, c)
    PROVE  \E f, g \in Fibers :
              /\ f = running[t] /\ taken[f] = <<g>> /\ g = Head(taken[f])
              /\ Range(taken[f]) = {g} /\ g \in parked /\ g # f
<1>1. PICK f \in Fibers :
         f = running[t] /\ calls[f] = c /\ f \notin parked
    BY Caller DEF Away
<1>2. PICK g \in Fibers : taken[f] = <<g>>
    BY <1>1 DEF ChannelInv, ChannelState, TakenWait
<1>3. Range(<<g>>) = {g} /\ g = Head(<<g>>)
    BY DEF Range
<1>4. g \in parked
    BY <1>2, <1>3 DEF ChannelInv, ChannelState, TakenWait
<1>5. QED
    BY <1>1, <1>2, <1>3, <1>4

(* What close and destroy wake.                                            *)
LEMMA TakenMayWake ==
    ASSUME ChannelInv, NEW t \in Threads, NEW c \in {"closing", "destroying"},
           At(t, c)
    PROVE  \E l \in WakeOrders : l = taken[running[t]]
<1>1. PICK f \in Fibers : f = running[t]
    BY Caller DEF Away
<1>2. taken[f] \in Seq(Fibers) /\ Range(taken[f]) \in SUBSET Fibers
    BY ItemsTyped
<1>3. IsInjective(taken[f]) /\ Range(taken[f]) \subseteq parked
    BY <1>2 DEF ChannelInv, ChannelState, TakenWait
<1>4. QED
    BY <1>1, <1>2, <1>3, MayBeWoken DEF ChannelInv

(* Each step of the channel is one that the scheduler allows.              *)
LEMMA UsesScheduler ==
    ASSUME ChannelInv, [ChannelNext]_channelVars
    PROVE  [Next]_vars
<1> USE Names
<1>1. CASE UNCHANGED channelVars
    BY <1>1 DEF channelVars
<1>2. ASSUME NEW t \in Threads, SchedulerStep(t) PROVE [Next]_vars
    BY <1>2 DEF SchedulerStep, Next
<1>3. ASSUME NEW t \in Threads, ReleaseSpinlock(t) PROVE [Next]_vars
    BY <1>3 DEF ReleaseSpinlock, Next, LibraryStep
<1>4. ASSUME NEW t \in Threads, LeaveFiber(t) \/ Spawn(t) PROVE [Next]_vars
    BY <1>4 DEF LeaveFiber, Next, ClientStep
<1>5. ASSUME NEW t \in Threads,
             \/ SendCheck(t) \/ SendLocked(t) \/ Receive(t)
             \/ CloseCheck(t) \/ CloseLocked(t) \/ Destroy(t)
      PROVE  [Next]_vars
  <2>1. UNCHANGED vars \/ Park(t)
    BY <1>5 DEF SendCheck, SendLocked, Receive, CloseCheck, CloseLocked, Destroy,
                ReturnNow, TakePartner, WaitInList
  <2>2. QED
    BY <2>1 DEF Next, ClientStep
<1>6. ASSUME NEW t \in Threads, SendMeet(t) \/ ReceiveMeet(t) PROVE [Next]_vars
  <2>1. PICK c \in {"sendmeet", "receivemeet"} : At(t, c)
    BY <1>6 DEF SendMeet, ReceiveMeet
  <2>2. PICK g \in parked : g = Head(taken[running[t]])
    BY <2>1, Partner
  <2>3. Handoff(t, g)
    BY <1>6, <2>2 DEF SendMeet, ReceiveMeet, SwitchToPartner
  <2>4. QED
    BY <2>2, <2>3 DEF Next, ClientStep
<1>7. ASSUME NEW t \in Threads, CloseWake(t) \/ DestroyWake(t) PROVE [Next]_vars
  <2>1. PICK c \in {"closing", "destroying"} : At(t, c)
    BY <1>7 DEF CloseWake, DestroyWake
  <2>2. PICK l \in WakeOrders : l = taken[running[t]]
    BY <2>1, TakenMayWake
  <2>3. WakeList(t, l)
    BY <1>7, <2>2 DEF CloseWake, DestroyWake, WakeTaken
  <2>4. QED
    BY <2>3 DEF Next
<1>8. QED
    BY <1>1, <1>2, <1>3, <1>4, <1>5, <1>6, <1>7 DEF ChannelNext, InCall

-----------------------------------------------------------------------------
(* A step of one thread does not disturb what the others execute.          *)
OthersStay(t) ==
    \A u \in Threads : u # t => pc'[u] = pc[u] /\ running'[u] = running[u]

LEMMA OneThreadMoves ==
    ASSUME OwnInv, NEW t \in Threads
    PROVE  /\ LibraryStep(t) => OthersStay(t) /\ pc[t] # "user"
           /\ ListStep(t) => OthersStay(t) /\ pc[t] # "user"
           /\ Spawn(t) \/ Yield(t) \/ Exit(t) => OthersStay(t)
<1> USE Names DEF GoTo, Return, PopFiber, contexts
<1>1. TypeOK
    BY DEF OwnInv, TypeInv
<1>2. LibraryStep(t) => OthersStay(t) /\ pc[t] # "user"
    BY <1>1 DEF TypeOK, OthersStay, LibraryStep, WorkThreadLoop, SemaphoreWait,
                FiberSwitch, EnqueueFiber, Handover, Signal, RecycleFiber, Release
<1>3. ListStep(t) => OthersStay(t) /\ pc[t] # "user"
    BY <1>1 DEF TypeOK, OthersStay, ListStep, ListEnqueue, Deal, DealSignal,
                DealOutOfThreads, DealDone, ReturnIdleThreads, TakeRunQueue
<1>4. Spawn(t) \/ Yield(t) \/ Exit(t) => OthersStay(t)
    BY <1>1 DEF TypeOK, OthersStay, Spawn, Yield, Exit, GetAvailableFiber
<1>5. QED
    BY <1>2, <1>3, <1>4

(* Calls return only to fibers that were neither listed nor unlinked.      *)
LEMMA ReturnsOutOfLists ==
    ASSUME ChannelInv, OwnInv', CallsReturn,
           \A f \in Listed : OnItsWay(f)',
           parked \subseteq parked'
    PROVE  /\ calls' \in [Fibers -> Away \cup {"none"} \cup InMiddle]
           /\ \A f \in Listed : calls'[f] = calls[f]
           /\ \A f, g \in Fibers : f \in Range(taken[g]) => calls'[f] = calls[f]
           /\ \A f \in Fibers :
                \/ calls'[f] = calls[f]
                \/ calls[f] \in Away /\ calls'[f] = "none"
<1>1. calls \in [Fibers -> Away \cup {"none"} \cup InMiddle]
    BY DEF ChannelInv, ChannelState, OneSided, ChannelTypeOK, InMiddle
<1>2. calls' \in [Fibers -> Away \cup {"none"} \cup InMiddle]
    BY <1>1 DEF CallsReturn
<1>3. \A f \in Fibers : \/ calls'[f] = calls[f]
                        \/ calls[f] \in Away /\ calls'[f] = "none" /\ Executing(f)'
    BY <1>1 DEF CallsReturn
<1>4. ASSUME NEW f \in Listed PROVE calls'[f] = calls[f]
    BY <1>3, <1>4, ItemsTyped, WaiterIsOff DEF OnItsWay, Listed
<1>5. ASSUME NEW f \in Fibers, NEW g \in Fibers, f \in Range(taken[g])
      PROVE  calls'[f] = calls[f]
    BY <1>3, <1>5, WaiterIsOff DEF ChannelInv, ChannelState, TakenWait
<1>6. QED
    BY <1>2, <1>3, <1>4, <1>5

(* Steps of the scheduler and of fibers that leave the channel alone.      *)
LEMMA OtherStepChannel ==
    ASSUME ChannelInv, OwnInv', NEW t \in Threads,
           \/ SchedulerStep(t)
           \/ LeaveFiber(t)
           \/ At(t, "none") /\ Spawn(t) /\ UNCHANGED <<channel, local>>
    PROVE  ChannelState'
<1> USE Names DEF items, channel, local
<1>1. /\ OwnInv /\ ChannelState
      /\ UNCHANGED <<ritem_list, witem_list, closed, locked, alive>>
      /\ UNCHANGED <<state, data, taken>>
    BY DEF ChannelInv, SchedulerStep, LeaveFiber
<1>2. /\ parked' = parked
      /\ \A u \in Threads, f \in Fibers : Releasing(u, f)' <=> Releasing(u, f)
    BY <1>1, NoneParks DEF OwnInv, TypeInv, SchedulerStep, LeaveFiber
<1>3. \A f \in Listed : OnItsWay(f)'
    BY <1>1, <1>2, ItemsTyped DEF ChannelState, ListsWait, OnItsWay, Listed
<1>4. /\ calls' \in [Fibers -> Away \cup {"none"} \cup InMiddle]
      /\ \A f \in Listed : calls'[f] = calls[f]
      /\ \A f, g \in Fibers : f \in Range(taken[g]) => calls'[f] = calls[f]
      /\ \A f \in Fibers : \/ calls'[f] = calls[f]
                           \/ calls[f] \in Away /\ calls'[f] = "none"
  <2>1. CASE SchedulerStep(t)
    BY <1>2, <1>3, <2>1, ReturnsOutOfLists DEF SchedulerStep
  <2>2. CASE UNCHANGED calls
    BY <1>1, <2>2 DEF ChannelState, OneSided, ChannelTypeOK, InMiddle
  <2>3. QED
    BY <2>1, <2>2 DEF LeaveFiber
<1>5. (OneSided /\ NobodyStranded)'
    BY <1>1, <1>4
       DEF ChannelState, OneSided, ChannelTypeOK, InMiddle, NobodyStranded
<1>6. ListsWait'
    BY <1>1, <1>3, <1>4 DEF ChannelState, ListsWait, Listed
<1>7. TakenWait'
  <2>1. \A g \in Fibers : calls'[g] \in InMiddle => calls'[g] = calls[g]
    BY <1>4 DEF InMiddle
  <2>2. \A f, g \in Fibers :
           f \in Range(taken[g]) => calls[g] \in InMiddle /\ calls'[g] = calls[g]
    BY <1>1, <1>4 DEF ChannelState, TakenWait, Takes, InMiddle, Away
  <2>3. QED
    BY <1>1, <1>2, <1>4, <2>1, <2>2
       DEF ChannelState, TakenWait, Listed, InMiddle
<1>8. SpinlockKept'
    BY <1>1, <1>2 DEF ChannelState, SpinlockKept
<1>9. CallsExecute'
  <2>1. OthersStay(t)
    BY <1>1, OneThreadMoves DEF SchedulerStep, LeaveFiber
  <2>2. pc[t] # "user" \/ calls[running[t]] \notin InMiddle
    BY <1>1, OneThreadMoves DEF SchedulerStep, LeaveFiber, At, InMiddle
  <2>3. ASSUME NEW f \in Fibers, calls'[f] \in InMiddle PROVE Executing(f)'
    <3>1. calls[f] \in InMiddle
        BY <1>4, <2>3 DEF InMiddle
    <3>2. PICK u \in Threads : running[u] = f /\ pc[u] = "user"
        BY <1>1, <3>1 DEF ChannelState, CallsExecute, Executing
    <3>3. u # t
        BY <2>2, <3>1, <3>2
    <3>4. QED
        BY <2>1, <3>2, <3>3 DEF OthersStay, Executing
  <2>4. QED
    BY <2>3 DEF CallsExecute
<1>10. Freed'
    BY <1>1, <1>4 DEF ChannelState, Freed, Away
<1>11. QED
    BY <1>5, <1>6, <1>7, <1>8, <1>9, <1>10 DEF ChannelState

LEMMA ReleaseSpinlockChannel ==
    ASSUME ChannelInv, OwnInv', NEW t \in Threads, ReleaseSpinlock(t)
    PROVE  ChannelState'
<1> USE Names DEF items, GoTo, Return, contexts
<1>1. /\ OwnInv /\ TypeOK /\ ChannelState /\ CallsReturn /\ pc[t] = "release"
      /\ parked' = parked \cup {it[t]} /\ locked' = FALSE
      /\ it' = [it EXCEPT ![t] = NULL]
      /\ pc' = [pc EXCEPT ![t] = ReturnLabel(t)]
      /\ UNCHANGED <<ritem_list, witem_list, closed, alive, state, data, taken>>
      /\ UNCHANGED <<deferred, running>>
    BY DEF ChannelInv, OwnInv, TypeInv, ReleaseSpinlock, Release
<1>2. PICK k \in Fibers : k = it[t] /\ Releasing(t, k)
    BY <1>1 DEF OwnInv, TypeInv, Registers, Releasing
<1>3. /\ \A u \in Threads, f \in Fibers : Releasing(u, f) => u = t /\ f = k
      /\ deferred[t] # "release"
    BY <1>1, <1>2, ReleasesOne
       DEF ChannelState, SpinlockKept, OwnInv, Locals, AgentLocals
<1>4. ReturnLabel(t) \in {"user", "loop"}
    BY <1>1, ReturnsTo
<1>5. \A u \in Threads, f \in Fibers : ~Releasing(u, f)'
  <2>1. /\ pc'[t] = ReturnLabel(t)
        /\ \A u \in Threads : u # t => pc'[u] = pc[u] /\ it'[u] = it[u]
    BY <1>1 DEF TypeOK
  <2>2. QED
    BY <1>1, <1>3, <1>4, <2>1 DEF Releasing
<1>6. \A f \in Listed : f \in parked'
    BY <1>1, <1>2, <1>3, ItemsTyped DEF ChannelState, ListsWait, OnItsWay, Listed
<1>7. /\ calls' \in [Fibers -> Away \cup {"none"} \cup InMiddle]
      /\ \A f \in Listed : calls'[f] = calls[f]
      /\ \A f, g \in Fibers : f \in Range(taken[g]) => calls'[f] = calls[f]
      /\ \A f \in Fibers : \/ calls'[f] = calls[f]
                           \/ calls[f] \in Away /\ calls'[f] = "none"
  <2>1. parked \subseteq parked' /\ \A f \in Listed : OnItsWay(f)'
    BY <1>1, <1>6 DEF OnItsWay
  <2>2. QED
    BY <1>1, <2>1, ReturnsOutOfLists
<1>8. (OneSided /\ NobodyStranded)'
    BY <1>1, <1>7
       DEF ChannelState, OneSided, ChannelTypeOK, InMiddle, NobodyStranded
<1>9. ListsWait'
    BY <1>1, <1>6, <1>7 DEF ChannelState, ListsWait, OnItsWay, Listed
<1>10. TakenWait'
  <2>1. \A g \in Fibers : calls'[g] \in InMiddle => calls'[g] = calls[g]
    BY <1>7 DEF InMiddle
  <2>2. \A f, g \in Fibers :
           f \in Range(taken[g]) => calls[g] \in InMiddle /\ calls'[g] = calls[g]
    BY <1>1, <1>7 DEF ChannelState, TakenWait, Takes, InMiddle, Away
  <2>3. QED
    BY <1>1, <1>7, <2>1, <2>2 DEF ChannelState, TakenWait, Listed, InMiddle
<1>11. SpinlockKept'
    BY <1>5 DEF SpinlockKept
<1>12. CallsExecute'
  <2>1. OthersStay(t)
    BY <1>1 DEF OthersStay, TypeOK
  <2>2. ASSUME NEW f \in Fibers, calls'[f] \in InMiddle PROVE Executing(f)'
    <3>1. calls[f] \in InMiddle
        BY <1>7, <2>2 DEF InMiddle
    <3>2. PICK u \in Threads : running[u] = f /\ pc[u] = "user"
        BY <1>1, <3>1 DEF ChannelState, CallsExecute, Executing
    <3>3. QED
        BY <1>1, <2>1, <3>2 DEF OthersStay, Executing
  <2>3. QED
    BY <2>2 DEF CallsExecute
<1>13. Freed'
    BY <1>1, <1>7 DEF ChannelState, Freed, Away
<1>14. QED
    BY <1>8, <1>9, <1>10, <1>11, <1>12, <1>13 DEF ChannelState

-----------------------------------------------------------------------------
(* While a step of the fiber f on the thread t leaves the other threads    *)
(* alone, only f has to be looked at.                                      *)
LEMMA OthersExecute ==
    ASSUME ChannelInv, NEW t \in Threads, NEW f \in Fibers, f = running[t],
           OthersStay(t), NEW c, calls' = [calls EXCEPT ![f] = c],
           c \in InMiddle => Executing(f)'
    PROVE  CallsExecute'
<1>1. /\ CallsExecute
      /\ calls \in [Fibers -> Away \cup {"none"} \cup InMiddle]
    BY DEF ChannelInv, ChannelState, OneSided, ChannelTypeOK, InMiddle
<1>2. ASSUME NEW g \in Fibers, g # f, calls'[g] \in InMiddle
      PROVE  Executing(g)'
  <2>1. calls[g] \in InMiddle
    BY <1>1, <1>2
  <2>2. PICK u \in Threads : running[u] = g /\ pc[u] = "user"
    BY <1>1, <2>1 DEF CallsExecute, Executing
  <2>3. u # t
    BY <1>2, <2>2
  <2>4. QED
    BY <2>2, <2>3 DEF OthersStay, Executing
<1>3. calls'[f] = c
    BY <1>1
<1>4. QED
    BY <1>2, <1>3 DEF CallsExecute

(* Steps within a call that touch neither list nor item of another.        *)
LEMMA QuietStepChannel ==
    ASSUME ChannelInv, NEW t \in Threads,
           NEW b \in {"none", "send", "close"}, At(t, b),
           NEW c \in {"none", "send", "close"}, Goto(t, c),
           c # "none" => alive,
           UNCHANGED <<vars, channel, taken>>,
           state' \in [Fibers -> {"init", "success", "closed", "destroyed"}],
           data' \in [Fibers -> Fibers \cup {NULL}]
    PROVE  ChannelState'
<1> USE DEF vars, contexts, channel, items
<1>1. /\ ChannelState
      /\ calls \in [Fibers -> Away \cup {"none"} \cup InMiddle]
    BY DEF ChannelInv, ChannelState, OneSided, ChannelTypeOK, InMiddle
<1>2. PICK f \in Fibers :
         /\ f = running[t] /\ calls[f] = b /\ f \notin Listed
         /\ \A g \in Fibers : f \notin Range(taken[g])
    BY Caller DEF Away
<1>3. /\ calls' = [calls EXCEPT ![f] = c] /\ calls'[f] = c
      /\ \A g \in Fibers : g # f => calls'[g] = calls[g]
    BY <1>1, <1>2 DEF Goto
<1>4. (OneSided /\ NobodyStranded)'
    BY <1>1, <1>3
       DEF ChannelState, OneSided, ChannelTypeOK, NobodyStranded, InMiddle
<1>5. \A u \in Threads, g \in Fibers : Releasing(u, g)' <=> Releasing(u, g)
    BY DEF Releasing
<1>6. ListsWait'
    BY <1>1, <1>2, <1>3, <1>5, ItemsTyped
       DEF ChannelState, ListsWait, Listed, OnItsWay
<1>7. TakenWait'
    BY <1>1, <1>2, <1>3 DEF ChannelState, TakenWait, Takes, Listed
<1>8. SpinlockKept'
    BY <1>1, <1>5 DEF ChannelState, SpinlockKept
<1>9. CallsExecute'
    BY <1>2, <1>3, OthersExecute DEF OthersStay, Executing, At
<1>10. Freed'
    BY <1>1, <1>3 DEF ChannelState, Freed, Away
<1>11. QED
    BY <1>4, <1>6, <1>7, <1>8, <1>9, <1>10 DEF ChannelState

(* The caller joins a list and keeps the spinlock.                         *)
LEMMA WaitInListChannel ==
    ASSUME ChannelInv, NEW t \in Threads, NEW b \in {"none", "send"}, At(t, b),
           ~locked, alive, ~closed,
           \/ /\ ritem_list = <<>>
              /\ witem_list' = Append(witem_list, running[t])
              /\ WaitInList(t, "sending")
              /\ UNCHANGED ritem_list
           \/ /\ witem_list = <<>>
              /\ ritem_list' = Append(ritem_list, running[t])
              /\ WaitInList(t, "receiving")
              /\ UNCHANGED witem_list
    PROVE  ChannelState'
<1> USE Names DEF GoTo
<1>1. /\ OwnInv /\ TypeOK /\ ChannelState /\ ChannelTypeOK
      /\ calls \in [Fibers -> Away \cup {"none"} \cup InMiddle]
    BY DEF ChannelInv, OwnInv, TypeInv, ChannelState, OneSided, ChannelTypeOK,
           InMiddle
<1>2. PICK f \in Fibers :
         /\ f = running[t] /\ calls[f] = b /\ f \notin Listed
         /\ \A g \in Fibers : f \notin Range(taken[g])
    BY Caller DEF Away
<1>3. /\ Listed \subseteq parked
      /\ \A u \in Threads, g \in Fibers : ~Releasing(u, g)
    BY ListsAreParked
<1>4. PICK c \in {"sending", "receiving"} : WaitInList(t, c)
    OBVIOUS
<1>5. /\ locked' = TRUE /\ calls' = [calls EXCEPT ![f] = c]
      /\ state' = [state EXCEPT ![f] = "init"]
      /\ data' = [data EXCEPT ![f] = NULL]
      /\ it' = [it EXCEPT ![t] = t]
      /\ deferred' = [deferred EXCEPT ![t] = "release"]
      /\ pc' = [pc EXCEPT ![t] = "switch"]
      /\ UNCHANGED <<running, parked, closed, alive, taken>>
    BY <1>2, <1>4 DEF WaitInList, Park, Goto, contexts
<1>6. /\ pc'[t] = "switch" /\ deferred'[t] = "release"
      /\ \A u \in Threads : u # t => /\ pc'[u] = pc[u] /\ it'[u] = it[u]
                                  /\ deferred'[u] = deferred[u]
    BY <1>1, <1>5 DEF TypeOK
<1>7. \A u \in Threads, g \in Fibers : Releasing(u, g)' <=> u = t /\ g = f
    BY <1>2, <1>3, <1>5, <1>6 DEF Releasing
<1>8. /\ calls'[f] = c
      /\ \A g \in Fibers : g # f => calls'[g] = calls[g]
    BY <1>1, <1>5
<1>9. \/ /\ c = "sending" /\ ritem_list = <<>> /\ ritem_list' = <<>>
         /\ witem_list' = Append(witem_list, f)
      \/ /\ c = "receiving" /\ witem_list = <<>> /\ witem_list' = <<>>
         /\ ritem_list' = Append(ritem_list, f)
  <2>1. c = calls'[f] /\ (WaitInList(t, "sending") => calls'[f] = "sending")
        /\ (WaitInList(t, "receiving") => calls'[f] = "receiving")
    BY <1>1, <1>2, <1>8 DEF WaitInList, Goto
  <2>2. QED
    BY <1>2, <2>1
<1>10. /\ ritem_list' \in Seq(Fibers) /\ IsInjective(ritem_list')
       /\ witem_list' \in Seq(Fibers) /\ IsInjective(witem_list')
       /\ c = "sending" => /\ Range(ritem_list') = Range(ritem_list)
                           /\ Range(witem_list') = Range(witem_list) \cup {f}
       /\ c = "receiving" => /\ Range(witem_list') = Range(witem_list)
                             /\ Range(ritem_list') = Range(ritem_list) \cup {f}
  <2>1. /\ IsInjective(ritem_list) /\ IsInjective(witem_list)
        /\ f \notin Range(ritem_list) /\ f \notin Range(witem_list)
    BY <1>1, <1>2 DEF ChannelState, ListsWait, Listed
  <2>2. CASE c = "sending"
    <3>1. /\ ritem_list' = ritem_list /\ witem_list' = Append(witem_list, f)
          /\ ritem_list \in Seq(Fibers) /\ witem_list \in Seq(Fibers)
        BY <1>9, <2>2, ItemsTyped
    <3>2. /\ witem_list' \in Seq(Fibers) /\ IsInjective(witem_list')
          /\ Range(witem_list') = Range(witem_list) \cup {f}
        BY <2>1, <3>1, ListedAppend
    <3>3. QED
        BY <2>1, <2>2, <3>1, <3>2
  <2>3. CASE c = "receiving"
    <3>1. /\ witem_list' = witem_list /\ ritem_list' = Append(ritem_list, f)
          /\ witem_list \in Seq(Fibers) /\ ritem_list \in Seq(Fibers)
        BY <1>9, <2>3, ItemsTyped
    <3>2. /\ ritem_list' \in Seq(Fibers) /\ IsInjective(ritem_list')
          /\ Range(ritem_list') = Range(ritem_list) \cup {f}
        BY <2>1, <3>1, ListedAppend
    <3>3. QED
        BY <2>1, <2>3, <3>1, <3>2
  <2>4. QED
    BY <2>2, <2>3
<1>11. (OneSided /\ NobodyStranded)'
    BY <1>1, <1>5, <1>8, <1>9, <1>10
       DEF OneSided, ChannelTypeOK, NobodyStranded, InMiddle, Away
<1>12. ListsWait'
  <2>1. \A g \in Listed : g \in parked'
    BY <1>3, <1>5
  <2>2. \A g \in Listed' : g \in Listed \/ g = f
    BY <1>10 DEF Listed
  <2>3. \A g \in Listed' : OnItsWay(g)'
    BY <1>7, <2>1, <2>2 DEF OnItsWay
  <2>4. /\ \A g \in Range(ritem_list') : calls'[g] = "receiving"
        /\ \A g \in Range(witem_list') : calls'[g] = "sending"
    BY <1>1, <1>2, <1>8, <1>10, ItemsTyped DEF ChannelState, ListsWait, Listed
  <2>5. QED
    BY <1>10, <2>3, <2>4 DEF ListsWait
<1>13. TakenWait'
  <2>1. Listed' = Listed \cup {f}
    BY <1>10 DEF Listed
  <2>2. calls[f] \notin {"sendmeet", "receivemeet", "closing", "destroying"}
    BY <1>2
  <2>3. QED
    BY <1>1, <1>2, <1>5, <1>8, <2>1, <2>2 DEF ChannelState, TakenWait, Takes
<1>14. SpinlockKept'
    BY <1>5, <1>7 DEF SpinlockKept
<1>15. CallsExecute'
    BY <1>2, <1>5, <1>6, OthersExecute DEF OthersStay, InMiddle
<1>16. Freed'
    BY <1>5 DEF Freed
<1>17. QED
    BY <1>11, <1>12, <1>13, <1>14, <1>15, <1>16 DEF ChannelState

(* The caller unlinks the item of the fiber that waited longest.           *)
LEMMA TakePartnerChannel ==
    ASSUME ChannelInv, NEW t \in Threads, NEW b \in {"none", "send"}, At(t, b),
           ~locked, alive,
           \/ /\ ritem_list # <<>>
              /\ ritem_list' = Tail(ritem_list)
              /\ TakePartner(t, Head(ritem_list), "sendmeet")
              /\ UNCHANGED witem_list
           \/ /\ witem_list # <<>>
              /\ witem_list' = Tail(witem_list)
              /\ TakePartner(t, Head(witem_list), "receivemeet")
              /\ UNCHANGED ritem_list
    PROVE  ChannelState'
<1> USE Names
<1>1. /\ ChannelState /\ ChannelTypeOK
      /\ calls \in [Fibers -> Away \cup {"none"} \cup InMiddle]
    BY DEF ChannelInv, ChannelState, OneSided, ChannelTypeOK, InMiddle
<1>2. PICK f \in Fibers :
         /\ f = running[t] /\ calls[f] = b /\ f \notin Listed /\ f \notin parked
         /\ \A g \in Fibers : f \notin Range(taken[g])
    BY Caller DEF Away
<1>3. /\ Listed \subseteq parked
      /\ \A u \in Threads, g \in Fibers : ~Releasing(u, g)
    BY ListsAreParked
<1>4. PICK h \in Fibers, c \in {"sendmeet", "receivemeet"} :
         /\ TakePartner(t, h, c)
         /\ h \in Listed /\ Takes(c, calls[h])
         /\ ritem_list' \in Seq(Fibers) /\ IsInjective(ritem_list')
         /\ witem_list' \in Seq(Fibers) /\ IsInjective(witem_list')
         /\ Range(ritem_list') = Range(ritem_list) \ {h}
         /\ Range(witem_list') = Range(witem_list) \ {h}
         /\ ritem_list = <<>> => ritem_list' = <<>>
         /\ witem_list = <<>> => witem_list' = <<>>
  <2>1. CASE /\ ritem_list # <<>>
             /\ ritem_list' = Tail(ritem_list)
             /\ TakePartner(t, Head(ritem_list), "sendmeet")
             /\ UNCHANGED witem_list
    <3>1. PICK h \in Fibers : h = Head(ritem_list)
        BY <2>1, ItemsTyped, ListedPop DEF ChannelInv, ChannelState, ListsWait
    <3>2. /\ ritem_list' \in Seq(Fibers) /\ IsInjective(ritem_list')
          /\ Range(ritem_list') = Range(ritem_list) \ {h}
          /\ h \in Range(ritem_list)
        BY <1>1, <2>1, <3>1, ItemsTyped, ListedPop DEF ChannelState, ListsWait
    <3>3. calls[h] = "receiving" /\ h \notin Range(witem_list)
        BY <1>1, <3>2 DEF ChannelState, ListsWait
    <3>4. /\ Range(witem_list') = Range(witem_list) \ {h}
          /\ witem_list' \in Seq(Fibers) /\ IsInjective(witem_list')
        BY <1>1, <2>1, <3>3, ItemsTyped DEF ChannelState, ListsWait
    <3>5. h \in Listed /\ Takes("sendmeet", calls[h])
        BY <3>2, <3>3 DEF Listed, Takes
    <3>6. QED
        BY <2>1, <3>1, <3>2, <3>4, <3>5
  <2>2. CASE /\ witem_list # <<>>
             /\ witem_list' = Tail(witem_list)
             /\ TakePartner(t, Head(witem_list), "receivemeet")
             /\ UNCHANGED ritem_list
    <3>1. PICK h \in Fibers : h = Head(witem_list)
        BY <2>2, ItemsTyped, ListedPop DEF ChannelInv, ChannelState, ListsWait
    <3>2. /\ witem_list' \in Seq(Fibers) /\ IsInjective(witem_list')
          /\ Range(witem_list') = Range(witem_list) \ {h}
          /\ h \in Range(witem_list)
        BY <1>1, <2>2, <3>1, ItemsTyped, ListedPop DEF ChannelState, ListsWait
    <3>3. calls[h] = "sending" /\ h \notin Range(ritem_list)
        BY <1>1, <3>2 DEF ChannelState, ListsWait
    <3>4. /\ Range(ritem_list') = Range(ritem_list) \ {h}
          /\ ritem_list' \in Seq(Fibers) /\ IsInjective(ritem_list')
        BY <1>1, <2>2, <3>3, ItemsTyped DEF ChannelState, ListsWait
    <3>5. h \in Listed /\ Takes("receivemeet", calls[h])
        BY <3>2, <3>3 DEF Listed, Takes
    <3>6. QED
        BY <2>2, <3>1, <3>2, <3>4, <3>5
  <2>3. QED
    BY <2>1, <2>2
<1>5. /\ taken' = [taken EXCEPT ![f] = <<h>>]
      /\ calls' = [calls EXCEPT ![f] = c]
      /\ data' = [data EXCEPT ![f] = NULL]
      /\ UNCHANGED <<pc, it, deferred, running, parked, closed, locked, alive, state>>
    BY <1>2, <1>4 DEF TakePartner, Goto, vars, contexts
<1>6. /\ calls'[f] = c /\ taken'[f] = <<h>> /\ Range(taken'[f]) = {h}
      /\ IsInjective(taken'[f]) /\ taken'[f] \in Seq(Fibers)
      /\ \A g \in Fibers : g # f => calls'[g] = calls[g] /\ taken'[g] = taken[g]
  <2>1. Range(<<h>>) = {h} /\ IsInjective(<<h>>) /\ <<h>> \in Seq(Fibers)
    BY DEF Range, IsInjective
  <2>2. QED
    BY <1>1, <1>5, <2>1 DEF ChannelTypeOK
<1>7. h # f /\ h \in parked /\ h \notin Listed' /\ Listed' \subseteq Listed
    BY <1>2, <1>3, <1>4 DEF Listed
<1>8. (OneSided /\ NobodyStranded)'
    BY <1>1, <1>4, <1>5, <1>6
       DEF ChannelState, OneSided, ChannelTypeOK, NobodyStranded, InMiddle, Away
<1>9. \A u \in Threads, g \in Fibers : Releasing(u, g)' <=> Releasing(u, g)
    BY <1>5 DEF Releasing
<1>10. ListsWait'
  <2>1. \A g \in Listed' : OnItsWay(g)'
    BY <1>3, <1>5, <1>7 DEF OnItsWay
  <2>2. f \notin Listed'
    BY <1>2, <1>7
  <2>3. QED
    BY <1>1, <1>4, <1>6, <2>1, <2>2, ItemsTyped DEF ChannelState, ListsWait, Listed
<1>11. TakenWait'
  <2>1. \A g \in Fibers : h \notin Range(taken[g])
    BY <1>1, <1>4 DEF ChannelState, TakenWait
  <2>2. \A g \in Fibers :
          /\ IsInjective(taken'[g])
          /\ calls'[g] \in {"sendmeet", "receivemeet"} =>
                \E k \in Fibers : taken'[g] = <<k>>
    BY <1>1, <1>6 DEF ChannelState, TakenWait
  <2>3. ASSUME NEW k \in Fibers, NEW g \in Fibers, k \in Range(taken'[g])
        PROVE  /\ Takes(calls'[g], calls'[k]) /\ k \in parked'
               /\ k \notin Listed'
               /\ \A j \in Fibers : k \in Range(taken'[j]) => g = j
    <3>1. CASE g = f
      <4>1. k = h /\ calls'[g] = c /\ calls'[k] = calls[h]
        BY <1>6, <1>7, <2>3, <3>1
      <4>2. \A j \in Fibers : h \in Range(taken'[j]) => j = f
        BY <1>6, <2>1
      <4>3. QED
        BY <1>4, <1>5, <1>7, <3>1, <4>1, <4>2
    <3>2. CASE g # f
      <4>1. k \in Range(taken[g]) /\ k # f /\ k # h
        BY <1>2, <1>6, <2>1, <2>3, <3>2
      <4>2. QED
        BY <1>1, <1>5, <1>6, <1>7, <3>2, <4>1 DEF ChannelState, TakenWait
    <3>3. QED
        BY <3>1, <3>2
  <2>4. QED
    BY <2>2, <2>3 DEF TakenWait
<1>12. SpinlockKept'
    BY <1>1, <1>5, <1>9 DEF ChannelState, SpinlockKept
<1>13. CallsExecute'
    BY <1>2, <1>5, OthersExecute DEF OthersStay, Executing, At
<1>14. Freed'
    BY <1>5 DEF Freed
<1>15. QED
    BY <1>8, <1>10, <1>11, <1>12, <1>13, <1>14 DEF ChannelState

(* The receivers, or in destroy the senders, are unlinked.                 *)
LEMMA TakeListChannel ==
    ASSUME ChannelInv, NEW t \in Threads, (CloseLocked(t) /\ ~closed) \/ Destroy(t)
    PROVE  ChannelState'
<1> USE Names
<1>1. /\ ChannelState /\ ChannelTypeOK /\ ~locked
      /\ calls \in [Fibers -> Away \cup {"none"} \cup InMiddle]
    BY DEF ChannelInv, ChannelState, OneSided, ChannelTypeOK, InMiddle,
           CloseLocked, Destroy
<1>2. PICK f \in Fibers :
         /\ f = running[t] /\ calls[f] \in {"close", "none"}
         /\ f \notin Listed /\ f \notin parked /\ pc[t] = "user"
         /\ \A g \in Fibers : f \notin Range(taken[g])
    BY Caller DEF Away, CloseLocked, Destroy, At
<1>3. /\ Listed \subseteq parked
      /\ \A u \in Threads, g \in Fibers : ~Releasing(u, g)
    BY <1>1, ListsAreParked
<1>4. PICK q \in Seq(Fibers), c \in {"closing", "destroying"} :
         /\ taken' = [taken EXCEPT ![f] = q]
         /\ calls' = [calls EXCEPT ![f] = c]
         /\ closed' = TRUE
         /\ \/ /\ q = ritem_list /\ ritem_list' = <<>> /\ witem_list' = witem_list
               /\ c = "closing" \/ ritem_list # <<>>
            \/ /\ q = witem_list /\ witem_list' = <<>>
               /\ ritem_list = <<>> /\ ritem_list' = <<>> /\ c = "destroying"
         /\ c = "closing" => alive' = alive
         /\ c = "destroying" => /\ alive' = FALSE /\ Destroy(t)
                                /\ ritem_list = <<>> \/ witem_list = <<>>
         /\ c = "closing" => CloseLocked(t)
         /\ UNCHANGED <<pc, it, deferred, running, parked, locked, state, data>>
  <2>1. CASE CloseLocked(t) /\ ~closed
    BY <1>2, <2>1, ItemsTyped
       DEF CloseLocked, Goto, channel, items, vars, contexts
  <2>2. CASE Destroy(t)
    BY <1>1, <1>2, <2>2, ItemsTyped
       DEF Destroy, Goto, vars, contexts, ChannelState, OneSided
  <2>3. QED
    BY <2>1, <2>2
<1>5. /\ calls'[f] = c /\ taken'[f] = q
      /\ \A g \in Fibers : g # f => calls'[g] = calls[g] /\ taken'[g] = taken[g]
    BY <1>1, <1>4 DEF ChannelTypeOK
<1>6. /\ IsInjective(q) /\ Range(q) \in SUBSET Fibers
      /\ \A h \in Range(q) : h \in Listed /\ Takes(c, calls[h]) /\ calls[h] # "none"
      /\ Listed' = Listed \ Range(q)
      /\ Range(ritem_list') \subseteq Range(ritem_list)
      /\ Range(witem_list') \subseteq Range(witem_list)
      /\ IsInjective(ritem_list') /\ IsInjective(witem_list')
  <2>1. \A h \in Range(ritem_list) : h \notin Range(witem_list)
    BY <1>1 DEF ChannelState, ListsWait
  <2>2. CASE q = ritem_list /\ ritem_list' = <<>> /\ witem_list' = witem_list
    BY <1>1, <2>1, <2>2, ItemsTyped, ListedEmpty
       DEF ChannelState, ListsWait, Listed, Takes
  <2>3. CASE /\ q = witem_list /\ witem_list' = <<>>
             /\ ritem_list = <<>> /\ ritem_list' = <<>> /\ c = "destroying"
    BY <1>1, <2>1, <2>3, ItemsTyped, ListedEmpty
       DEF ChannelState, ListsWait, Listed, Takes
  <2>4. QED
    BY <1>4, <2>2, <2>3
<1>7. (OneSided /\ NobodyStranded)'
  <2>1. ChannelTypeOK'
    <3>1. ritem_list' \in Seq(Fibers) /\ witem_list' \in Seq(Fibers)
        BY <1>4, ItemsTyped, EmptySeq
    <3>2. alive' \in BOOLEAN /\ closed' \in BOOLEAN
        BY <1>1, <1>4 DEF ChannelTypeOK
    <3>3. /\ calls' \in [Fibers -> Away \cup {"none"} \cup InMiddle]
          /\ taken' \in [Fibers -> Seq(Fibers)]
        BY <1>1, <1>4 DEF ChannelTypeOK, InMiddle
    <3>4. QED
        BY <1>1, <1>4, <3>1, <3>2, <3>3 DEF ChannelTypeOK, InMiddle
  <2>2. alive \/ c = "destroying"
    BY <1>1, <1>2, <1>4
       DEF CloseLocked, At, Destroy, ChannelState, Freed, Away
  <2>3. c = "destroying" => witem_list' = <<>>
    BY <1>4
  <2>4. QED
    BY <1>1, <1>4, <2>1, <2>2, <2>3
       DEF ChannelState, OneSided, NobodyStranded
<1>8. \A u \in Threads, g \in Fibers : ~Releasing(u, g)'
    BY <1>3, <1>4 DEF Releasing
<1>9. ListsWait'
  <2>1. \A g \in Listed' : OnItsWay(g)' /\ g # f
    BY <1>2, <1>3, <1>4, <1>6 DEF OnItsWay
  <2>2. QED
    BY <1>1, <1>5, <1>6, <2>1, ItemsTyped DEF ChannelState, ListsWait, Listed
<1>10. TakenWait'
  <2>1. \A g \in Fibers, h \in Range(q) : h \notin Range(taken[g])
    BY <1>1, <1>6 DEF ChannelState, TakenWait
  <2>2. \A g \in Fibers :
          /\ IsInjective(taken'[g])
          /\ calls'[g] \in {"sendmeet", "receivemeet"} =>
                \E k \in Fibers : taken'[g] = <<k>>
    BY <1>1, <1>5, <1>6 DEF ChannelState, TakenWait
  <2>3. ASSUME NEW k \in Fibers, NEW g \in Fibers, k \in Range(taken'[g])
        PROVE  /\ Takes(calls'[g], calls'[k]) /\ k \in parked'
               /\ k \notin Listed'
               /\ \A j \in Fibers : k \in Range(taken'[j]) => g = j
    <3>1. CASE g = f
      <4>1. /\ k \in Range(q) /\ k # f /\ calls'[g] = c
            /\ calls'[k] = calls[k]
        BY <1>2, <1>5, <1>6, <2>3, <3>1
      <4>2. \A j \in Fibers : k \in Range(taken'[j]) => j = f
        BY <1>5, <2>1, <4>1
      <4>3. QED
        BY <1>3, <1>4, <1>6, <3>1, <4>1, <4>2
    <3>2. CASE g # f
      <4>1. k \in Range(taken[g]) /\ k # f /\ k \notin Range(q)
        BY <1>2, <1>5, <2>1, <2>3, <3>2
      <4>2. \A j \in Fibers : k \in Range(taken'[j]) => g = j
        BY <1>1, <1>5, <2>3, <4>1 DEF ChannelState, TakenWait
      <4>3. QED
        BY <1>1, <1>4, <1>5, <1>6, <3>2, <4>1, <4>2
           DEF ChannelState, TakenWait
    <3>3. QED
        BY <3>1, <3>2
  <2>4. QED
    BY <2>2, <2>3 DEF TakenWait
<1>11. SpinlockKept'
    BY <1>8 DEF SpinlockKept
<1>12. CallsExecute'
    BY <1>2, <1>4, OthersExecute DEF OthersStay, Executing
<1>13. Freed'
  <2>1. CASE c = "closing"
    <3>1. alive
        BY <1>1, <1>4, <2>1, <1>2 DEF CloseLocked, At, ChannelState, Freed, Away
    <3>2. QED
        BY <1>4, <2>1, <3>1 DEF Freed
  <2>2. CASE c = "destroying"
    BY <1>1, <1>4, <1>5, <2>2 DEF Freed, Destroy
  <2>3. QED
    BY <2>1, <2>2
<1>14. QED
    BY <1>7, <1>9, <1>10, <1>11, <1>12, <1>13 DEF ChannelState

(* A call has done with the items it unlinked: their fibers go.            *)
LEMMA TakenGo ==
    ASSUME ChannelInv, NEW t \in Threads, NEW f \in Fibers, f = running[t],
           At(t, calls[f]), calls[f] \in InMiddle, TypeOK,
           NEW c \in {"none", "switching"},
           calls' = [calls EXCEPT ![f] = c],
           taken' = [taken EXCEPT ![f] = <<>>],
           parked' = parked \ Range(taken[f]),
           pc'[t] # "release", deferred'[t] # "release",
           OthersStay(t),
           \A u \in Threads : u # t => it'[u] = it[u] /\ deferred'[u] = deferred[u],
           UNCHANGED channel,
           state' \in [Fibers -> {"init", "success", "closed", "destroyed"}],
           data' \in [Fibers -> Fibers \cup {NULL}]
    PROVE  ChannelState'
<1> USE Names, ListedEmpty DEF channel, items
<1>1. /\ OwnInv /\ ChannelState /\ ChannelTypeOK
      /\ calls \in [Fibers -> Away \cup {"none"} \cup InMiddle]
    BY DEF ChannelInv, ChannelState, OneSided, ChannelTypeOK, InMiddle
<1>2. /\ f \notin Listed
      /\ \A g \in Fibers : f \notin Range(taken[g])
    BY Caller DEF Away, InMiddle
<1>3. /\ calls'[f] = c /\ taken'[f] = <<>>
      /\ \A g \in Fibers : g # f => calls'[g] = calls[g] /\ taken'[g] = taken[g]
    BY <1>1 DEF ChannelTypeOK
<1>4. \A u \in Threads, g \in Fibers : Releasing(u, g)' <=> Releasing(u, g)
    BY <1>1, ReleasesOne DEF Releasing, OthersStay, At
<1>5. (OneSided /\ NobodyStranded)'
    BY <1>1, EmptySeq
       DEF ChannelState, OneSided, ChannelTypeOK, NobodyStranded, InMiddle, Away
<1>6. ListsWait'
  <2>1. \A g \in Range(taken[f]) : g \notin Listed
    BY <1>1, ItemsTyped DEF ChannelState, TakenWait
  <2>2. \A g \in Listed : OnItsWay(g)' /\ g # f
    BY <1>1, <1>2, <1>4, <2>1, ItemsTyped
       DEF ChannelState, ListsWait, Listed, OnItsWay
  <2>3. QED
    BY <1>1, <1>3, <2>2, ItemsTyped DEF ChannelState, ListsWait, Listed
<1>7. TakenWait'
  <2>1. \A g \in Fibers :
          /\ IsInjective(taken'[g])
          /\ calls'[g] \in {"sendmeet", "receivemeet"} =>
                \E k \in Fibers : taken'[g] = <<k>>
    BY <1>1, <1>3 DEF ChannelState, TakenWait
  <2>2. ASSUME NEW k \in Fibers, NEW g \in Fibers, k \in Range(taken'[g])
        PROVE  /\ Takes(calls'[g], calls'[k]) /\ k \in parked'
               /\ k \notin Listed'
               /\ \A j \in Fibers : k \in Range(taken'[j]) => g = j
    <3>1. g # f /\ k \in Range(taken[g]) /\ k # f
        BY <1>2, <1>3, <2>2
    <3>2. k \notin Range(taken[f])
        BY <1>1, <3>1 DEF ChannelState, TakenWait
    <3>3. \A j \in Fibers : k \in Range(taken'[j]) => g = j
        BY <1>1, <1>3, <3>1 DEF ChannelState, TakenWait
    <3>4. Listed' = Listed
        BY DEF Listed
    <3>5. QED
        BY <1>1, <1>3, <3>1, <3>2, <3>3, <3>4 DEF ChannelState, TakenWait
  <2>3. QED
    BY <2>1, <2>2 DEF TakenWait
<1>8. SpinlockKept'
    BY <1>1, <1>4 DEF ChannelState, SpinlockKept
<1>9. CallsExecute'
    BY OthersExecute DEF InMiddle
<1>10. Freed'
    BY <1>1, <1>3 DEF ChannelState, Freed, Away
<1>11. QED
    BY <1>5, <1>6, <1>7, <1>8, <1>9, <1>10 DEF ChannelState

LEMMA MeetChannel ==
    ASSUME ChannelInv, NEW t \in Threads, SendMeet(t) \/ ReceiveMeet(t)
    PROVE  ChannelState'
<1> USE Names DEF GoTo
<1>1. TypeOK /\ ChannelTypeOK
    BY DEF ChannelInv, OwnInv, TypeInv, ChannelState, OneSided
<1>2. PICK c \in {"sendmeet", "receivemeet"} : At(t, c)
    BY DEF SendMeet, ReceiveMeet
<1>3. PICK f, g \in Fibers :
         /\ f = running[t] /\ g = Head(taken[f]) /\ Range(taken[f]) = {g}
    BY <1>2, Partner
<1>4. /\ At(t, calls[f]) /\ calls[f] \in InMiddle
      /\ SwitchToPartner(t, g)
      /\ \/ data' = [data EXCEPT ![g] = f]
         \/ data' = [data EXCEPT ![f] = g]
    BY <1>2, <1>3 DEF SendMeet, ReceiveMeet, At, InMiddle
<1>5. /\ calls' = [calls EXCEPT ![f] = "switching"]
      /\ taken' = [taken EXCEPT ![f] = <<>>]
      /\ state' = [state EXCEPT ![g] = "success", ![f] = "success"]
      /\ parked' = parked \ Range(taken[f])
      /\ it' = [it EXCEPT ![t] = g]
      /\ deferred' = [deferred EXCEPT ![t] = "enqueue"]
      /\ pc' = [pc EXCEPT ![t] = "switch"]
      /\ UNCHANGED <<channel, running>>
    BY <1>3, <1>4 DEF SwitchToPartner, Goto, Handoff, contexts
<1>6. /\ pc'[t] = "switch" /\ deferred'[t] = "enqueue" /\ OthersStay(t)
      /\ \A u \in Threads : u # t => it'[u] = it[u] /\ deferred'[u] = deferred[u]
    BY <1>1, <1>5 DEF TypeOK, OthersStay
<1>7. /\ state' \in [Fibers -> {"init", "success", "closed", "destroyed"}]
      /\ data' \in [Fibers -> Fibers \cup {NULL}]
    BY <1>1, <1>4, <1>5 DEF ChannelTypeOK
<1>8. QED
    BY <1>1, <1>3, <1>4, <1>5, <1>6, <1>7, TakenGo

LEMMA WakeTakenChannel ==
    ASSUME ChannelInv, NEW t \in Threads, CloseWake(t) \/ DestroyWake(t)
    PROVE  ChannelState'
<1> USE Names DEF GoTo
<1>1. TypeOK /\ ChannelTypeOK
    BY DEF ChannelInv, OwnInv, TypeInv, ChannelState, OneSided
<1>2. PICK c \in {"closing", "destroying"}, r \in {"closed", "destroyed"} :
         At(t, c) /\ WakeTaken(t, r)
    BY DEF CloseWake, DestroyWake
<1>3. PICK f \in Fibers : f = running[t] /\ calls[f] = c
    BY <1>2, Caller DEF Away
<1>4. At(t, calls[f]) /\ calls[f] \in InMiddle
    BY <1>2, <1>3 DEF InMiddle
<1>5. /\ calls' = [calls EXCEPT ![f] = "none"]
      /\ taken' = [taken EXCEPT ![f] = <<>>]
      /\ state' = [h \in Fibers |-> IF h \in Range(taken[f]) THEN r ELSE state[h]]
      /\ parked' = parked \ Range(taken[f])
      /\ pc' = [pc EXCEPT ![t] = "list"]
      /\ UNCHANGED <<channel, data, running, it, deferred>>
    BY <1>2, <1>3 DEF WakeTaken, Goto, WakeList, contexts
<1>6. /\ pc'[t] = "list" /\ deferred'[t] # "release" /\ OthersStay(t)
      /\ \A u \in Threads : u # t => it'[u] = it[u] /\ deferred'[u] = deferred[u]
  <2>1. deferred[t] # "release"
    BY <1>2, ReleasesOne DEF ChannelInv, OwnInv, Locals, AgentLocals, At
  <2>2. QED
    BY <1>1, <1>5, <2>1 DEF TypeOK, OthersStay
<1>7. /\ state' \in [Fibers -> {"init", "success", "closed", "destroyed"}]
      /\ data' \in [Fibers -> Fibers \cup {NULL}]
    BY <1>1, <1>5 DEF ChannelTypeOK
<1>8. QED
    BY <1>1, <1>3, <1>4, <1>5, <1>6, <1>7, TakenGo

(* The steps of the calls that only look, refuse or return.                *)
LEMMA QuietCallsChannel ==
    ASSUME ChannelInv, NEW t \in Threads,
           \/ SendCheck(t) \/ CloseCheck(t)
           \/ SendLocked(t) /\ closed
           \/ Receive(t) /\ witem_list = <<>> /\ closed
           \/ CloseLocked(t) /\ closed
    PROVE  ChannelState'
<1>1. ChannelTypeOK
    BY DEF ChannelInv, ChannelState, OneSided
<1>2. PICK b \in {"none", "send", "close"}, c \in {"none", "send", "close"} :
         /\ At(t, b) /\ Goto(t, c)
         /\ c # "none" => alive
         /\ \/ ReturnNow(t, "closed")
            \/ UNCHANGED <<vars, channel, state, data, taken>>
    BY DEF SendCheck, CloseCheck, SendLocked, Receive, CloseLocked, ReturnNow
<1>3. /\ UNCHANGED <<vars, channel, taken>>
      /\ state' \in [Fibers -> {"init", "success", "closed", "destroyed"}]
      /\ data' \in [Fibers -> Fibers \cup {NULL}]
    BY <1>1, <1>2 DEF ReturnNow, ChannelTypeOK
<1>4. QED
    BY <1>2, <1>3, QuietStepChannel

LEMMA SendOrReceiveChannel ==
    ASSUME ChannelInv, NEW t \in Threads, SendLocked(t) \/ Receive(t)
    PROVE  ChannelState'
<1>1. CASE \/ SendLocked(t) /\ closed
           \/ Receive(t) /\ witem_list = <<>> /\ closed
    BY <1>1, QuietCallsChannel
<1>2. CASE SendLocked(t) /\ ~closed
  <2>1. At(t, "send") /\ ~locked /\ alive
    <3>1. PICK f \in Fibers : calls[f] = "send"
        BY <1>2, Caller DEF SendLocked, Away
    <3>2. QED
        BY <1>2, <3>1 DEF SendLocked, ChannelInv, ChannelState, Freed, Away
  <2>2. CASE ritem_list # <<>>
    BY <1>2, <2>1, <2>2, TakePartnerChannel DEF SendLocked
  <2>3. CASE ritem_list = <<>>
    BY <1>2, <2>1, <2>3, WaitInListChannel DEF SendLocked
  <2>4. QED
    BY <2>2, <2>3
<1>3. CASE Receive(t) /\ ~(witem_list = <<>> /\ closed)
  <2>1. At(t, "none") /\ ~locked /\ alive
    BY <1>3 DEF Receive
  <2>2. CASE witem_list # <<>>
    BY <1>3, <2>1, <2>2, TakePartnerChannel DEF Receive
  <2>3. CASE witem_list = <<>>
    BY <1>3, <2>1, <2>3, WaitInListChannel DEF Receive
  <2>4. QED
    BY <2>2, <2>3
<1>4. QED
    BY <1>1, <1>2, <1>3

LEMMA NextChannelInv ==
    ASSUME ChannelInv, [ChannelNext]_channelVars
    PROVE  ChannelInv'
<1>1. OwnInv' /\ IsFiniteSet(parked')
    BY UsesScheduler, NextOwn, ParkedFinite DEF ChannelInv
<1>2. CASE UNCHANGED channelVars
  <2> USE <1>2 DEF channelVars, channel, items, local, vars, contexts
  <2>1. \A t \in Threads, f \in Fibers : Releasing(t, f)' <=> Releasing(t, f)
    BY DEF Releasing
  <2>2. (OneSided /\ NobodyStranded /\ TakenWait /\ CallsExecute /\ Freed)'
    BY DEF ChannelInv, ChannelState, OneSided, ChannelTypeOK, NobodyStranded,
           TakenWait, Listed, CallsExecute, Executing, Freed
  <2>3. (ListsWait /\ SpinlockKept)'
    BY <2>1, ItemsTyped
       DEF ChannelInv, ChannelState, ListsWait, Listed, OnItsWay, SpinlockKept
  <2>4. QED
    BY <1>1, <2>2, <2>3 DEF ChannelInv, ChannelState
<1>3. ASSUME NEW t \in Threads, InCall(t) PROVE ChannelState'
    BY <1>3, SendOrReceiveChannel, MeetChannel, WakeTakenChannel, TakeListChannel,
       QuietCallsChannel DEF InCall
<1>4. CASE ChannelNext
  <2>1. ChannelState'
    BY <1>1, <1>3, <1>4, OtherStepChannel, ReleaseSpinlockChannel,
       QuietCallsChannel, SendOrReceiveChannel, TakeListChannel DEF ChannelNext
  <2>2. QED
    BY <1>1, <2>1 DEF ChannelInv
<1>5. QED
    BY <1>2, <1>4

LEMMA ChannelInvariant == ChannelSpec => []ChannelInv
<1>1. ChannelInit => ChannelInv
    BY InitChannelInv
<1>2. ChannelInv /\ [ChannelNext]_channelVars => ChannelInv'
    BY NextChannelInv
<1>3. QED
    BY <1>1, <1>2, PTL DEF ChannelSpec

-----------------------------------------------------------------------------
(* Senders and receivers never wait at once, also after closing.           *)
THEOREM OneSideWaits == ChannelSpec => []OneSided
<1>1. ChannelInv => OneSided
    BY DEF ChannelInv, ChannelState
<1>2. QED
    BY <1>1, ChannelInvariant, PTL

(* No send or receive slips into a list after close or destroy took it.    *)
THEOREM NoneLeftBehind == ChannelSpec => []NobodyStranded
<1>1. ChannelInv => NobodyStranded
    BY DEF ChannelInv, ChannelState
<1>2. QED
    BY <1>1, ChannelInvariant, PTL

(* Nobody unlocks the spinlock of a channel that was freed.                *)
THEOREM NoUnlockAfterFree == ChannelSpec => []FreedUnused
<1>1. ChannelInv => FreedUnused
    BY ReleasesOne DEF ChannelInv, ChannelState, SpinlockKept, Freed, FreedUnused
<1>2. QED
    BY <1>1, ChannelInvariant, PTL

(* A message is copied to or from the stack of a fiber that is off it, and *)
(* the states of items are set before their fibers run.                    *)
THEOREM ItemsOutlastTheirUse == ChannelSpec => []PartnerAsleep
<1>1. ASSUME ChannelInv PROVE PartnerAsleep
  <2>1. ASSUME NEW f \in Fibers, NEW g \in Fibers, f \in Range(taken[g])
        PROVE  /\ \A t \in Threads : running[t] # f
               /\ calls[f] \in {"sending", "receiving"}
    <3>1. f \in parked /\ Takes(calls[g], calls[f])
        BY <1>1, <2>1 DEF ChannelInv, ChannelState, TakenWait
    <3>2. ASSUME NEW t \in Threads, running[t] = f PROVE FALSE
      <4>1. Sits(f, "running", t) /\ "running" \in Kinds /\ t \in Holders
        BY <3>2, Names DEF Sits, Kinds, Holders
      <4>2. Sits(f, "parked", NULL) /\ "parked" \in Kinds /\ NULL \in Holders
        BY <3>1 DEF Sits, Kinds, Holders
      <4>3. QED
        BY <1>1, <4>1, <4>2, FiberFound DEF ChannelInv, OwnInv
    <3>3. QED
        BY <3>1, <3>2 DEF Takes
  <2>2. QED
    BY <2>1 DEF PartnerAsleep
<1>2. QED
    BY <1>1, ChannelInvariant, PTL

(* The partners that a call switches to, and the fibers that close and     *)
(* destroy wake, have left their stacks: every behaviour of the channel is *)
(* one of the scheduler.                                                   *)
THEOREM ChannelUsesScheduler == ChannelSpec => SchedulerSpec
<1>1. ChannelInit => Init
    BY DEF ChannelInit
<1>2. ChannelInv /\ [ChannelNext]_channelVars => [Next]_vars
    BY UsesScheduler
<1>3. QED
    BY <1>1, <1>2, ChannelInvariant, PTL DEF ChannelSpec, SchedulerSpec, Spec

-----------------------------------------------------------------------------
(* How calls end, without choices: the taker of an item is unique.         *)
Results ==
    \A f \in Fibers :
        /\ calls[f] \in {"sendmeet", "receivemeet"} => outcome[f] = "success"
        /\ f \in Listed => outcome[f] = "waiting"
        /\ \A g \in Fibers :
              f \in Range(taken[g]) => outcome[f] = Answer(calls[g])
        /\ \/ calls[f] \in {"sendmeet", "receivemeet"}
           \/ f \in Listed
           \/ \E g \in Fibers : f \in Range(taken[g])
           \/ outcome[f] = state[f]
        /\ calls[f] = "receivemeet" => got[f] = Head(taken[f])
        /\ \A g \in Fibers :
              f \in Range(taken[g]) /\ calls[g] = "sendmeet" => got[f] = g
        /\ \/ calls[f] = "receivemeet"
           \/ \E g \in Fibers : f \in Range(taken[g]) /\ calls[g] = "sendmeet"
           \/ got[f] = data[f]

LEMMA ResultsKnown == ChannelState => Results
<1> SUFFICES ASSUME ChannelState, NEW f \in Fibers
             PROVE  Results!(f)
    BY DEF Results
<1>1. \A g \in Fibers :
         f \in Range(taken[g]) =>
            /\ Takers(f) = {g} /\ calls[f] \in {"sending", "receiving"}
            /\ f \notin Listed /\ Takes(calls[g], calls[f])
    BY DEF ChannelState, TakenWait, Takes, Takers
<1>2. (\A g \in Fibers : f \notin Range(taken[g])) => Takers(f) = {}
    BY DEF Takers
<1>3. f \in Listed => calls[f] \in {"sending", "receiving"}
    BY DEF ChannelState, ListsWait, Listed
<1>4. outcome[f] =
        IF calls[f] \in {"sendmeet", "receivemeet"} THEN "success"
        ELSE IF f \in Listed THEN "waiting"
        ELSE IF calls[f] \in {"sending", "receiving"} /\ Takers(f) # {}
        THEN Answer(calls[CHOOSE g \in Takers(f) : TRUE])
        ELSE state[f]
    BY DEF outcome, Listed
<1>5. got[f] =
        IF calls[f] = "receivemeet" THEN Head(taken[f])
        ELSE IF calls[f] = "receiving" /\ \E g \in Takers(f) : calls[g] = "sendmeet"
        THEN CHOOSE g \in Takers(f) : calls[g] = "sendmeet"
        ELSE data[f]
    BY DEF got
<1>6. \A g \in Fibers : f \in Range(taken[g]) => outcome[f] = Answer(calls[g])
    BY <1>1, <1>4
<1>7. \A g \in Fibers :
         f \in Range(taken[g]) /\ calls[g] = "sendmeet" => got[f] = g
    BY <1>1, <1>5 DEF Takes
<1>8. \/ calls[f] = "receivemeet"
      \/ \E g \in Fibers : f \in Range(taken[g]) /\ calls[g] = "sendmeet"
      \/ got[f] = data[f]
    BY <1>5 DEF Takers
<1>9. \/ calls[f] \in {"sendmeet", "receivemeet"}
      \/ f \in Listed
      \/ \E g \in Fibers : f \in Range(taken[g])
      \/ outcome[f] = state[f]
    BY <1>2, <1>4
<1>10. /\ calls[f] \in {"sendmeet", "receivemeet"} => outcome[f] = "success"
       /\ f \in Listed => outcome[f] = "waiting"
       /\ calls[f] = "receivemeet" => got[f] = Head(taken[f])
    BY <1>3, <1>4, <1>5
<1>11. QED
    BY <1>6, <1>7, <1>8, <1>9, <1>10

LEMMA ResultsKnownNext == ChannelState' => Results'
<1>1. ChannelState => Results
    BY ResultsKnown
<1>2. QED
    BY <1>1, PTL

LEMMA ResultsFunctions ==
    /\ outcome = [f \in Fibers |-> outcome[f]] /\ got = [f \in Fibers |-> got[f]]
    /\ outcome' = [f \in Fibers |-> outcome'[f]] /\ got' = [f \in Fibers |-> got'[f]]
BY DEF outcome, got

(* Steps that decide nothing: what calls return to is known beforehand.    *)
NothingDecided ==
    /\ UNCHANGED <<ritem_list, witem_list, state, data, taken>>
    /\ \A f \in Fibers :
         \/ calls'[f] = calls[f]
         \/ /\ calls[f] \in Away \cup {"none", "send", "close"}
            /\ calls'[f] \in {"none", "send", "close"}

LEMMA QuietResults ==
    ASSUME ChannelState, ChannelState', NothingDecided
    PROVE  UNCHANGED <<outcome, got>>
<1>1. Results /\ Results'
    BY ResultsKnown, ResultsKnownNext
<1>2. /\ \A f \in Listed : calls[f] \in {"sending", "receiving"}
      /\ \A f, g \in Fibers :
            f \in Range(taken[g]) => calls[g] \in InMiddle \ {"send", "close"}
      /\ Listed' = Listed
    BY DEF ChannelState, ListsWait, TakenWait, Listed, Takes, InMiddle,
           NothingDecided
<1>3. \A f \in Fibers :
         calls[f] \in InMiddle \ {"send", "close"} => calls'[f] = calls[f]
    BY DEF NothingDecided, InMiddle, Away
<1>4. \A f \in Fibers :
         \/ calls'[f] = calls[f]
         \/ calls'[f] \in {"none", "send", "close"}
    BY DEF NothingDecided
<1>5. ASSUME NEW f \in Fibers
      PROVE  outcome'[f] = outcome[f] /\ got'[f] = got[f]
  <2>1. CASE \E g \in Fibers : f \in Range(taken[g])
    <3>1. PICK g \in Fibers : f \in Range(taken[g])
        BY <2>1
    <3>2. calls'[g] = calls[g] /\ f \in Range(taken'[g])
        BY <1>2, <1>3, <3>1 DEF NothingDecided
    <3>3. outcome'[f] = outcome[f]
        BY <1>1, <3>1, <3>2 DEF Results
    <3>4. /\ \A h \in Fibers : f \in Range(taken[h]) => h = g
          /\ calls[f] \in {"sending", "receiving"}
        BY <3>1 DEF ChannelState, TakenWait, Takes
    <3>5. calls'[f] # "receivemeet"
        BY <1>4, <3>4
    <3>6. CASE calls[g] = "sendmeet"
        BY <1>1, <3>1, <3>2, <3>6 DEF Results
    <3>7. CASE calls[g] # "sendmeet"
        BY <1>1, <3>2, <3>3, <3>4, <3>5, <3>7 DEF Results, NothingDecided
    <3>8. QED
        BY <3>3, <3>6, <3>7
  <2>2. CASE /\ \A g \in Fibers : f \notin Range(taken[g])
             /\ calls[f] \in {"sendmeet", "receivemeet"}
    BY <1>1, <1>3, <2>2 DEF Results, NothingDecided, InMiddle
  <2>3. CASE /\ \A g \in Fibers : f \notin Range(taken[g])
             /\ calls[f] \notin {"sendmeet", "receivemeet"}
    <3>1. calls'[f] \notin {"sendmeet", "receivemeet"}
        BY <1>4, <2>3
    <3>2. QED
        BY <1>1, <1>2, <2>3, <3>1 DEF Results, NothingDecided
  <2>4. QED
    BY <2>1, <2>2, <2>3
<1>6. QED
    BY <1>5, ResultsFunctions

(* A step that concerns other calls leaves the results of h as they are.   *)
Untouched(h) ==
    /\ calls'[h] = calls[h] /\ state'[h] = state[h] /\ data'[h] = data[h]
    /\ taken'[h] = taken[h]
    /\ h \in Listed' <=> h \in Listed
    /\ \A k \in Fibers :
         \/ h \notin Range(taken[k]) /\ h \notin Range(taken'[k])
         \/ /\ h \in Range(taken[k]) /\ h \in Range(taken'[k])
            /\ calls'[k] = calls[k]

LEMMA UntouchedResults ==
    ASSUME ChannelState, ChannelState', NEW h \in Fibers, Untouched(h)
    PROVE  outcome'[h] = outcome[h] /\ got'[h] = got[h]
<1>1. Results /\ Results'
    BY ResultsKnown, ResultsKnownNext
<1>2. CASE \E k \in Fibers : h \in Range(taken[k])
  <2>1. PICK k \in Fibers : /\ h \in Range(taken[k]) /\ h \in Range(taken'[k])
                            /\ calls'[k] = calls[k]
    BY <1>2 DEF Untouched
  <2>2. /\ \A j \in Fibers : h \in Range(taken[j]) => j = k
        /\ calls[h] \in {"sending", "receiving"}
    BY <2>1 DEF ChannelState, TakenWait, Takes
  <2>3. outcome'[h] = outcome[h]
    BY <1>1, <2>1 DEF Results
  <2>4. CASE calls[k] = "sendmeet"
    BY <1>1, <2>1, <2>3, <2>4 DEF Results
  <2>5. CASE calls[k] # "sendmeet"
    <3>1. got[h] = data[h]
        BY <1>1, <2>2, <2>5 DEF Results
    <3>2. got'[h] = data'[h]
        BY <1>1, <2>1, <2>2, <2>5 DEF Results, Untouched
    <3>3. QED
        BY <2>3, <3>1, <3>2 DEF Untouched
  <2>6. QED
    BY <2>4, <2>5
<1>3. CASE \A k \in Fibers : h \notin Range(taken[k])
    BY <1>1, <1>3 DEF Results, Untouched
<1>4. QED
    BY <1>2, <1>3

(* The end of a rendezvous: both results are as they were decided.         *)
LEMMA MeetResults ==
    ASSUME ChannelInv, ChannelInv', NEW t \in Threads, SendMeet(t) \/ ReceiveMeet(t)
    PROVE  UNCHANGED <<outcome, got, ritem_list, witem_list, closed>>
<1>1. /\ ChannelState /\ ChannelTypeOK /\ Results /\ Results'
    BY ResultsKnown, ResultsKnownNext DEF ChannelInv, ChannelState, OneSided
<1>2. PICK c \in {"sendmeet", "receivemeet"} :
         At(t, c) /\ (c = "sendmeet" <=> SendMeet(t))
    BY DEF SendMeet, ReceiveMeet, At
<1>3. PICK f, g \in Fibers :
         /\ f = running[t] /\ g = Head(taken[f]) /\ Range(taken[f]) = {g} /\ g # f
    BY <1>2, Partner
<1>4. /\ calls[f] = c /\ f \notin Listed
      /\ \A h \in Fibers : f \notin Range(taken[h])
    BY <1>2, <1>3, Caller DEF Away
<1>5. /\ calls' = [calls EXCEPT ![f] = "switching"]
      /\ taken' = [taken EXCEPT ![f] = <<>>]
      /\ state' = [state EXCEPT ![g] = "success", ![f] = "success"]
      /\ c = "sendmeet" => data' = [data EXCEPT ![g] = f]
      /\ c = "receivemeet" => data' = [data EXCEPT ![f] = g]
      /\ UNCHANGED <<ritem_list, witem_list, closed>>
    BY <1>2, <1>3 DEF SendMeet, ReceiveMeet, SwitchToPartner, Goto, channel, items
<1>6. /\ calls'[f] = "switching" /\ Range(taken'[f]) = {}
      /\ state'[f] = "success" /\ state'[g] = "success"
      /\ \A h \in Fibers : h # f => calls'[h] = calls[h] /\ taken'[h] = taken[h]
      /\ \A h \in Fibers : h \notin {f, g} => /\ state'[h] = state[h]
                                              /\ data'[h] = data[h]
      /\ c = "sendmeet" => data'[g] = f /\ data'[f] = data[f]
      /\ c = "receivemeet" => data'[f] = g /\ data'[g] = data[g]
    BY <1>1, <1>2, <1>3, <1>5, ListedEmpty DEF ChannelTypeOK
<1>7. /\ g \notin Listed /\ Takes(c, calls[g])
      /\ \A h \in Fibers : g \in Range(taken[h]) => h = f
      /\ Listed' = Listed
    BY <1>1, <1>3, <1>4, <1>5 DEF ChannelState, TakenWait, Listed
<1>8. outcome'[f] = outcome[f] /\ got'[f] = got[f]
  <2>1. \A h \in Fibers : f \notin Range(taken'[h])
    BY <1>4, <1>6
  <2>2. outcome'[f] = "success" /\ got'[f] = data'[f]
    BY <1>1, <1>4, <1>6, <1>7, <2>1 DEF Results
  <2>3. outcome[f] = "success" /\ (c = "receivemeet" => got[f] = g)
    BY <1>1, <1>3, <1>4 DEF Results
  <2>4. c = "sendmeet" => got[f] = data[f]
    BY <1>1, <1>4 DEF Results
  <2>5. QED
    BY <1>6, <2>2, <2>3, <2>4
<1>9. outcome'[g] = outcome[g] /\ got'[g] = got[g]
  <2>1. \A h \in Fibers : g \notin Range(taken'[h])
    BY <1>6, <1>7
  <2>2. calls'[g] \in {"sending", "receiving"}
    BY <1>3, <1>6, <1>7 DEF Takes
  <2>3. outcome'[g] = "success" /\ got'[g] = data'[g]
    BY <1>1, <1>6, <1>7, <2>1, <2>2 DEF Results
  <2>4. outcome[g] = "success" /\ (c = "sendmeet" => got[g] = f)
    BY <1>1, <1>2, <1>3, <1>4 DEF Results, Answer
  <2>5. c = "receivemeet" => got[g] = data[g]
    BY <1>1, <1>3, <1>4, <1>6, <1>7, <2>2 DEF Results
  <2>6. QED
    BY <1>2, <1>6, <2>3, <2>4, <2>5
<1>10. ASSUME NEW h \in Fibers, h \notin {f, g}
       PROVE  outcome'[h] = outcome[h] /\ got'[h] = got[h]
  <2>1. Untouched(h)
    BY <1>3, <1>6, <1>7, <1>10 DEF Untouched
  <2>2. QED
    BY <2>1, UntouchedResults DEF ChannelInv
<1>11. QED
    BY <1>5, <1>8, <1>9, <1>10, ResultsFunctions

(* So do close and destroy: the fibers go with what was decided.           *)
LEMMA WakeResults ==
    ASSUME ChannelInv, ChannelInv', NEW t \in Threads, CloseWake(t) \/ DestroyWake(t)
    PROVE  UNCHANGED <<outcome, got, ritem_list, witem_list, closed>>
<1>1. /\ ChannelState /\ ChannelTypeOK /\ Results /\ Results'
    BY ResultsKnown, ResultsKnownNext DEF ChannelInv, ChannelState, OneSided
<1>2. PICK c \in {"closing", "destroying"} : At(t, c) /\ WakeTaken(t, Answer(c))
    BY DEF CloseWake, DestroyWake, Answer
<1>3. PICK f \in Fibers :
         /\ f = running[t] /\ calls[f] = c /\ f \notin Listed
         /\ \A g \in Fibers : f \notin Range(taken[g])
    BY <1>2, Caller DEF Away
<1>4. /\ calls' = [calls EXCEPT ![f] = "none"]
      /\ taken' = [taken EXCEPT ![f] = <<>>]
      /\ state' = [h \in Fibers |->
                     IF h \in Range(taken[f]) THEN Answer(c) ELSE state[h]]
      /\ UNCHANGED <<ritem_list, witem_list, closed, data>>
    BY <1>2, <1>3 DEF WakeTaken, Goto, channel, items
<1>5. /\ calls'[f] = "none" /\ Range(taken'[f]) = {}
      /\ \A h \in Fibers : h # f => calls'[h] = calls[h] /\ taken'[h] = taken[h]
      /\ Listed' = Listed
    BY <1>1, <1>4, ListedEmpty DEF ChannelTypeOK, Listed
<1>6. outcome'[f] = outcome[f] /\ got'[f] = got[f]
  <2>1. \A g \in Fibers : f \notin Range(taken'[g])
    BY <1>3, <1>5
  <2>2. QED
    BY <1>1, <1>3, <1>4, <1>5, <2>1 DEF Results
<1>7. ASSUME NEW h \in Fibers, h \in Range(taken[f])
      PROVE  outcome'[h] = outcome[h] /\ got'[h] = got[h]
  <2>1. /\ h # f /\ h \notin Listed /\ Takes(c, calls[h])
        /\ \A k \in Fibers : h \in Range(taken[k]) => k = f
    BY <1>1, <1>3, <1>7 DEF ChannelState, TakenWait
  <2>2. \A k \in Fibers : h \notin Range(taken'[k])
    BY <1>5, <2>1
  <2>3. calls'[h] = calls[h] /\ calls[h] \in {"sending", "receiving"}
    BY <1>5, <2>1 DEF Takes
  <2>4. outcome'[h] = Answer(c) /\ got'[h] = data[h]
    BY <1>1, <1>4, <1>5, <1>7, <2>1, <2>2, <2>3 DEF Results
  <2>5. outcome[h] = Answer(c)
    BY <1>1, <1>3, <1>7 DEF Results
  <2>6. got[h] = data[h]
    BY <1>1, <1>3, <2>1, <2>3 DEF Results
  <2>7. QED
    BY <2>4, <2>5, <2>6
<1>8. ASSUME NEW h \in Fibers, h # f, h \notin Range(taken[f])
      PROVE  outcome'[h] = outcome[h] /\ got'[h] = got[h]
  <2>1. Untouched(h)
    BY <1>4, <1>5, <1>8 DEF Untouched
  <2>2. QED
    BY <2>1, UntouchedResults DEF ChannelInv
<1>9. QED
    BY <1>4, <1>6, <1>7, <1>8, ResultsFunctions

-----------------------------------------------------------------------------
(* A call that has not begun may begin: it does not wait.                  *)
LEMMA MayBegin ==
    ASSUME ChannelInv, NEW t \in Threads, NEW b \in {"none", "send"}, At(t, b)
    PROVE  \E f \in Fibers :
              /\ f = running[t] /\ calls[f] = b /\ f \notin Listed
              /\ \A g \in Fibers : f \notin Range(taken[g])
              /\ outcome[f] # "waiting"
<1>1. PICK f \in Fibers :
         /\ f = running[t] /\ calls[f] = b /\ f \notin Listed
         /\ \A g \in Fibers : f \notin Range(taken[g])
    BY Caller DEF Away
<1>2. Results /\ state[f] # "waiting"
    BY ResultsKnown DEF ChannelInv, ChannelState, OneSided, ChannelTypeOK
<1>3. outcome[f] = state[f]
    BY <1>1, <1>2 DEF Results
<1>4. QED
    BY <1>1, <1>2, <1>3

LEMMA RefusedResults ==
    ASSUME ChannelInv, ChannelInv', NEW t \in Threads, NEW b \in {"none", "send"},
           At(t, b), ReturnNow(t, "closed")
    PROVE  \E f \in Fibers :
              /\ outcome[f] # "waiting" /\ Meeting!Ends(f, "closed")
              /\ UNCHANGED <<ritem_list, witem_list, closed>>
<1>1. /\ ChannelState /\ ChannelTypeOK /\ Results'
    BY ResultsKnownNext DEF ChannelInv, ChannelState, OneSided
<1>2. PICK f \in Fibers :
         /\ f = running[t] /\ calls[f] = b /\ f \notin Listed
         /\ \A g \in Fibers : f \notin Range(taken[g])
         /\ outcome[f] # "waiting"
    BY MayBegin
<1>3. /\ calls' = [calls EXCEPT ![f] = "none"]
      /\ state' = [state EXCEPT ![f] = "closed"]
      /\ data' = [data EXCEPT ![f] = NULL]
      /\ UNCHANGED <<ritem_list, witem_list, closed, taken>>
    BY <1>2 DEF ReturnNow, Goto, channel, items
<1>4. /\ calls'[f] = "none" /\ state'[f] = "closed" /\ data'[f] = NULL
      /\ Listed' = Listed
      /\ \A h \in Fibers : h # f => /\ calls'[h] = calls[h]
                                    /\ state'[h] = state[h] /\ data'[h] = data[h]
    BY <1>1, <1>3 DEF ChannelTypeOK, Listed
<1>5. outcome'[f] = "closed" /\ got'[f] = NULL
    BY <1>1, <1>2, <1>3, <1>4 DEF Results
<1>6. ASSUME NEW h \in Fibers, h # f
      PROVE  outcome'[h] = outcome[h] /\ got'[h] = got[h]
  <2>1. Untouched(h)
    <3>1. h \notin Range(taken[f])
        BY <1>1, <1>2 DEF ChannelState, TakenWait, Takes
    <3>2. QED
        BY <1>3, <1>4, <1>6, <3>1 DEF Untouched
  <2>2. QED
    BY <2>1, UntouchedResults DEF ChannelInv
<1>7. Meeting!Ends(f, "closed")
    BY <1>5, <1>6, ResultsFunctions DEF Meeting!Ends
<1>8. QED
    BY <1>2, <1>3, <1>7

LEMMA WaitingResults ==
    ASSUME ChannelInv, ChannelInv', NEW t \in Threads, NEW b \in {"none", "send"},
           At(t, b), NEW c \in {"sending", "receiving"}, WaitInList(t, c),
           \/ /\ witem_list' = Append(witem_list, running[t])
              /\ UNCHANGED ritem_list
           \/ /\ ritem_list' = Append(ritem_list, running[t])
              /\ UNCHANGED witem_list
    PROVE  \E f \in Fibers :
              /\ f = running[t] /\ outcome[f] # "waiting"
              /\ Meeting!Ends(f, "waiting")
<1>1. /\ ChannelState /\ ChannelTypeOK /\ Results'
    BY ResultsKnownNext DEF ChannelInv, ChannelState, OneSided
<1>2. PICK f \in Fibers :
         /\ f = running[t] /\ calls[f] = b /\ f \notin Listed
         /\ \A g \in Fibers : f \notin Range(taken[g])
         /\ outcome[f] # "waiting"
    BY MayBegin
<1>3. /\ calls' = [calls EXCEPT ![f] = c]
      /\ state' = [state EXCEPT ![f] = "init"]
      /\ data' = [data EXCEPT ![f] = NULL]
      /\ UNCHANGED taken
    BY <1>2 DEF WaitInList, Goto
<1>4. /\ calls'[f] = c /\ data'[f] = NULL
      /\ \A h \in Fibers : h # f => /\ calls'[h] = calls[h]
                                    /\ state'[h] = state[h] /\ data'[h] = data[h]
    BY <1>1, <1>3 DEF ChannelTypeOK
<1>5. Listed' = Listed \cup {f}
  <2>1. \/ /\ witem_list' = Append(witem_list, f) /\ UNCHANGED ritem_list
        \/ /\ ritem_list' = Append(ritem_list, f) /\ UNCHANGED witem_list
    BY <1>2
  <2>2. /\ Range(Append(witem_list, f)) = Range(witem_list) \cup {f}
        /\ Range(Append(ritem_list, f)) = Range(ritem_list) \cup {f}
    BY ItemsTyped, ListedAppend
  <2>3. QED
    BY <2>1, <2>2 DEF Listed
<1>6. outcome'[f] = "waiting" /\ got'[f] = NULL
    BY <1>1, <1>2, <1>3, <1>4, <1>5 DEF Results
<1>7. ASSUME NEW h \in Fibers, h # f
      PROVE  outcome'[h] = outcome[h] /\ got'[h] = got[h]
  <2>1. Untouched(h)
    <3>1. h \notin Range(taken[f])
        BY <1>1, <1>2 DEF ChannelState, TakenWait, Takes
    <3>2. QED
        BY <1>3, <1>4, <1>5, <1>7, <3>1 DEF Untouched
  <2>2. QED
    BY <2>1, UntouchedResults DEF ChannelInv
<1>8. Meeting!Ends(f, "waiting")
    BY <1>6, <1>7, ResultsFunctions DEF Meeting!Ends
<1>9. QED
    BY <1>2, <1>8

(* Nobody writes to the buffer of a call that waits for a partner.         *)
Unanswered == \A f \in Listed : data[f] = NULL

LEMMA NextUnanswered ==
    ASSUME ChannelInv, Unanswered, [ChannelNext]_channelVars
    PROVE  Unanswered'
<1> USE DEF channel, items, local
<1>1. /\ ChannelTypeOK /\ Listed \in SUBSET Fibers
      /\ ritem_list \in Seq(Fibers) /\ witem_list \in Seq(Fibers)
      /\ IsInjective(ritem_list) /\ IsInjective(witem_list)
    BY ItemsTyped DEF ChannelInv, ChannelState, OneSided, ListsWait, Listed
<1>2. ASSUME UNCHANGED <<ritem_list, witem_list, data>> PROVE Unanswered'
    BY <1>2 DEF Unanswered, Listed
<1>3. ASSUME NEW t \in Threads, NEW b \in {"none", "send"}, At(t, b),
             ReturnNow(t, "closed")
      PROVE  Unanswered'
  <2>1. PICK f \in Fibers : f = running[t] /\ f \notin Listed
    BY <1>3, MayBegin
  <2>2. QED
    BY <1>1, <1>3, <2>1 DEF ReturnNow, Unanswered, Listed, ChannelTypeOK
<1>4. ASSUME NEW t \in Threads, NEW f \in Fibers, f = running[t],
             data' = [data EXCEPT ![f] = NULL],
             Listed' \subseteq Listed \cup {f}
      PROVE  Unanswered'
    BY <1>1, <1>4 DEF Unanswered, ChannelTypeOK
<1>5. ASSUME NEW t \in Threads, SendLocked(t) \/ Receive(t) PROVE Unanswered'
  <2>1. PICK b \in {"none", "send"} : At(t, b)
    BY <1>5 DEF SendLocked, Receive
  <2>2. PICK f \in Fibers : f = running[t]
    BY <2>1, MayBegin
  <2>3. CASE ReturnNow(t, "closed")
    BY <1>3, <2>1, <2>3
  <2>4. CASE ~ReturnNow(t, "closed")
    <3>1. data' = [data EXCEPT ![f] = NULL]
        BY <1>5, <2>2, <2>4 DEF SendLocked, Receive, TakePartner, WaitInList
    <3>2. /\ \/ ritem_list' = ritem_list
             \/ ritem_list' = Append(ritem_list, f)
             \/ ritem_list # <<>> /\ ritem_list' = Tail(ritem_list)
          /\ \/ witem_list' = witem_list
             \/ witem_list' = Append(witem_list, f)
             \/ witem_list # <<>> /\ witem_list' = Tail(witem_list)
        BY <1>5, <2>2, <2>4 DEF SendLocked, Receive
    <3>3. /\ Range(ritem_list') \subseteq Range(ritem_list) \cup {f}
          /\ Range(witem_list') \subseteq Range(witem_list) \cup {f}
        BY <1>1, <3>2, ListedAppend, ListedPop
    <3>4. Listed' \subseteq Listed \cup {f}
        BY <3>3 DEF Listed
    <3>5. QED
        BY <1>4, <2>2, <3>1, <3>4
  <2>5. QED
    BY <2>3, <2>4
<1>6. ASSUME NEW t \in Threads, SendCheck(t) \/ CloseCheck(t) PROVE Unanswered'
    BY <1>2, <1>3, <1>6 DEF SendCheck, CloseCheck
<1>7. ASSUME NEW t \in Threads, CloseLocked(t) \/ Destroy(t) PROVE Unanswered'
    BY <1>7, ListedEmpty DEF CloseLocked, Destroy, Unanswered, Listed
<1>8. ASSUME NEW t \in Threads, SendMeet(t) \/ ReceiveMeet(t) PROVE Unanswered'
  <2>1. PICK c \in {"sendmeet", "receivemeet"} : At(t, c)
    BY <1>8 DEF SendMeet, ReceiveMeet
  <2>2. PICK f, g \in Fibers :
           /\ f = running[t] /\ g = Head(taken[f]) /\ g \in Range(taken[f])
    BY <2>1, Partner
  <2>3. f \notin Listed /\ g \notin Listed
    BY <2>1, <2>2, Caller DEF Away, ChannelInv, ChannelState, TakenWait
  <2>4. /\ UNCHANGED <<ritem_list, witem_list>>
        /\ \E k \in Fibers : \/ data' = [data EXCEPT ![f] = k]
                             \/ data' = [data EXCEPT ![g] = k]
    BY <1>8, <2>2 DEF SendMeet, ReceiveMeet, SwitchToPartner
  <2>5. QED
    BY <1>1, <2>3, <2>4 DEF Unanswered, Listed, ChannelTypeOK
<1>9. ASSUME NEW t \in Threads,
             \/ SchedulerStep(t) \/ ReleaseSpinlock(t) \/ LeaveFiber(t)
             \/ Spawn(t) /\ UNCHANGED <<channel, local>>
             \/ CloseWake(t) \/ DestroyWake(t)
      PROVE  Unanswered'
    BY <1>2, <1>9 DEF SchedulerStep, ReleaseSpinlock, LeaveFiber, CloseWake,
                      DestroyWake, WakeTaken
<1>10. CASE UNCHANGED channelVars
    BY <1>2, <1>10 DEF channelVars
<1>11. QED
    BY <1>5, <1>6, <1>7, <1>8, <1>9, <1>10 DEF ChannelNext, InCall

LEMMA PartnerResults ==
    ASSUME ChannelInv, ChannelInv', Unanswered, NEW t \in Threads,
           NEW b \in {"none", "send"}, At(t, b),
           NEW c \in {"sendmeet", "receivemeet"}, NEW g \in Listed,
           TakePartner(t, g, c),
           Listed' = Listed \ {g},
           calls[g] = IF c = "sendmeet" THEN "receiving" ELSE "sending"
    PROVE  \E f \in Fibers :
              /\ f = running[t] /\ outcome[f] # "waiting"
              /\ IF c = "sendmeet" THEN Meeting!Meet(f, g) ELSE Meeting!Meet(g, f)
<1>1. /\ ChannelState /\ ChannelTypeOK /\ Results /\ Results' /\ g \in Fibers
    BY ResultsKnown, ResultsKnownNext, ItemsTyped
       DEF ChannelInv, ChannelState, OneSided, Listed
<1>2. PICK f \in Fibers :
         /\ f = running[t] /\ calls[f] = b /\ f \notin Listed
         /\ \A h \in Fibers : f \notin Range(taken[h])
         /\ outcome[f] # "waiting"
    BY MayBegin
<1>3. /\ calls' = [calls EXCEPT ![f] = c]
      /\ taken' = [taken EXCEPT ![f] = <<g>>]
      /\ data' = [data EXCEPT ![f] = NULL]
      /\ UNCHANGED state
    BY <1>2 DEF TakePartner, Goto
<1>4. /\ calls'[f] = c /\ data'[f] = NULL /\ g # f
      /\ taken'[f] = <<g>> /\ Range(taken'[f]) = {g} /\ Head(taken'[f]) = g
      /\ \A h \in Fibers : h # f => /\ calls'[h] = calls[h]
                                    /\ taken'[h] = taken[h] /\ data'[h] = data[h]
  <2>1. Range(<<g>>) = {g} /\ Head(<<g>>) = g
    BY DEF Range
  <2>2. QED
    BY <1>1, <1>2, <1>3, <2>1 DEF ChannelTypeOK
<1>5. /\ \A h \in Fibers : g \notin Range(taken[h])
      /\ \A h \in Fibers : h \notin Range(taken[f])
    BY <1>1, <1>2 DEF ChannelState, TakenWait, Takes
<1>6. /\ outcome'[f] = "success"
      /\ got'[f] = IF c = "sendmeet" THEN NULL ELSE g
  <2>1. \A h \in Fibers : f \notin Range(taken'[h])
    BY <1>2, <1>4
  <2>2. QED
    BY <1>1, <1>4, <2>1 DEF Results
<1>7. /\ outcome'[g] = "success"
      /\ got'[g] = IF c = "sendmeet" THEN f ELSE NULL
  <2>1. outcome'[g] = "success"
    BY <1>1, <1>4 DEF Results, Answer
  <2>2. CASE c = "sendmeet"
    BY <1>1, <1>4, <2>1, <2>2 DEF Results
  <2>3. CASE c = "receivemeet"
    <3>1. calls'[g] = "sending" /\ data'[g] = data[g]
        BY <1>1, <1>4, <2>3
    <3>2. \A h \in Fibers : g \in Range(taken'[h]) => h = f
        BY <1>4, <1>5
    <3>3. got'[g] = data'[g]
        BY <1>1, <1>4, <2>3, <3>1, <3>2 DEF Results
    <3>4. QED
        BY <2>1, <2>3, <3>1, <3>3 DEF Unanswered
  <2>4. QED
    BY <2>2, <2>3
<1>8. ASSUME NEW h \in Fibers, h \notin {f, g}
      PROVE  outcome'[h] = outcome[h] /\ got'[h] = got[h]
  <2>1. Untouched(h)
    BY <1>3, <1>4, <1>5, <1>8 DEF Untouched
  <2>2. QED
    BY <2>1, UntouchedResults DEF ChannelInv
<1>9. IF c = "sendmeet" THEN Meeting!Meet(f, g) ELSE Meeting!Meet(g, f)
    BY <1>1, <1>4, <1>6, <1>7, <1>8, ResultsFunctions DEF Meeting!Meet
<1>10. QED
    BY <1>2, <1>9

(* The fibers of a list are dismissed when close or destroy unlinks it.    *)
LEMMA DismissedResults ==
    ASSUME ChannelInv, ChannelInv', NEW t \in Threads, NEW b \in {"none", "close"},
           At(t, b), NEW c \in {"closing", "destroying"}, Goto(t, c),
           NEW q \in Seq(Fibers), Range(q) \subseteq Listed,
           Listed' = Listed \ Range(q),
           taken' = [taken EXCEPT ![running[t]] = q], UNCHANGED <<state, data>>
    PROVE  /\ outcome' = [h \in Fibers |->
                            IF h \in Range(q) THEN Answer(c) ELSE outcome[h]]
           /\ got' = got
<1>1. /\ ChannelState /\ ChannelTypeOK /\ Results /\ Results'
    BY ResultsKnown, ResultsKnownNext DEF ChannelInv, ChannelState, OneSided
<1>2. PICK f \in Fibers :
         /\ f = running[t] /\ calls[f] = b /\ f \notin Listed
         /\ \A h \in Fibers : f \notin Range(taken[h])
    BY Caller DEF Away
<1>3. /\ calls'[f] = c /\ taken'[f] = q
      /\ \A h \in Fibers : h # f => /\ calls'[h] = calls[h]
                                    /\ taken'[h] = taken[h]
    BY <1>1, <1>2 DEF ChannelTypeOK, Goto
<1>4. \A h \in Fibers : h \notin Range(taken[f])
    BY <1>1, <1>2 DEF ChannelState, TakenWait, Takes
<1>5. outcome'[f] = outcome[f] /\ got'[f] = got[f] /\ f \notin Range(q)
  <2>1. \A h \in Fibers : f \notin Range(taken'[h])
    BY <1>2, <1>3
  <2>2. QED
    BY <1>1, <1>2, <1>3, <2>1 DEF Results
<1>6. ASSUME NEW h \in Fibers, h \in Range(q)
      PROVE  outcome'[h] = Answer(c) /\ got'[h] = got[h]
  <2>1. /\ h # f /\ calls'[h] = calls[h] /\ calls[h] \in {"sending", "receiving"}
        /\ \A k \in Fibers : h \notin Range(taken[k])
    BY <1>1, <1>2, <1>3, <1>6 DEF ChannelState, ListsWait, TakenWait, Listed
  <2>2. \A k \in Fibers : h \in Range(taken'[k]) => k = f
    BY <1>3, <2>1
  <2>3. outcome'[h] = Answer(c)
    BY <1>1, <1>3, <1>6 DEF Results
  <2>4. got'[h] = data[h]
    BY <1>1, <1>3, <2>1, <2>2 DEF Results
  <2>5. got[h] = data[h]
    BY <1>1, <2>1 DEF Results
  <2>6. QED
    BY <2>3, <2>4, <2>5
<1>7. ASSUME NEW h \in Fibers, h # f, h \notin Range(q)
      PROVE  outcome'[h] = outcome[h] /\ got'[h] = got[h]
  <2>1. Untouched(h)
    BY <1>3, <1>4, <1>7 DEF Untouched
  <2>2. QED
    BY <2>1, UntouchedResults DEF ChannelInv
<1>8. QED
    BY <1>5, <1>6, <1>7, ResultsFunctions

-----------------------------------------------------------------------------
(* The steps of the calls, each with the step of Rendezvous it makes.      *)
Decided == <<witem_list, ritem_list, outcome, got, closed>>

LEMMA QuietMeets ==
    ASSUME ChannelInv, ChannelInv', NEW t \in Threads,
           \/ SchedulerStep(t) \/ ReleaseSpinlock(t) \/ LeaveFiber(t)
           \/ Spawn(t) /\ UNCHANGED <<channel, local>>
           \/ SendCheck(t) /\ ~closed
           \/ CloseCheck(t)
           \/ CloseLocked(t) /\ closed
    PROVE  UNCHANGED Decided
<1> USE DEF channel, items, local
<1>1. ChannelState /\ ChannelState' /\ ChannelTypeOK
    BY DEF ChannelInv, ChannelState, OneSided
<1>2. NothingDecided /\ UNCHANGED closed
  <2>1. CASE SchedulerStep(t) \/ ReleaseSpinlock(t)
    BY <1>1, <2>1 DEF SchedulerStep, ReleaseSpinlock, CallsReturn, NothingDecided,
                      ChannelTypeOK
  <2>2. CASE LeaveFiber(t) \/ (Spawn(t) /\ UNCHANGED <<channel, local>>)
    BY <2>2 DEF LeaveFiber, NothingDecided
  <2>3. CASE \/ SendCheck(t) /\ ~closed
             \/ CloseCheck(t)
             \/ CloseLocked(t) /\ closed
    BY <1>1, <2>3 DEF SendCheck, CloseCheck, CloseLocked, At, Goto, NothingDecided,
                      ChannelTypeOK
  <2>4. QED
    BY <2>1, <2>2, <2>3
<1>3. QED
    BY <1>1, <1>2, QuietResults DEF Decided, NothingDecided

LEMMA SendMeets ==
    ASSUME ChannelInv, ChannelInv', Unanswered, NEW t \in Threads,
           SendLocked(t) \/ (SendCheck(t) /\ closed)
    PROVE  \E f \in Fibers : outcome[f] # "waiting" /\ Meeting!Send(f)
<1>1. PICK b \in {"none", "send"} : At(t, b)
    BY DEF SendLocked, SendCheck
<1>2. CASE closed
  <2>1. ReturnNow(t, "closed")
    BY <1>2 DEF SendLocked, SendCheck
  <2>2. QED
    BY <1>1, <1>2, <2>1, RefusedResults DEF Meeting!Send
<1>3. CASE ~closed /\ ritem_list # <<>>
  <2>1. /\ ritem_list' = Tail(ritem_list) /\ ~locked
        /\ TakePartner(t, Head(ritem_list), "sendmeet")
        /\ UNCHANGED <<witem_list, closed>>
    BY <1>3 DEF SendLocked, SendCheck, TakePartner
  <2>2. PICK g \in Range(ritem_list) :
           /\ g = Head(ritem_list)
           /\ Range(ritem_list') = Range(ritem_list) \ {g}
    BY <1>3, <2>1, ItemsTyped, ListedPop DEF ChannelInv, ChannelState, ListsWait
  <2>3. /\ g \in Listed /\ calls[g] = "receiving" /\ Listed' = Listed \ {g}
    BY <2>1, <2>2 DEF Listed, ChannelInv, ChannelState, ListsWait
  <2>4. TakePartner(t, g, "sendmeet")
    BY <2>1, <2>2
  <2>5. PICK f \in Fibers : outcome[f] # "waiting" /\ Meeting!Meet(f, g)
    BY <1>1, <2>3, <2>4, PartnerResults
  <2>6. QED
    BY <1>3, <2>1, <2>2, <2>5 DEF Meeting!Send
<1>4. CASE ~closed /\ ritem_list = <<>>
  <2>1. /\ witem_list' = Append(witem_list, running[t])
        /\ WaitInList(t, "sending")
        /\ UNCHANGED <<ritem_list, closed>>
    BY <1>4 DEF SendLocked, SendCheck, WaitInList
  <2>2. PICK f \in Fibers : /\ f = running[t] /\ outcome[f] # "waiting"
                            /\ Meeting!Ends(f, "waiting")
    BY <1>1, <2>1, WaitingResults
  <2>3. QED
    BY <1>4, <2>1, <2>2 DEF Meeting!Send
<1>5. QED
    BY <1>2, <1>3, <1>4

LEMMA ReceiveMeets ==
    ASSUME ChannelInv, ChannelInv', Unanswered, NEW t \in Threads, Receive(t)
    PROVE  \E f \in Fibers : outcome[f] # "waiting" /\ Meeting!Receive(f)
<1>1. At(t, "none")
    BY DEF Receive
<1>2. CASE witem_list = <<>> /\ closed
  <2>1. ReturnNow(t, "closed")
    BY <1>2 DEF Receive
  <2>2. QED
    BY <1>1, <1>2, <2>1, RefusedResults DEF Meeting!Receive
<1>3. CASE witem_list # <<>>
  <2>1. /\ witem_list' = Tail(witem_list)
        /\ TakePartner(t, Head(witem_list), "receivemeet")
        /\ UNCHANGED <<ritem_list, closed>>
    BY <1>3 DEF Receive, TakePartner
  <2>2. PICK g \in Range(witem_list) :
           /\ g = Head(witem_list)
           /\ Range(witem_list') = Range(witem_list) \ {g}
    BY <1>3, <2>1, ItemsTyped, ListedPop DEF ChannelInv, ChannelState, ListsWait
  <2>3. /\ g \in Listed /\ calls[g] = "sending" /\ Listed' = Listed \ {g}
    BY <2>1, <2>2 DEF Listed, ChannelInv, ChannelState, ListsWait
  <2>4. TakePartner(t, g, "receivemeet")
    BY <2>1, <2>2
  <2>5. PICK f \in Fibers : outcome[f] # "waiting" /\ Meeting!Meet(g, f)
    BY <1>1, <2>3, <2>4, PartnerResults
  <2>6. QED
    BY <1>3, <2>1, <2>2, <2>5 DEF Meeting!Receive
<1>4. CASE witem_list = <<>> /\ ~closed
  <2>1. /\ ritem_list' = Append(ritem_list, running[t])
        /\ WaitInList(t, "receiving")
        /\ UNCHANGED <<witem_list, closed>>
    BY <1>4 DEF Receive, WaitInList
  <2>2. PICK f \in Fibers : /\ f = running[t] /\ outcome[f] # "waiting"
                            /\ Meeting!Ends(f, "waiting")
    BY <1>1, <2>1, WaitingResults
  <2>3. QED
    BY <1>4, <2>1, <2>2 DEF Meeting!Receive
<1>5. QED
    BY <1>2, <1>3, <1>4

LEMMA CloseMeets ==
    ASSUME ChannelInv, ChannelInv', NEW t \in Threads, CloseLocked(t), ~closed
    PROVE  Meeting!Close
<1>1. /\ At(t, "close") /\ Goto(t, "closing") /\ closed' = TRUE
      /\ taken' = [taken EXCEPT ![running[t]] = ritem_list]
      /\ ritem_list' = <<>> /\ UNCHANGED <<witem_list, state, data>>
    BY DEF CloseLocked
<1>2. /\ Range(ritem_list) \subseteq Listed /\ ritem_list \in Seq(Fibers)
      /\ Listed' = Listed \ Range(ritem_list)
  <2>1. \A f \in Range(ritem_list) : f \notin Range(witem_list)
    BY DEF ChannelInv, ChannelState, ListsWait
  <2>2. QED
    BY <1>1, <2>1, ItemsTyped, ListedEmpty DEF Listed
<1>3. /\ outcome' = [h \in Fibers |->
                       IF h \in Range(ritem_list) THEN Answer("closing")
                       ELSE outcome[h]]
      /\ got' = got
    BY <1>1, <1>2, DismissedResults
<1>4. QED
    BY <1>1, <1>3 DEF Meeting!Close, Meeting!Dismiss, Meeting!Range, Range, Answer

LEMMA DestroyMeets ==
    ASSUME ChannelInv, ChannelInv', NEW t \in Threads, Destroy(t)
    PROVE  Meeting!Destroy
<1>1. PICK q \in {ritem_list, witem_list} :
         /\ At(t, "none") /\ Goto(t, "destroying") /\ closed' = TRUE
         /\ taken' = [taken EXCEPT ![running[t]] = q]
         /\ \/ q = ritem_list /\ witem_list = <<>>
            \/ q = witem_list /\ ritem_list = <<>>
         /\ ritem_list' = <<>> /\ witem_list' = <<>> /\ UNCHANGED <<state, data>>
  <2>1. CASE ritem_list # <<>>
    <3>1. witem_list = <<>>
      BY <2>1 DEF ChannelInv, ChannelState, OneSided
    <3>2. QED
      BY <2>1, <3>1 DEF Destroy
  <2>2. CASE ritem_list = <<>>
    BY <2>2 DEF Destroy
  <2>3. QED
    BY <2>1, <2>2
<1>2. q \in Seq(Fibers) /\ Range(q) = Listed /\ Listed' = {}
    BY <1>1, ItemsTyped, ListedEmpty DEF Listed
<1>3. /\ outcome' = [h \in Fibers |->
                       IF h \in Range(q) THEN Answer("destroying") ELSE outcome[h]]
      /\ got' = got
    BY <1>1, <1>2, DismissedResults
<1>4. \A h \in Fibers :
         h \in Range(q) <=> h \in Meeting!Range(ritem_list) \cup Meeting!Range(witem_list)
    BY <1>2 DEF Listed, Meeting!Range, Range
<1>5. QED
    BY <1>1, <1>3, <1>4 DEF Meeting!Destroy, Meeting!Dismiss, Answer

(* Every step of the channel is one of Rendezvous, or changes nothing      *)
(* there.                                                                  *)
LEMMA RendezvousStep ==
    ASSUME ChannelInv, ChannelInv', Unanswered, [ChannelNext]_channelVars
    PROVE  [Meeting!Next]_Decided
<1>1. CASE UNCHANGED channelVars
    BY <1>1, QuietResults
       DEF channelVars, channel, items, local, NothingDecided, Decided, ChannelInv
<1>2. ASSUME NEW t \in Threads,
             SendLocked(t) \/ (SendCheck(t) /\ closed) \/ Receive(t)
      PROVE  Meeting!Next
    BY <1>2, SendMeets, ReceiveMeets DEF Meeting!Next
<1>3. ASSUME NEW t \in Threads, (CloseLocked(t) /\ ~closed) \/ Destroy(t)
      PROVE  Meeting!Next
    BY <1>3, CloseMeets, DestroyMeets DEF Meeting!Next
<1>4. ASSUME NEW t \in Threads,
             SendMeet(t) \/ ReceiveMeet(t) \/ CloseWake(t) \/ DestroyWake(t)
      PROVE  UNCHANGED Decided
    BY <1>4, MeetResults, WakeResults DEF Decided
<1>5. ASSUME NEW t \in Threads,
             \/ SchedulerStep(t) \/ ReleaseSpinlock(t) \/ LeaveFiber(t)
             \/ Spawn(t) /\ UNCHANGED <<channel, local>>
             \/ SendCheck(t) /\ ~closed
             \/ CloseCheck(t)
             \/ CloseLocked(t) /\ closed
      PROVE  UNCHANGED Decided
    BY <1>5, QuietMeets
<1>6. CASE ChannelNext
  <2>1. PICK t \in Threads :
           \/ SchedulerStep(t) \/ ReleaseSpinlock(t) \/ LeaveFiber(t)
           \/ At(t, "none") /\ Spawn(t) /\ UNCHANGED <<channel, local>>
           \/ SendCheck(t) \/ Receive(t) \/ CloseCheck(t) \/ Destroy(t)
           \/ SendLocked(t) \/ CloseLocked(t)
           \/ SendMeet(t) \/ ReceiveMeet(t) \/ CloseWake(t) \/ DestroyWake(t)
    BY <1>6 DEF ChannelNext, InCall
  <2>2. QED
    BY <1>2, <1>3, <1>4, <1>5, <2>1
<1>7. QED
    BY <1>1, <1>6

(* The channel implements Rendezvous: a send and a receive succeed         *)
(* together, in FIFO order and with the sender's message, although the     *)
(* copy and the states follow outside the lock.                            *)
THEOREM ChannelIsRendezvous == ChannelSpec => RendezvousSpec
<1>1. ChannelInit => Meeting!Init /\ Unanswered
  <2>1. SUFFICES ASSUME ChannelInit PROVE Meeting!Init /\ Unanswered
    OBVIOUS
  <2>2. Results /\ ChannelInv
    BY <2>1, InitChannelInv, ResultsKnown DEF ChannelInv
  <2>3. Listed = {} /\ \A f, g \in Fibers : f \notin Range(taken[g])
    BY <2>1, ListedEmpty DEF ChannelInit, Listed
  <2>4. \A f \in Fibers : outcome[f] = "init" /\ got[f] = NULL
    BY <2>1, <2>2, <2>3 DEF Results, ChannelInit
  <2>5. QED
    BY <2>1, <2>3, <2>4, ResultsFunctions DEF Meeting!Init, ChannelInit, Unanswered
<1>2. ChannelInv /\ Unanswered /\ [ChannelNext]_channelVars => Unanswered'
    BY NextUnanswered
<1>3. ChannelInv /\ ChannelInv' /\ Unanswered /\ [ChannelNext]_channelVars
        => [Meeting!Next]_(Meeting!vars)
    BY RendezvousStep DEF Decided, Meeting!vars
<1>4. QED
    BY <1>1, <1>2, <1>3, ChannelInvariant, PTL
       DEF ChannelSpec, RendezvousSpec, Meeting!Spec

=============================================================================
