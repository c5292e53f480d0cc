---------------------------- MODULE FiberChannel ----------------------------
(***************************************************************************)
(* The channel, src/channel.c, on top of the scheduler: one channel, which *)
(* all fibers may use.  A call that finds no partner links its item, which *)
(* lies on its own stack, into the list of its side and leaves the         *)
(* channel's spinlock to its thread's loop.  A call that finds a partner   *)
(* unlinks the partner's item, releases the spinlock, and only then copies *)
(* the message and sets the partner's state; it then switches directly to  *)
(* the partner and leaves itself in the run queue.  close and destroy take *)
(* a whole list under the spinlock and set the items' states after it.     *)
(*                                                                         *)
(* calls[f] is where the fiber f stands inside the functions of channel.c. *)
(* The clients keep one rule: a fiber destroys the channel when nobody     *)
(* else executes a call on it (calls that wait are allowed), and nobody    *)
(* uses it afterwards.                                                     *)
(***************************************************************************)
EXTENDS FiberScheduler

VARIABLES
    ritem_list, witem_list,     \* the items of waiting receivers, senders
    closed,                     \* ch->closed
    locked,                     \* ch->lock is held between two steps
    alive,                      \* ch is allocated
    calls,                      \* fiber -> where it stands in a call
    state,                      \* fiber -> its item's state, or its result
    data,                       \* fiber -> whose message its buffer holds
    taken                       \* fiber -> the items it has unlinked

items == <<ritem_list, witem_list>>
channel == <<items, closed, locked, alive>>
local == <<calls, state, data, taken>>
channelVars == <<vars, channel, local>>

(* fiber_channel_create, by main() before it spawns fibers.                *)
ChannelInit ==
    /\ Init
    /\ ritem_list = <<>>
    /\ witem_list = <<>>
    /\ closed = FALSE
    /\ locked = FALSE
    /\ alive = TRUE
    /\ calls = [f \in Fibers |-> "none"]
    /\ state = [f \in Fibers |-> "init"]
    /\ data = [f \in Fibers |-> NULL]
    /\ taken = [f \in Fibers |-> <<>>]

-----------------------------------------------------------------------------
(* A call that left its thread returns when its fiber executes again.      *)
Away == {"sending", "receiving", "switching"}

CallsReturn ==
    calls' = [f \in Fibers |-> IF calls[f] \in Away /\ Executing(f)'
                               THEN "none" ELSE calls[f]]

(* t executes a fiber that stands at the label c.                          *)
At(t, c) == pc[t] = "user" /\ calls[running[t]] = c

Goto(t, c) == calls' = [calls EXCEPT ![running[t]] = c]

(* The call ends on the spot with the result r and without a message.      *)
ReturnNow(t, r) ==
    /\ Goto(t, "none")
    /\ state' = [state EXCEPT ![running[t]] = r]
    /\ data' = [data EXCEPT ![running[t]] = NULL]
    /\ UNCHANGED <<vars, channel, taken>>

(* Faulty variants of the three operators that follow; see FiberScheduler. *)

(* The spinlock is unlocked before the fiber has left its stack.           *)
WaitUnlocksFirst(t, c) ==
    /\ Goto(t, c)
    /\ state' = [state EXCEPT ![running[t]] = "init"]
    /\ data' = [data EXCEPT ![running[t]] = NULL]
    /\ Park(t)
    /\ UNCHANGED <<closed, locked, alive, taken>>

(* The partner's state is not set.                                         *)
SwitchSetsOwnState(t, g) ==
    /\ state' = [state EXCEPT ![running[t]] = "success"]
    /\ taken' = [taken EXCEPT ![running[t]] = <<>>]
    /\ Goto(t, "switching")
    /\ Handoff(t, g)
    /\ UNCHANGED channel

(* The fiber that switches does not have itself enqueued.                  *)
SwitchForgetsItself(t, g) ==
    /\ state' = [state EXCEPT ![g] = "success", ![running[t]] = "success"]
    /\ taken' = [taken EXCEPT ![running[t]] = <<>>]
    /\ Goto(t, "switching")
    /\ pc[t] = "user"
    /\ pc' = [pc EXCEPT ![t] = "switch"]
    /\ it' = [it EXCEPT ![t] = g]
    /\ parked' = parked \ {g}
    /\ UNCHANGED <<channel, queues, memory, contexts, sem, deferred, th, lists>>

(* The item is initialised, linked and the stack left with the spinlock    *)
(* held.                                                                   *)
WaitInList(t, c) ==
    /\ locked' = TRUE
    /\ Goto(t, c)
    /\ state' = [state EXCEPT ![running[t]] = "init"]
    /\ data' = [data EXCEPT ![running[t]] = NULL]
    /\ Park(t)
    /\ UNCHANGED <<closed, alive, taken>>

(* The head of a list is unlinked and the spinlock released.               *)
TakePartner(t, g, c) ==
    /\ taken' = [taken EXCEPT ![running[t]] = <<g>>]
    /\ Goto(t, c)
    /\ data' = [data EXCEPT ![running[t]] = NULL]
    /\ UNCHANGED <<vars, closed, locked, alive, state>>

(* The end of a rendezvous: set the partner's state and switch to it.      *)
SwitchToPartner(t, g) ==
    /\ state' = [state EXCEPT ![g] = "success", ![running[t]] = "success"]
    /\ taken' = [taken EXCEPT ![running[t]] = <<>>]
    /\ Goto(t, "switching")
    /\ Handoff(t, g)
    /\ UNCHANGED channel

(* The loop over the unlinked items, and enqueue_fiber_list.               *)
WakeTaken(t, r) ==
    LET l == taken[running[t]]
    IN  /\ state' = [f \in Fibers |-> IF f \in Range(l) THEN r ELSE state[f]]
        /\ taken' = [taken EXCEPT ![running[t]] = <<>>]
        /\ Goto(t, "none")
        /\ WakeList(t, l)
        /\ UNCHANGED <<channel, data>>

-----------------------------------------------------------------------------
(* Faulty variants of the actions below.                                   *)

(* A receive waits before it looks for a sender.                           *)
ReceiveJoinsFirst(t) ==
    /\ At(t, "none")
    /\ alive
    /\ ~locked
    /\ ~closed
    /\ ritem_list' = Append(ritem_list, running[t])
    /\ WaitInList(t, "receiving")
    /\ UNCHANGED witem_list

(* A receive does not look at closed.                                      *)
ReceiveUnchecked(t) ==
    /\ At(t, "none")
    /\ alive
    /\ ~locked
    /\ \/ /\ witem_list # <<>>
          /\ witem_list' = Tail(witem_list)
          /\ TakePartner(t, Head(witem_list), "receivemeet")
          /\ UNCHANGED ritem_list
       \/ /\ witem_list = <<>>
          /\ ritem_list' = Append(ritem_list, running[t])
          /\ WaitInList(t, "receiving")
          /\ UNCHANGED witem_list

(* The channel is freed without taking its spinlock.                       *)
DestroyUnlocked(t) ==
    /\ At(t, "none")
    /\ alive
    /\ \A f \in Fibers : calls[f] \in Away \cup {"none"}
    /\ closed' = TRUE
    /\ alive' = FALSE
    /\ taken' = [taken EXCEPT ![running[t]] = ritem_list \o witem_list]
    /\ ritem_list' = <<>>
    /\ witem_list' = <<>>
    /\ Goto(t, "destroying")
    /\ UNCHANGED <<vars, locked, state, data>>

-----------------------------------------------------------------------------
(* fiber_channel_send: the test of closed without the lock ...             *)
SendCheck(t) ==
    /\ At(t, "none")
    /\ alive
    /\ \/ closed /\ ReturnNow(t, "closed")
       \/ ~closed /\ Goto(t, "send")
                  /\ UNCHANGED <<vars, channel, state, data, taken>>

(* ... and the critical section: refused, a receiver waits, or wait.       *)
SendLocked(t) ==
    /\ At(t, "send")
    /\ ~locked
    /\ \/ closed /\ ReturnNow(t, "closed")
       \/ /\ ~closed
          /\ ritem_list # <<>>
          /\ ritem_list' = Tail(ritem_list)
          /\ TakePartner(t, Head(ritem_list), "sendmeet")
          /\ UNCHANGED witem_list
       \/ /\ ~closed
          /\ ritem_list = <<>>
          /\ witem_list' = Append(witem_list, running[t])
          /\ WaitInList(t, "sending")
          /\ UNCHANGED ritem_list

(* The message is copied into the waiting receiver's buffer.               *)
SendMeet(t) ==
    LET g == Head(taken[running[t]])
    IN  /\ At(t, "sendmeet")
        /\ data' = [data EXCEPT ![g] = running[t]]
        /\ SwitchToPartner(t, g)

(* fiber_channel_receive: a sender waits, refused, or wait.                *)
Receive(t) ==
    /\ At(t, "none")
    /\ alive
    /\ ~locked
    /\ \/ /\ witem_list # <<>>
          /\ witem_list' = Tail(witem_list)
          /\ TakePartner(t, Head(witem_list), "receivemeet")
          /\ UNCHANGED ritem_list
       \/ /\ witem_list = <<>>
          /\ closed
          /\ ReturnNow(t, "closed")
       \/ /\ witem_list = <<>>
          /\ ~closed
          /\ ritem_list' = Append(ritem_list, running[t])
          /\ WaitInList(t, "receiving")
          /\ UNCHANGED witem_list

(* The message is copied out of the waiting sender's buffer.               *)
ReceiveMeet(t) ==
    LET g == Head(taken[running[t]])
    IN  /\ At(t, "receivemeet")
        /\ data' = [data EXCEPT ![running[t]] = g]
        /\ SwitchToPartner(t, g)

(* fiber_channel_close: the test without the lock, ...                     *)
CloseCheck(t) ==
    /\ At(t, "none")
    /\ alive
    /\ ~closed
    /\ Goto(t, "close")
    /\ UNCHANGED <<vars, channel, state, data, taken>>

(* ... the critical section, in which only receivers are taken, ...        *)
CloseLocked(t) ==
    /\ At(t, "close")
    /\ ~locked
    /\ \/ /\ closed
          /\ Goto(t, "none")
          /\ UNCHANGED <<channel, taken>>
       \/ /\ ~closed
          /\ closed' = TRUE
          /\ taken' = [taken EXCEPT ![running[t]] = ritem_list]
          /\ ritem_list' = <<>>
          /\ Goto(t, "closing")
          /\ UNCHANGED <<witem_list, locked, alive>>
    /\ UNCHANGED <<vars, state, data>>

(* ... and what follows it.                                                *)
CloseWake(t) == At(t, "closing") /\ WakeTaken(t, "closed")

(* fiber_channel_destroy: the receivers or else the senders are taken.     *)
Destroy(t) ==
    /\ At(t, "none")
    /\ alive
    /\ ~locked
    /\ \A f \in Fibers : calls[f] \in Away \cup {"none"}
    /\ closed' = TRUE
    /\ alive' = FALSE
    /\ \/ /\ ritem_list # <<>>
          /\ taken' = [taken EXCEPT ![running[t]] = ritem_list]
          /\ ritem_list' = <<>>
          /\ UNCHANGED witem_list
       \/ /\ ritem_list = <<>>
          /\ taken' = [taken EXCEPT ![running[t]] = witem_list]
          /\ witem_list' = <<>>
          /\ UNCHANGED ritem_list
    /\ Goto(t, "destroying")
    /\ UNCHANGED <<vars, locked, state, data>>

DestroyWake(t) == At(t, "destroying") /\ WakeTaken(t, "destroyed")

-----------------------------------------------------------------------------
(* The deferred fjx_spinlock_unlock on ch->lock.                           *)
ReleaseSpinlock(t) ==
    /\ Release(t)
    /\ locked' = FALSE
    /\ CallsReturn
    /\ UNCHANGED <<items, closed, alive, state, data, taken>>

(* The scheduler's steps that do not concern the channel.                  *)
SchedulerStep(t) ==
    /\ \/ LibraryStep(t) /\ pc[t] # "release"
       \/ ListStep(t)
    /\ CallsReturn
    /\ UNCHANGED <<channel, state, data, taken>>

(* What else a fiber does between two calls.                               *)
LeaveFiber(t) ==
    /\ At(t, "none")
    /\ Yield(t) \/ Exit(t)
    /\ UNCHANGED <<channel, local>>

(* The steps in the middle of a call.                                      *)
InCall(t) ==
    \/ SendLocked(t)
    \/ SendMeet(t)
    \/ ReceiveMeet(t)
    \/ CloseLocked(t)
    \/ CloseWake(t)
    \/ DestroyWake(t)

ChannelNext ==
    \E t \in Threads :
        \/ SchedulerStep(t)
        \/ ReleaseSpinlock(t)
        \/ LeaveFiber(t)
        \/ At(t, "none") /\ Spawn(t) /\ UNCHANGED <<channel, local>>
        \/ SendCheck(t)
        \/ Receive(t)
        \/ CloseCheck(t)
        \/ Destroy(t)
        \/ InCall(t)

ChannelSpec == ChannelInit /\ [][ChannelNext]_channelVars

(* As in FiberScheduler; a thread that spins on ch->lock gets it if it is  *)
(* free again and again.                                                   *)
ChannelFairSpec ==
    /\ ChannelSpec
    /\ \A t \in Threads : /\ WF_channelVars(SchedulerStep(t))
                          /\ WF_channelVars(ReleaseSpinlock(t))
                          /\ SF_channelVars(InCall(t))
                          /\ SF_channelVars(LeaveFiber(t))

-----------------------------------------------------------------------------
(* Type invariant of the channel and its items.                            *)
ChannelTypeOK ==
    /\ ritem_list \in Seq(Fibers)
    /\ witem_list \in Seq(Fibers)
    /\ closed \in BOOLEAN
    /\ locked \in BOOLEAN
    /\ alive \in BOOLEAN
    /\ calls \in [Fibers -> Away \cup {"none", "send", "sendmeet", "close",
                     "receivemeet", "closing", "destroying"}]
    /\ state \in [Fibers -> {"init", "success", "closed", "destroyed"}]
    /\ data \in [Fibers -> Fibers \cup {NULL}]
    /\ taken \in [Fibers -> Seq(Fibers)]

(* Senders and receivers never wait at once, also after closing; destroy,  *)
(* which takes one list or else the other, relies on it.                   *)
OneSided ==
    /\ ChannelTypeOK
    /\ ritem_list = <<>> \/ witem_list = <<>>

(* A closed channel has no receiver waiting, and a freed one nobody: no    *)
(* send or receive slips into a list after close or destroy took it.       *)
NobodyStranded ==
    /\ closed => ritem_list = <<>>
    /\ ~alive => witem_list = <<>>

(* No fiber is still about to unlock the spinlock of a freed channel.      *)
FreedUnused ==
    ~alive => \A t \in Threads : deferred[t] # "release" /\ pc[t] # "release"

(* A fiber whose item another call has unlinked and not yet answered stays *)
(* off its thread: the item lies on its stack, the message is copied to or *)
(* from there, and item_size is still read from the channel, which that    *)
(* fiber may destroy as soon as its own call returns.                      *)
PartnerAsleep ==
    \A f, g \in Fibers :
        f \in Range(taken[g]) =>
            /\ \A t \in Threads : running[t] # f
            /\ calls[f] \in {"sending", "receiving"}

(* The channel uses the scheduler as FiberScheduler allows: the partner    *)
(* that a call switches to, and the fibers that close and destroy wake,    *)
(* have left their stacks.                                                 *)
SchedulerSpec == Spec

(* The fiber that has unlinked the item of f and not yet set its state.    *)
Takers(f) == {g \in Fibers : f \in Range(taken[g])}

(* What a call gives the fibers whose items it has unlinked.               *)
Answer(c) ==
    IF c = "closing" THEN "closed"
    ELSE IF c = "destroying" THEN "destroyed" ELSE "success"

(* How the last call of each fiber ends, known from the critical section   *)
(* onwards in which it is decided; what the call returns is state[f].      *)
outcome == [f \in Fibers |->
    IF calls[f] \in {"sendmeet", "receivemeet"} THEN "success"
    ELSE IF f \in Range(ritem_list) \cup Range(witem_list) THEN "waiting"
    ELSE IF calls[f] \in {"sending", "receiving"} /\ Takers(f) # {}
    THEN Answer(calls[CHOOSE g \in Takers(f) : TRUE])
    ELSE state[f]]

got == [f \in Fibers |->
    IF calls[f] = "receivemeet" THEN Head(taken[f])
    ELSE IF calls[f] = "receiving" /\ \E g \in Takers(f) : calls[g] = "sendmeet"
    THEN CHOOSE g \in Takers(f) : calls[g] = "sendmeet"
    ELSE data[f]]

Meeting == INSTANCE Rendezvous
             WITH senders <- witem_list,
                  receivers <- ritem_list

(* The channel implements Rendezvous: although the message is copied and   *)
(* the states are set outside the lock, every send returns success iff     *)
(* exactly one receive returned its message, in FIFO order, and calls that *)
(* close or destroy ends return that.                                      *)
RendezvousSpec == Meeting!Spec

(* Every call that has met a partner, or was ended by close or destroy,    *)
(* returns.                                                                *)
DecidedReturns ==
    \A f \in Fibers :
        calls[f] \notin {"none", "send"} /\ outcome[f] # "waiting"
            ~> calls[f] = "none"
=============================================================================
