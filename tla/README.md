# A verification model of fjx-fiber

fjx-fiber is a C library of stackful coroutines ("fibers") that an M:N scheduler
runs on several operating-system threads. The modules in this directory model its
scheduler and what is built on it, TLC checks them on small instances, and TLAPS
proves the safety of all of them for any number of threads and fibers.
File names below are those of `src/src/`.

## The system

| component | code | state | operations | interacts through |
|---|---|---|---|---|
| scheduler queues | `scheduler.c` | `fiber_list`, `idle_thread_list` (under `queue_lock`), `disposed_fiber_list` (under its own lock) | `enqueue_fiber`, `enqueue_fiber_list`, `get_available_fiber`, `recycle_fiber_pair`, `get_available_memory` | called by everything below |
| work threads | `work-thread.c` | per thread: `thread_fiber.stack_top`, the semaphore `s` | `work_thread_loop`, `current_work_thread` | queues; other threads write the struct of a sleeping thread and signal it |
| fibers | `fiber.c` | a `struct fjx_fiber` on the stack of each switched-out fiber | `fiber_spawn`, `fiber_yield`, exit, `fiber_switch`, `fiber_add_deferred` | queues, context switch |
| context switch | `gas-*.s` | the words on the stacks | `fiber_switch_impl`, `fiber_load_unaryop`, `fiber_load_entrance` | called by fibers and work threads |
| stack memory | `fiber-memory.c`, `scheduler.c:68-139` | AVL tree of blocks under a read-write lock | `query_memory`, `insert_memory`, `fiber_memory_create` | spawn, exit |
| mutex | `mutex.c` | `hold`, list of waiting fibers, a spinlock | create, lock, unlock, destroy | scheduler |
| semaphore | `semaphore.c` | `count`, `bound`, list, spinlock | create, wait, signal, destroy | scheduler |
| channel | `channel.c` | lists of waiting senders and receivers, `closed`, spinlock | create, send, receive, close, destroy | scheduler; switches directly to the partner |
| timer | `timer.c` | list and splay tree ordered by time, `min_time`, `max_time`, mutex and condition variable | `fiber_sleep`, `timer_add_fiber`, `timer_thread` | scheduler; a thread of its own that runs no fiber |
| thread primitives | `std-thread.c`, `pthread.c` | spinlock word, read-write lock, thread semaphore | lock, unlock, wait, signal | used by all |
| queue spinlocks | `mcs-lock.c`, `mcsh-lock.c`, `qspinlock.c` | queue of waiting threads | lock, unlock | not compiled into the library |

What is hard: a fiber may block on one thread and go on on another; a struct of a
fiber lives on that fiber's stack and is dead once it runs; whatever makes a fiber
findable by others must happen after its stack pointer has been saved, so it runs as
a *deferred call* on the stack that is switched to; spinlocks of mutexes, semaphores
and channels are locked on one stack and unlocked on another; idle threads and
runnable fibers are two lists that may never both be non-empty; the timer thread and
fibers that close or destroy something distribute whole lists of fibers to idle
threads outside the lock. What makes each component correct:

* scheduler: no fiber is lost, run by two threads or resumed with a stack pointer of
  before; no thread sleeps while a fiber waits; every runnable fiber runs;
* mutex: mutual exclusion, FIFO order, every lock returns, nothing touches it after
  it is freed;
* semaphore: no permit is lost or invented except signals at the bound, a waiting
  fiber implies that the count is zero;
* channel: a value is received once or its send reports failure, senders and
  receivers never wait at once, close and destroy leave no receiver behind;
* timer: nobody wakes early, everybody due is woken, list and tree agree;
* stack memory: the block found for a stack pointer is the one it points into;
* context switch: a fiber finds its registers and its frames as it left them, whatever was
  written on its stack in between; a struct that is linked in a list stands;
* locks: mutual exclusion, no lost wake-up of a waiting thread; the queue locks serve in
  the order of arrival and touch no queue node of a call that has returned.

## Modules

`FiberScheduler` models `scheduler.c`, `work-thread.c` and `fiber.c`. A *context* is a
stack: a fiber's, or the one on which a work thread runs `work_thread_loop`. Each
context has one struct, with the same name. The state:

| variable | code |
|---|---|
| `fiber_list`, `idle_thread_list`, `disposed_fiber_list` | the lists of `fjx_fiber_scheduler` |
| `fiber_pool` | the blocks in the AVL tree |
| `stack_top[c]` | `stack_top` of the struct of `c`: the context it would resume, `NULL` when it was never written or died with the function that declared it |
| `running[t]` | whose stack thread `t` executes on |
| `sem[t]` | `count` of the thread's semaphore |
| `pc[a]` | the next step of a work thread or of the timer thread: `user` (a fiber's own code), `loop`, `wait`, `switch`, the deferred calls `enqueue`, `recycle`, `release`, what follows them (`handover`, `signal`), the steps of `enqueue_fiber_list` (`list`, `deal`, `dealsignal`), `timer` |
| `it[a]`, `th[a]`, `flist[a]`, `tlist[a]` | local variables: the fiber taken out of a list, the idle thread taken, the two lists of `enqueue_fiber_list` |
| `deferred[t]` | what `fiber_add_deferred` pushed on the stack that is switched to |
| `parked` | the fibers asleep in the wait list of a mutex, semaphore, channel or the timer |

One critical section of a function is one step, because `queue_lock` and
`disposed_fiber_lock` are never held across a switch or another lock; what a thread
does with the pointers it took out of it is a step of its own, so others run in
between. `fiber_switch` with the deferred call that follows is `FiberSwitch`, which
goes on at the deferred call, and then where the resumed context stopped. The calls
through which mutexes, semaphores, channels and the timer use the scheduler are the
actions `Park`, `Sleep`, `Release`, `WakeOne`, `WakeList` and `Handoff`; in
`FiberScheduler` alone they take any parked fibers, so the run covers every
primitive's use.

`FiberLifecycle` is what the scheduler promises: each fiber is free, runnable,
running or blocked, at most as many run as there are threads, and only certain steps
change that. `FiberScheduler!Status` maps to it, and `LifecycleSpec` is checked.

`FiberMutex` extends `FiberScheduler` with the state of one mutex. Each of its actions
is an action of the scheduler with the mutex's variables added; that they stay within
what the scheduler allows (only fibers that have left their stack are woken) is the
property `SchedulerSpec`, not an assumption. The spinlock is the variable `locked`,
since it stays locked from `Lock` to the deferred unlock (`ReleaseSpinlock`) on another
stack. `calls` is the clients' position. `FifoLock` is the abstract mutex: a queue whose
head owns the lock.

`FiberSemaphore` has the same shape, for any initial count and bound.
`CountingSemaphore` is what it promises: Dijkstra's counter, which is negative while
fibers wait; the refinement mapping is `count - Len(waiters)`.

`FiberChannel` cuts each function of `channel.c` where it tests `closed` without the
lock and after each critical section, since the copy of the message and the states of
the items come after the unlock. `calls[f]` is the label at which `f` stands, `taken[f]`
the items it has unlinked and not yet answered, `state[f]` the state of its item or its
result, `data[f]` whose message its buffer holds (a message is named after the fiber
that sends it). `Rendezvous` is the abstract channel, in which a send and a receive
succeed in one step, the critical section in which the partner is found; `outcome` and
`got` give the result each call is going to return from then on.

`FiberTimer` has a clock, the list and the tree of the sleeping fibers and the place of
the timer thread in its loop (`timer_pc`). The splay tree is its sequence of nodes from
left to right: splaying keeps it, and a search ends between the same two nodes whatever
the shape (`Gaps`). List and tree are updated independently of each other, as in the
code, so that they agree is a property (`TreeIsList`). Times are pairs of seconds and
nanoseconds with a small `GIGA_CONSTANT`, so the comparison and the carry are the code's.
`AlarmClock` is what the timer promises: whenever it looks, it wakes exactly those who
are due.

`ReadWriteLock` and `ThreadSemaphore` stand alone: `fjx_rwlock`, which guards the tree of
stacks, and `fjx_thread_semaphore`, on which an idle work thread sleeps. Each models the
mutex and the condition variable they are made of: a section under the mutex is one step,
a sleeper is woken by a broadcast, a signal or spuriously and takes the mutex again in a
step of its own. `FiberScheduler` has the semaphore as a counter and the tree as a set.

`StackFrames` is the level below `FiberScheduler`: memory is a function from word
addresses to words, and a thread has a stack pointer, registers and a program counter.
`fiber_switch_impl`, `fiber_load_unaryop` and `fiber_load_entrance` of `gas-amd64-sysv.s`
push, pop and jump to what is in memory; `fiber_add_deferred` (`AddDeferred`),
`fiber_spawn_stack_top` (`SpawnFrame`) and `fiber_spawn_impl` (`FirstStruct`) write words for
them. C code may use everything below its stack pointer, so each of its steps overwrites
all of that (`Scribble`); calls of C functions push a return address and make room for their
locals, a `struct fjx_fiber` and a pair. `query_memory` descends a search tree; as the tree
is balanced in ways that depend on its history, `Query` is the set of blocks that any tree
over the same blocks could lead to. Only what concerns stacks is kept: fibers spawn, yield
and exit, a thread that finds nothing to run tries again, and one critical section with the
code that follows it up to the next use of shared memory is a step. The words are tagged
with what they are (code, pointer, register, link), so a word that is read as something it
is not shows. `mem` therefore also gives what `FiberScheduler` assumes: that a
struct, wherever it lies, keeps its stack pointer while it is linked.

`QueueLocks` models `qspinlock.c` over `mcs-lock.c` and `mcsh-lock.c` with each access to
shared memory a step. Both begin by swapping a node into the tail of a queue; `kind`, chosen
in `Init`, says which one runs. `next` and `granted` are the members of the nodes, `word` the
flag or the `msg` of the lock, and `line` the history of arrivals.

The modules `MC...` add the symmetry sets for TLC. The definitions called
faulty variants in the other modules are mistakes that the checks are shown to notice; nothing
else uses them.

## Runs

| run | instance | what it shows |
|---|---|---|
| `scheduler_safety` | 3 work threads, the timer thread, main and 3 blocks | `TypeOK`; `WorkConserving`: no thread is idle while a fiber is queued; `OneOwner`: each fiber is in one place; `SavedBeforePublished`: whoever can be resumed has saved its stack; `SleeperAccounted`: each sleeping thread is known to one party or signalled once |
| `scheduler_lifecycle` | 2 work threads, the timer thread, main and 2 blocks, fairness | `LifecycleSpec` (refinement) and `RunnableRuns` (liveness) |
| `mutex` | 2 work threads, main and 2 blocks, fairness | `HoldIsOwned`: mutual exclusion, also during the hand-over; `FreedUnused`; `SchedulerSpec`; `FifoSpec`; `LockReturns` |
| `semaphore` | 2 work threads, main and 2 blocks, count 2 above the bound 1, fairness | `WaitersNeedPermits`: who waits has no permit to take, which destroy relies on; `SchedulerSpec`; `CountingSpec`: no permit is lost or invented; `GrantedReturns` |
| `channel_safety` | 2 work threads, main and 2 blocks | `OneSided`: senders and receivers never wait at once; `NobodyStranded`: nobody joins a list that close or destroy has emptied; `FreedUnused`; `PartnerAsleep`: an item that was unlinked lies on the stack of a fiber that does not run; `SchedulerSpec`; `RendezvousSpec` |
| `channel_liveness` | 2 work threads, main and 1 block, fairness | `DecidedReturns` |
| `timer_safety` | 2 work threads, the timer thread, main and 2 blocks, 2 nanoseconds to the second, 2 seconds | `TimerTypeOK`: times are normalised; `TreeIsList`; `TimerArmed`: the timer thread never waits past the earliest time; `SchedulerSpec`; `AlarmSpec` |
| `timer_liveness` | 2 work threads, the timer thread, main and 1 block, same clock, fairness | `SleepReturns`, without relying on spurious wake-ups |
| `rwlock` | 4 threads, fairness | `Exclusive`; `Counted`: the counters stay right through sleeps and repeated attempts; `SleepersExpected`: no wake-up is lost; `WriterWrites`: readers that keep coming do not starve a writer |
| `thread_semaphore` | 4 threads, count up to 3 | `UnitsClaimed`: no signal is lost |
| `queue_locks` | 3 threads, both locks, fairness | `FirstInLineOnly`: mutual exclusion in the order of arrival; `NodesLive`: no write to a node whose call has returned; `EveryoneEnters` |
| `stack_frames` | 2 threads, 4 blocks | `FramesKept`: registers, frames and alignment; `StructsIntact`: linked structs stand; `BlockFound`: the block of a dead stack is found |

The type invariants of `FiberMutex`, `FiberSemaphore` and `FiberChannel` are the first
conjuncts of `HoldIsOwned`, `WaitersNeedPermits` and `OneSided`; those of the two thread
primitives are proved.

Bounds. The number of threads and of blocks; the initial count and the bound of the
semaphore, which are parameters of the code; the count of the thread semaphore
(`MaxCount`; the scheduler never raises it above one); and in the timer the end of the
clock (`LastSecond`): no sleep is begun that would end after it. In `StackFrames`, the
number of blocks (`NBlocks`), which also bounds how many stacks the tree holds, and the
size of a stack (`Size`), the smallest that holds the deepest frame together with a
deferred call; a larger stack has unused words. Nothing else is capped. Three work threads
are the fewest with which two idle threads can be dealt fibers while a third queues
others; four fibers give such a list two fibers and leave two for the threads. Four
blocks, one of them the main loop's, give search trees of every shape up to depth four and
three fibers that spawn, exit and are reused on two threads. Three threads are the fewest
for a thread that arrives while another leaves and a third holds a queue lock. Each
primitive's own steps interleave on two threads already. A channel with three fibers has a
waiting list of two and a partner for it. Three sleeping fibers are the fewest for an
insertion between two others, and three times after the first instant let all three
differ, or tie in any way; the carry from nanoseconds to seconds occurs at the second of
them. TLC explores all states of each instance.

The runs of the semaphore and the channel turn deadlock checking off: all fibers may wait
for a signal or a partner that no fiber is left to give, which is the clients' affair; so
does `stack_frames`, where a thread without a fiber to run and without a free block has
nothing to do, since sleeping is not modelled there.

`SchedulerSpec` in each of these runs says that the component behaves as the clients of
`FiberScheduler` may: so what `scheduler_safety` shows of the scheduler (on its instance)
and what is proved of it holds under each component.

Fairness. Weak fairness of every library step of a thread: the operating system runs
all threads, and no library step waits for a lock that another step keeps, except the
spinlock of the mutex, for which see below. Strong fairness of `GiveUpThread`: a fiber
that executes reaches, again and again, a call that may take it off its thread. That
is an obligation of the clients of any cooperative scheduler, and `fiber_yield` alone
does not meet it: with an empty run queue it only calls the operating system's yield.
In `FiberMutex` also: a fiber that holds the mutex unlocks it, and a thread that spins
on `m->lock`, an exchange loop without a queue, gets it if it is free infinitely often.
That last point the code does not guarantee in theory (the spinlock is unfair); it is
the usual assumption about such a lock.

The same holds for the spinlocks of the semaphore and the channel. In `FiberChannel`, a
fiber in the middle of a call goes on. In `FiberTimer`, the clock goes on to its end and
the timer thread runs; a wait on the condition variable ends when it is signalled or its
time is reached, and `SpuriousWakeup` gets no fairness. In `QueueLocks`, a thread inside lock
or unlock goes on, and whoever has the lock unlocks it; nothing is assumed of one outside. In `ReadWriteLock`,
readers and writers unlock, and a woken writer that finds the lock free again and again
gets it; the code does not keep other writers from overtaking it each time.

Clients in `FiberMutex` keep the rules any mutex has: only the holder unlocks, nobody
locks it twice or exits with it, nobody uses it after `fiber_mutex_destroy`. Nobody uses a
semaphore or a channel after it is destroyed, and a channel is destroyed only while no
other fiber executes one of its functions (fibers that wait in them are what destroy is
for): `channel.c` reads `item_size` and `closed` outside the lock.

## Proofs

Each module `...Proofs` extends the module it is about (`StdThreadProofs`: the two models of
`std-thread.c`). The constants are arbitrary: any
work threads and blocks, any initial count and bound of a semaphore. The assumptions are
`ConstantsDistinct` (threads, fibers and `NULL` are different things), `WorkersFinite` (the
scheduler starts finitely many threads; only `LifecycleSpec` needs it) and their counterparts
in the modules that stand alone: `LockDistinct`, that the threads of the read-write lock and
the thread semaphore are finitely many, that a semaphore's counts are natural numbers, that
a second has at least one nanosecond (`ClockBounds`), and that there is the main loop's block
(`SomeBlocks`).

### The scheduler

`FiberSchedulerProofs`:

* `TypeCorrect`: `Spec => []TypeOK`. `TypeOK` is not inductive, since what
  `enqueue_fiber` appends and what `fiber_switch` loads come from local variables;
  `Registers` says what those hold at each label (a deferred call is only pending while
  a fiber is running, `it` is a fiber at `enqueue`, `handover`, `recycle` and `release`,
  `th` a thread until it has been signalled), and `TypeInv`, both together, is inductive:
  `LibraryTypeInv`, `ListTypeInv`, `ClientTypeInv` and `WakeListTypeInv` show it for each
  action.
* `NoLostWakeup`: `Spec => []WorkConserving`. It is inductive by itself: whoever extends
  one of the two lists has tested the other under the same lock, and whoever finds
  something in one list knows that the other was empty.

* `EachFiberOwnedOnce`, `PublishedIsSaved` and `NoSleeperForgotten`
  (`Spec => []OneOwner`, `[]SavedBeforePublished`, `[]SleeperAccounted`). None of the three
  is inductive, and none can be proved without the others: a fiber is in one place only as
  long as a handed-over struct belongs to a thread that sleeps, that thread is signalled once
  only as long as it is in one idle list, and the switch resumes the right stack only if the
  struct it loads had been saved. The invariant is `OwnInv`: besides `TypeInv`,

  * `Locals`: which local variables are in use at each label;
  * `LoopSaved`: the struct of a thread holds its loop while a fiber runs on it;
  * `FibersOwned`: each existing fiber *sits* at one pair of a kind of place and a holder
    (`Owned`), and its struct holds its own stack wherever it could be resumed (`Saved`);
  * `ThreadsKnown`: the same for a sleeping thread and the party that knows of it;
  * `CellsFilled`: a sleeping thread's struct holds a fiber exactly from the hand-over until
    the thread has switched to it.

  The lemmas `FiberStays`, `FiberArrives`, `ThreadStays`, `ThreadArrives` reduce a step to the
  one fiber and the one thread whose place it changes.
* `SchedulerIsLifecycle`: `Spec => LifecycleSpec`. By `OwnInv`, where a fiber sits decides its
  status (`StatusFound`), so a step that moves no fiber between places of different statuses
  is a stutter (`QuietSteps`), and so are the deferred calls that queue, recycle or
  release the fiber that has stopped (`DeferredStatus`). What is left is `SpawnCreates`,
  `WakeSteps` and `SwitchStep`, which stops one fiber and starts another. `LifeInv` adds to
  `OwnInv` that a fiber that queues itself leaves for another fiber, and that `main` does not
  exit (`Leaving`). A thread that runs its loop runs no fiber, so there is a thread to spare
  for a fiber it dispatches (`ThreadToSpare`).

### Mutex, semaphore and channel

In each of `FiberMutexProofs`, `FiberSemaphoreProofs` and `FiberChannelProofs` the inductive
invariant contains `OwnInv`, so the proof about a component starts with that
each of its steps is one of the scheduler. What makes it one is that a
fiber in the wait list has left its stack, which is due to the spinlock: whoever is
between its enrolment and the deferred unlock keeps the lock, so nobody can reach the list
(`SpinlockKept`). With this, all that is proved of `Spec` holds under each component.

* Mutex: `MutualExclusion` (`HoldIsOwned`), `NoUnlockAfterFree` (`FreedUnused`),
  `MutexUsesScheduler` (`SchedulerSpec`) and `MutexIsFifo`: `MutexSpec => FifoSpec`.
  `MutexInv` adds that exactly the fibers whose call waits are in the list, once, and that the
  mutex is held by one owner or free with an empty list (`HeldByOne`).
* Semaphore: `NoneWaitsWithPermits` (`WaitersNeedPermits`), `SemaphoreUsesScheduler` and
  `SemaphoreCounts`: `SemaphoreSpec => CountingSpec`. `SemaphoreInv` has the same parts.
* Channel: `OneSideWaits`, `NoneLeftBehind` (`NobodyStranded`), `NoUnlockAfterFree`,
  `ItemsOutlastTheirUse` (`PartnerAsleep`), `ChannelUsesScheduler` and
  `ChannelIsRendezvous`: `ChannelSpec => RendezvousSpec`. A partner is not in a list any
  more and not yet runnable while its item is answered outside the lock, so `ChannelInv`
  follows it from the wait list into `taken` (`TakenWait`): at most one call has it, and at
  the label at which that call wakes it. The step of `Rendezvous` is the critical section; from then on
  `outcome` and `got` come from the call that has taken the item, and the later steps, which
  write `state` and `data`, change neither (`MeetResults`, `WakeResults`). That needs one more
  invariant, `Unanswered`: nothing has been copied to or for a fiber that is in a list.

### Timer

`FiberTimerProofs`, for any length of a second, any bound of the clock and any sleep times:
`TimesNormalised` (`TimerTypeOK`), `OrderKept` (`TreeIsList`), `NeverWaitsTooLong`
(`TimerArmed`), `TimerUsesScheduler` (`SchedulerSpec`) and `TimerIsAlarmClock`:
`TimerSpec => AlarmSpec`. `TimerInv` is `OwnInv` and

* `SleepList`: each parked fiber is in `time_list`, once. So a fiber that `timer_thread` cuts
  off has left its stack, and the scheduler may wake it; and as the fibers in the list do not
  run, their times in `tp` stay what they were at the insertion;
* `Awaiting`: the timer thread waits with a limit only while somebody sleeps;
* the three properties above.

`Ticks` turns a `timespec` into one number: `NanosecondLater`, `TimeAfterTyped` and
`TicksOrder` show that the carries of `timer.c` add and compare those numbers. With it,
`InsertPlace` and `InsertOrdered` show that each branch of `insert_time_node`, the shortcut at
either end and the gap in the tree, keeps the list sorted; `WakesDue`, that the part before
the cut is exactly who is due, although the cut is found in the tree and made in the list;
`AlarmStep`, that this is the only step in which an alarm rings.

### Stack frames

`StackFramesProofs`, for any number of threads and blocks: `KeepsFrames` (`FramesKept`),
`KeepsStructs` (`StructsIntact`) and `FindsBlock` (`BlockFound`). What a pop finds depends
on everything that was written since the push, by any thread, so the invariant `FrameInv`
says of every stack at once what lies on it:

* `ThreadOK`: for each place where a thread can be in the code, how far its stack pointer is
  from the top of the stack, which words lie above, and what the deferred call that is
  pending, or the struct that it has taken from a list, leads to (`Fresh`, `Yielded`,
  `Looping`, and for the struct of an exited fiber `Gone`);
* `CellOK`: while a thread runs a fiber, its own struct leads back to its loop;
* `ListsOK`: each struct in `fiber_list` leads to a frame to go on with, each one in
  `disposed_fiber_list` is one of an exited fiber, and both have their links;
* `Once`: each stack is in use at one place: a thread runs on it, has taken its struct, has it
  in its deferred call, or it is in one of the lists;
* `Headers`: the headers stand.

They need each other: a thread may scribble on the stack it runs on because by `Once` nobody
else reads there, and `Once` is kept because by `ListsOK` a struct leads to its own stack. So
the proof of a step says which stacks the thread uses, and `OthersKept` and `ListsKept`
do the rest: what is on a stack depends on the words of that stack (`SameWords`), and on those
above the stack pointer (`SameAbove`). The offsets themselves come in where frames are written
(`PushAt`, `StructAt`, `DeferredAt`, `SpawnFrameAt`) and where two of them might overlap: the
deferred call and the first frame, the first struct and the frame that `fiber_yield_impl`
pushes. `QueryFinds` says what `Query` returns. `Query` is a recursive function over the set of
blocks that are left to search; that only one function satisfies its equation is shown by
a smallest set on which another one would differ, for which the library's well-founded
ordering of finite sets is enough.

### Locks

`QueueLocksProofs`, for any threads: `ServedInOrder` (`FirstInLineOnly`) and
`NoWriteToDeadNode` (`NodesLive`). The queue is nowhere in memory as a whole:
a thread knows its predecessor, a node its successor once that has linked itself, the
lock its tail. `QueueInv` fits these pieces to the order of arrival: a thread that waits
came right after its predecessor, who has not passed the queue on (`Behind`); a link leads
to such a thread (`Linked`); only those who hold the lock and have left the queue are before
its head (`HeadOfQueue`); the tail is the last in line (`TailLast`).

`StdThreadProofs`, for any finite number of threads:

* `WriterAlone`, `CountersRight`, `NobodyForgotten`: the invariant is `LockInv`, all of the
  lock's safety properties at once, as each needs the others: a writer enters because the
  counters say that nobody is inside, the counters stay at or above zero because they count
  threads, and a reader goes to sleep because a writer is counted who is either awake or
  itself has somebody to wait for. `MoveCounts` says what a step does to the three counts.
* `NoLostSignal`: `UnitsClaimed`, inductive with the type of the count.

### Only model-checked

All liveness (`RunnableRuns`, `LockReturns`, `GrantedReturns`, `DecidedReturns`,
`SleepReturns`, `WriterWrites`, `EveryoneEnters`), which is out of the prover's reach. Every
invariant and every action or refinement property that a run checks is also proved.

## Plan

All components but those under "Not modelled" are modelled, and what the runs check of
safety is proved. What is left is to say more: the registers and frames of `StackFrames` as
what `FiberScheduler` assumes of `stack_top`, stated as a refinement.

## Not modelled

Memory ordering: all steps are sequentially consistent; the exchange spinlocks order the
accesses they protect. Failure of `calloc`, `mmap` and thread creation, which abort the
program. `thread_list`, which nothing reads. The assembler for i386 and for Windows: the
project's README names Linux on x86-64 as its platform, `fiber-memory.c` calls `munmap`
unconditionally, and the i386 file does not link (`.globl fiber_load_entrace`, line 36)
nor save `ebx`. `pthread.c`, which only renames the primitives of the operating system,
and the renaming half of `std-thread.c`; the exchange spinlock of `std-thread.c` is an
atomic section in the modules that use it. Stack overflow. Tests and demos, which are
clients. A clock that is set back while fibers sleep: the code uses `TIME_UTC`, and then
sleeps that much longer. `fiber_timer_destroy`, which nothing calls. The containers of
fjx-utils, which are not in the repository and are taken to be lists. Starting the
scheduler: `Init` is the state after `fiber_scheduler_init`, with every spawned thread at
the start of its loop; a thread that starts later is one that has not yet taken its first
step.
