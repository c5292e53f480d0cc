---------------------------- MODULE StackFrames ----------------------------
(***************************************************************************)
(* The stacks of fjx-fiber, word by word: what fiber_add_deferred and      *)
(* fiber_spawn_stack_top write for the assembler to pop, where the structs *)
(* lie that the lists link, and how the block of a stack is found from an  *)
(* address in it.  The assembler is src/gas-amd64-sysv.s; a word is eight  *)
(* bytes.  Idle threads, which sleep, and everything that blocks a fiber   *)
(* are left to FiberScheduler: here a thread without a fiber to run tries  *)
(* again, and fibers only spawn, yield and exit.                           *)
(*                                                                         *)
(* Stacks 0..NBlocks-1 are blocks of fiber_memory; the others are those    *)
(* that the operating system gave to the threads.  C code may use every    *)
(* word below its stack pointer: each step of C code overwrites them all   *)
(* (Scribble), so whatever is still needed has to lie above it.            *)
(***************************************************************************)
EXTENDS Naturals, Sequences, Functions

CONSTANTS
    NBlocks,        \* how many blocks may be mapped; a bound
    NWorkers        \* how many threads work_thread_spawn starts

ASSUME SomeBlocks == NBlocks \in Nat \ {0} /\ NWorkers \in Nat

Blocks == 0..(NBlocks - 1)
Threads == 0..NWorkers                  \* 0 is the main thread
OwnStack(t) == NBlocks + t              \* the stack the thread started with

(* Sizes in words, all even, as stacks and frames are aligned to 16 bytes. *)
Header == 2                             \* struct fjx_fiber_memory
Size == 30                              \* the deepest frame and a deferred call

(* Addresses; the last ones are the thread_fiber structs of the threads.   *)
Cell(t) == Size * (NBlocks + NWorkers + 1) + t
Addr == 0..Cell(NWorkers)
StackOf(a) == a \div Size
Top(s) == Size * (s + 1) - Header       \* mem->stack_top of a block

VARIABLES
    mem,            \* address -> the word there
    sp, regs,       \* thread -> its stack pointer and its other registers
    pc,             \* thread -> what it executes next
    node,           \* thread -> the struct it took out of a list
    fiber_list, disposed_fiber_list,    \* addresses of linked structs
    fiber_pool      \* the blocks in the AVL tree

lists == <<fiber_list, disposed_fiber_list>>
vars == <<mem, sp, regs, pc, node, lists, fiber_pool>>

-----------------------------------------------------------------------------
(* A word is a pair of what it is and which one: code, an address, a value *)
(* of a register or of a variable, or anything.                            *)
Junk == <<"junk", 0>>
Code(label) == <<"code", label>>
Ptr(a) == <<"pointer", a>>
Linked == <<"link", 0>>

(* m with the words ws written at a and above.                             *)
Write(m, a, ws) ==
    [x \in Addr |-> IF x \in a..(a + Len(ws) - 1) THEN ws[x - a + 1] ELSE m[x]]

Scribble(m, a) ==
    [x \in Addr |-> IF StackOf(x) = StackOf(a) /\ x < a THEN Junk ELSE m[x]]

(* The registers in the order in which fiber_switch_impl pushes them, and  *)
(* the words it leaves on the stack, from the lowest.                      *)
Pushed == <<"rbp", "rax", "rbx", "r12", "r13", "r14", "r15">>

(* A faulty variant of what follows, as are those with the same comment    *)
(* below: the registers are popped in the order in which they were pushed. *)
PoppedAsPushed == Pushed

Popped == <<"r15", "r14", "r13", "r12", "rbx", "rax", "rbp">>

SavedWords(r) ==
    <<Code("resume")>> \o [i \in 1..7 |-> r[Pushed[8 - i]]]

(* The values that the code running on stack s keeps in the registers, and *)
(* in its innermost frame.                                                 *)
Own(s) == [r \in Range(Pushed) |-> <<r, s>>]
Local(s) == <<"local", s>>

(* fiber_add_deferred: the frame below the stack pointer a for             *)
(* fiber_load_unaryop to pop.                                              *)
AddDeferred(m, a, cleanup, pair) ==
    Write(m, a - 4, <<Code("unaryop"), Code(cleanup), Ptr(pair), <<"null", 0>>>>)

(* fiber_spawn_stack_top: the first frame of block b.                      *)
SpawnFrame(m, b, entrance) ==
    Write(m, Top(b) - 5, <<Code("entrance"), Code(entrance), Local(b),
                           Code("exit"), <<"sched", 0>>>>)

(* Faulty variant: the struct starts where the frame does.                 *)
FirstStructOverlaps(b) == Top(b) - 6

(* The struct fjx_fiber of a fiber that has not run: sizeof(m) below the   *)
(* first frame, aligned.  Its members are stack_top and the two links.     *)
FirstStruct(b) == Top(b) - 10

(* insert_memory, for a fresh block: fiber_memory_create has filled in the *)
(* header.                                                                 *)
MapBlock(m, b) == Write(m, Top(b), <<<<"block", b>>, <<"block", b>>>>)

Init ==
    /\ mem = LET m == [x \in Addr |-> Junk]
                 main == Write(m, Top(OwnStack(0)), <<Local(OwnStack(0))>>)
             IN  Write(SpawnFrame(MapBlock(main, 0), 0, "loop"),
                       Cell(0), <<Ptr(Top(0) - 5)>>)
    /\ sp = [t \in Threads |-> Top(OwnStack(t))]
    /\ regs = [t \in Threads |-> Own(OwnStack(t))]
    /\ pc = [t \in Threads |-> IF t = 0 THEN "user" ELSE "loop"]
    /\ node = [t \in Threads |-> Cell(t)]
    /\ fiber_list = <<>>
    /\ disposed_fiber_list = <<>>
    /\ fiber_pool = {0}

-----------------------------------------------------------------------------
GoTo(t, label) == pc' = [pc EXCEPT ![t] = label]

(* The ret instruction: m[a] is the word at the stack pointer.             *)
Ret(t, m, a) ==
    /\ sp' = [sp EXCEPT ![t] = a + 1]
    /\ GoTo(t, IF m[a][1] = "code" THEN m[a][2] ELSE "lost")

(* fiber_switch on the struct at f, called with the stack pointer a: the   *)
(* return address and the registers are pushed, the stack pointers swapped *)
(* and the first word of the other stack is popped.                        *)
Switch(t, m, f, a, return) ==
    LET in == m[f][2]
        saved == a - 9
        pushed == Write(m, saved, SavedWords(regs[t]) \o <<Code(return)>>)
    IN  /\ mem' = Write(pushed, f, <<Ptr(saved)>>)
        /\ Ret(t, mem', in)

(* fjx_list_add_tail under the lock of the list.                           *)
Enlist(m, f) == Write(m, f + 1, <<Linked, Linked>>)

(* get_available_fiber: the struct to copy the stack pointer from.         *)
GetAvailableFiber(t) ==
    \/ /\ fiber_list = <<>>
       /\ node' = [node EXCEPT ![t] = Cell(t)]
       /\ UNCHANGED lists
    \/ /\ fiber_list # <<>>
       /\ node' = [node EXCEPT ![t] = Head(fiber_list)]
       /\ fiber_list' = Tail(fiber_list)
       /\ UNCHANGED disposed_fiber_list

(* A C function is called from above the stack pointer a: it pushes the    *)
(* return address and makes room for a struct fjx_fiber and a pair.        *)
EnterWithStruct(t, a, return) ==
    /\ sp' = [sp EXCEPT ![t] = a - 6]
    /\ mem' = Scribble(Write(mem, a - 1, <<Code(return)>>), a - 6)

(* fiber_yield_impl, when a fiber is queued, ...                           *)
Yield(t) ==
    /\ pc[t] = "user"
    /\ fiber_list # <<>>
    /\ GetAvailableFiber(t)
    /\ EnterWithStruct(t, sp[t], "user")
    /\ GoTo(t, "enqueue")
    /\ UNCHANGED <<regs, fiber_pool>>

(* ... and fiber_exit, which fiber_load_entrance calls with the words of   *)
(* the first frame when the entry function has returned.                   *)
EntryReturn(t) ==
    /\ pc[t] = "user"
    /\ StackOf(sp[t]) \in Blocks
    /\ Ret(t, mem, sp[t] + 1)
    /\ UNCHANGED <<mem, regs, node, lists, fiber_pool>>

Exit(t) ==
    /\ pc[t] = "entered"
    /\ mem[sp[t] + 2] = Code("exit")
    /\ GetAvailableFiber(t)
    /\ EnterWithStruct(t, sp[t], "exited")
    /\ GoTo(t, "recycle")
    /\ UNCHANGED <<regs, fiber_pool>>

(* Both go on like this: the stack pointer is copied out of the struct     *)
(* that was taken, the deferred call put on that stack, and left.          *)
LeaveDeferring(t) ==
    LET f == sp[t]
        in == mem[node[t]][2]
        m == Write(mem, f, <<Ptr(in - 4), Junk, Junk, <<"sched", 0>>, Ptr(f)>>)
    IN  /\ pc[t] \in {"enqueue", "recycle"}
        /\ Switch(t, AddDeferred(m, in, pc[t], f + 3), f, f, "yielded")
        /\ UNCHANGED <<regs, node, lists, fiber_pool>>

(* work_thread_loop takes a fiber ...                                      *)
LoopTake(t) ==
    /\ pc[t] = "loop"
    /\ fiber_list # <<>>
    /\ GetAvailableFiber(t)
    /\ mem' = Scribble(mem, sp[t])
    /\ GoTo(t, "dispatch")
    /\ UNCHANGED <<sp, regs, fiber_pool>>

(* ... and switches to it with its own struct.                             *)
Dispatch(t) ==
    /\ pc[t] = "dispatch"
    /\ Switch(t, Write(mem, Cell(t), <<mem[node[t]]>>), Cell(t), sp[t], "loop")
    /\ UNCHANGED <<regs, node, lists, fiber_pool>>

-----------------------------------------------------------------------------
(* fiber_load_unaryop: call the function of the frame with its data, which *)
(* links the struct into one of the lists, ...                             *)
LoadUnaryop(t) ==
    LET f == mem[mem[sp[t] + 1][2] + 1][2]
    IN  /\ pc[t] = "unaryop"
        /\ mem' = Scribble(Enlist(mem, f), sp[t])
        /\ \/ /\ mem[sp[t]] = Code("enqueue")
              /\ fiber_list' = Append(fiber_list, f)
              /\ UNCHANGED disposed_fiber_list
           \/ /\ mem[sp[t]] = Code("recycle")
              /\ disposed_fiber_list' = Append(disposed_fiber_list, f)
              /\ UNCHANGED fiber_list
        /\ GoTo(t, "unaryopreturn")
        /\ UNCHANGED <<sp, regs, node, fiber_pool>>

(* ... and drop the frame.                                                 *)
UnaryopReturn(t) ==
    /\ pc[t] = "unaryopreturn"
    /\ Ret(t, mem, sp[t] + 3)
    /\ UNCHANGED <<mem, regs, node, lists, fiber_pool>>

(* The second half of fiber_switch_impl, and the return from the C         *)
(* functions that had called it.                                           *)
SwitchReturn(t) ==
    LET back == sp[t] + 7
        f == back + 1
    IN  /\ pc[t] = "resume"
        /\ regs' = [regs EXCEPT ![t] =
                       [r \in Range(Popped) |->
                           mem[sp[t] + (CHOOSE i \in 1..7 : Popped[i] = r) - 1]]]
        /\ \/ /\ mem[back] = Code("yielded")
              /\ Ret(t, mem, f + 5)
           \/ /\ mem[back] # Code("yielded")
              /\ Ret(t, mem, back)
        /\ UNCHANGED <<mem, node, lists, fiber_pool>>

(* fiber_load_entrance calls the entry function, which sets registers and  *)
(* variables of its own.                                                   *)
LoadEntrance(t) ==
    LET s == StackOf(sp[t])
    IN  /\ pc[t] = "entrance"
        /\ sp' = [sp EXCEPT ![t] = @ - 2]
        /\ mem' = Scribble(Write(mem, sp[t] - 2, <<mem[sp[t] + 1], Code("entered")>>),
                           sp[t] - 2)
        /\ regs' = [regs EXCEPT ![t] = Own(s)]
        /\ GoTo(t, mem[sp[t]][2])
        /\ UNCHANGED <<node, lists, fiber_pool>>

-----------------------------------------------------------------------------
(* query_memory: any block in S may be the root of a search tree of them,  *)
(* so this is the set of what the search may end with.                     *)
InRange(b, a) == Size * b <= a /\ a < Top(b)
NotFound == NBlocks

(* Faulty variant: left and right are exchanged.                           *)
QueryMirrored(pool, a) ==
    LET Find[S \in SUBSET pool] ==
            IF S = {} THEN {NotFound}
            ELSE UNION {IF InRange(b, a) THEN {b}
                        ELSE Find[IF Size * b < a THEN {c \in S : c < b}
                                  ELSE {c \in S : c > b}] : b \in S}
    IN  Find[pool]

Query(pool, a) ==
    LET Find[S \in SUBSET pool] ==
            IF S = {} THEN {NotFound}
            ELSE UNION {IF InRange(b, a) THEN {b}
                        ELSE Find[IF Size * b < a THEN {c \in S : c > b}
                                  ELSE {c \in S : c < b}] : b \in S}
    IN  Find[pool]

(* fiber_spawn_impl on block b: the first frame and the struct are written *)
(* and the struct is queued.                                               *)
Queue(t, m, b) ==
    LET f == FirstStruct(b)
        spawned == Write(SpawnFrame(m, b, "user"), f, <<Ptr(Top(b) - 5)>>)
    IN  /\ mem' = Scribble(Enlist(spawned, f), sp[t])
        /\ fiber_list' = Append(fiber_list, f)

(* get_available_memory: an exited fiber's struct is taken ...             *)
SpawnTake(t) ==
    /\ pc[t] = "user"
    /\ disposed_fiber_list # <<>>
    /\ node' = [node EXCEPT ![t] = Head(disposed_fiber_list)]
    /\ disposed_fiber_list' = Tail(disposed_fiber_list)
    /\ mem' = Scribble(mem, sp[t])
    /\ GoTo(t, "spawn")
    /\ UNCHANGED <<sp, regs, fiber_list, fiber_pool>>

(* ... and its block is found and used again, ...                          *)
SpawnReuse(t) ==
    /\ pc[t] = "spawn"
    /\ \E b \in Query(fiber_pool, mem[node[t]][2]) : Queue(t, mem, b)
    /\ GoTo(t, "user")
    /\ UNCHANGED <<sp, regs, node, disposed_fiber_list, fiber_pool>>

(* ... or a new block is mapped, which nobody knows before it is queued.   *)
SpawnNew(t) ==
    /\ pc[t] = "user"
    /\ disposed_fiber_list = <<>>
    /\ \E b \in Blocks \ fiber_pool :
          /\ fiber_pool' = fiber_pool \cup {b}
          /\ Queue(t, MapBlock(mem, b), b)
    /\ UNCHANGED <<sp, regs, pc, node, disposed_fiber_list>>

Next ==
    \E t \in Threads :
        \/ Yield(t) \/ EntryReturn(t) \/ Exit(t) \/ LeaveDeferring(t)
        \/ LoopTake(t) \/ Dispatch(t)
        \/ LoadUnaryop(t) \/ UnaryopReturn(t) \/ SwitchReturn(t)
        \/ LoadEntrance(t)
        \/ SpawnTake(t) \/ SpawnReuse(t) \/ SpawnNew(t)

Spec == Init /\ [][Next]_vars

-----------------------------------------------------------------------------
(* Whenever C code of a fiber or of a loop runs, the registers hold what   *)
(* it left there and its innermost frame is as it was, whatever ran in     *)
(* between: switches, deferred calls on its stack, other fibers.  Nothing  *)
(* but an address of code is ever jumped to, an exited fiber is never      *)
(* resumed, and every call is made with the stack pointer aligned to 16    *)
(* bytes.                                                                  *)
FramesKept ==
    \A t \in Threads :
        /\ pc[t] \notin {"lost", "exited"}
        /\ pc[t] \in {"user", "loop"} => regs[t] = Own(StackOf(sp[t]))
        /\ pc[t] = "user" => mem[sp[t]] = Local(StackOf(sp[t]))
        /\ pc[t] = "unaryop" => mem[sp[t]] \in {Code("enqueue"), Code("recycle")}
        /\ pc[t] = "entered" => mem[sp[t] + 2] = Code("exit")
        /\ pc[t] \in {"user", "loop", "unaryop", "entrance", "entered"} =>
              sp[t] % 2 = 0

(* A linked struct lies on a stack that others write to: until somebody    *)
(* takes it out of the list, its links and the stack pointer in it stand.  *)
StructsIntact ==
    \A f \in Range(fiber_list) \cup Range(disposed_fiber_list) :
        /\ mem[f + 1] = Linked /\ mem[f + 2] = Linked
        /\ mem[f][1] = "pointer"
        /\ StackOf(mem[f][2]) = StackOf(f)
        /\ mem[mem[f][2]] \in {Code("resume"), Code("entrance")}

(* The block found for an exited fiber is the one its struct lies in, and  *)
(* its header is intact, whatever the shape of the tree.                   *)
BlockFound ==
    /\ \A b \in fiber_pool : mem[Top(b)] = <<"block", b>>
    /\ \A t \in Threads :
          pc[t] = "spawn" =>
              Query(fiber_pool, mem[node[t]][2]) = {StackOf(node[t])}
=============================================================================
