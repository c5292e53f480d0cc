------------------------- MODULE StackFramesProofs --------------------------
(***************************************************************************)
(* Theorems about StackFrames, for any number of threads and blocks.  The  *)
(* offsets are those of the model: each fiber and each loop leaves its     *)
(* stack in one of a few layouts, and each stack is in use by one party.   *)
(***************************************************************************)
EXTENDS StackFrames, FiniteSetTheorems, WellFoundedInduction, TLAPS

Stacks == 0..(NBlocks + NWorkers)
Region(s) == {a \in Nat : Size * s <= a /\ a < Size * (s + 1)}

(* The stack that t runs its loop on, and those that fibers have.          *)
LoopStack(t) == IF t = 0 THEN 0 ELSE OwnStack(t)
FiberBlocks == fiber_pool \ {0}
FiberStacks == FiberBlocks \cup {OwnStack(0)}

(* The stack pointer of C code that calls nothing.                         *)
Base(s) == IF s \in Blocks THEN Top(s) - 6 ELSE Top(s)

-----------------------------------------------------------------------------
(* What may lie on stack s when x is the address of the first word to pop: *)
(* the first frame with label l, ...                                       *)
Fresh(m, s, x, l) ==
    /\ s \in Blocks
    /\ x = Top(s) - 5
    /\ m[x] = Code("entrance")
    /\ m[x + 1] = Code(l)
    /\ m[x + 2] = Local(s)
    /\ m[x + 3] = Code("exit")

(* ... or the frame of fiber_switch_impl, ...                              *)
Frame(m, s, x, return) ==
    /\ m[x] = Code("resume")
    /\ \A i \in 1..7 : m[x + i] = <<Popped[i], s>>
    /\ m[x + 8] = Code(return)

(* ... called by a loop ...                                                *)
Looping(m, s, x) ==
    /\ x = Base(s) - 9
    /\ Frame(m, s, x, "loop")

(* ... or by fiber_yield_impl, which a fiber has called.                   *)
Called(m, s) ==
    /\ m[Base(s)] = Local(s)
    /\ s \in Blocks => m[Top(s) - 5] = Code("entered") /\ m[Top(s) - 2] = Code("exit")

Yielded(m, s, x) ==
    /\ x = Base(s) - 15
    /\ Frame(m, s, x, "yielded")
    /\ m[x + 14] = Code("user")
    /\ Called(m, s)

LoopAt(m, s, x) == (s = 0 /\ Fresh(m, s, x, "loop")) \/ Looping(m, s, x)

FiberAt(m, s, x) == Fresh(m, s, x, "user") \/ Yielded(m, s, x)

(* The struct of a fiber that can be resumed, and of one that has exited.  *)
Saved(m, f) ==
    LET s == StackOf(f)
    IN  \/ f = FirstStruct(s) /\ m[f] = Ptr(f + 5) /\ Fresh(m, s, f + 5, "user")
        \/ f = Base(s) - 6 /\ m[f] = Ptr(f - 9) /\ Yielded(m, s, f - 9)

Gone(m, f) ==
    /\ f = FirstStruct(StackOf(f))
    /\ m[f] = Ptr(f - 9)
    /\ m[f - 9] = Code("resume")

Links(m, f) == m[f + 1] = Linked /\ m[f + 2] = Linked

(* The struct that a deferred call is about.                               *)
Data(t) == mem[mem[sp[t] + 1][2] + 1][2]

-----------------------------------------------------------------------------
(* Where a fiber's stack s can be in use: k is the kind of place and h the *)
(* thread or the struct.                                                   *)
Holds(k, h, s) ==
    \/ k = "run" /\ h \in Threads /\ StackOf(sp[h]) = s
    \/ /\ k = "node" /\ h \in Threads /\ StackOf(node[h]) = s
       /\ pc[h] \in {"enqueue", "recycle", "dispatch", "spawn"} /\ node[h] # Cell(h)
    \/ k = "deferred" /\ h \in Threads /\ pc[h] = "unaryop" /\ StackOf(Data(h)) = s
    \/ k = "list" /\ h \in Range(fiber_list) /\ StackOf(h) = s
    \/ k = "disposed" /\ h \in Range(disposed_fiber_list) /\ StackOf(h) = s

Kinds == {"run", "node", "deferred", "list", "disposed"}

(* The stacks that t alone may write to.                                   *)
Uses(t, s) ==
    s = LoopStack(t) \/ Holds("run", t, s) \/ Holds("node", t, s) \/ Holds("deferred", t, s)

Once ==
    /\ \A s \in FiberStacks, k1, k2 \in Kinds, h1, h2 \in Nat :
          Holds(k1, h1, s) /\ Holds(k2, h2, s) => k1 = k2 /\ h1 = h2
    /\ IsInjective(fiber_list)
    /\ IsInjective(disposed_fiber_list)

-----------------------------------------------------------------------------
Labels == {"user", "spawn", "enqueue", "entered", "recycle", "loop", "dispatch",
           "unaryop", "unaryopreturn", "resume", "entrance"}

IsMemory(m) == m = [x \in Addr |-> m[x]]

FrameTypeOK ==
    /\ IsMemory(mem)
    /\ sp \in [Threads -> Addr]
    /\ regs = [t \in Threads |-> regs[t]]
    /\ pc \in [Threads -> Labels]
    /\ node \in [Threads -> Addr]
    /\ fiber_list \in Seq(Addr)
    /\ disposed_fiber_list \in Seq(Addr)
    /\ fiber_pool \in SUBSET Blocks
    /\ 0 \in fiber_pool

Headers == \A b \in fiber_pool : mem[Top(b)] = <<"block", b>>

(* What the struct that t took out of a list is good for.                  *)
Runnable(f) == StackOf(f) \in FiberStacks /\ Saved(mem, f)
Recycled(f) == StackOf(f) \in FiberBlocks /\ Gone(mem, f)

Chosen(t) == node[t] = Cell(t) \/ Runnable(node[t])

(* t executes a fiber's C code with its stack pointer n words below.       *)
InFiber(t, n) ==
    LET s == StackOf(sp[t])
    IN  /\ s \in FiberStacks
        /\ sp[t] = Base(s) - n
        /\ regs[t] = Own(s)
        /\ Called(mem, s)

InLoop(t) ==
    /\ sp[t] = Base(LoopStack(t))
    /\ regs[t] = Own(LoopStack(t))

(* What is popped from address x makes t go on with a fiber or its loop.   *)
GoesOn(t, x) ==
    LET s == StackOf(sp[t])
    IN  \/ s \in FiberStacks /\ FiberAt(mem, s, x)
        \/ s = LoopStack(t) /\ LoopAt(mem, s, x)

ThreadOK(t) ==
    LET s == StackOf(sp[t])
    IN  /\ pc[t] = "user" => InFiber(t, 0)
        /\ pc[t] = "spawn" => InFiber(t, 0) /\ Recycled(node[t]) /\ node[t] # Cell(t)
        /\ pc[t] = "enqueue" =>
              /\ InFiber(t, 6)
              /\ mem[Base(s) - 1] = Code("user")
              /\ Chosen(t)
        /\ pc[t] = "entered" =>
              s \in FiberBlocks /\ sp[t] = Top(s) - 4 /\ mem[Top(s) - 2] = Code("exit")
        /\ pc[t] = "recycle" =>
              s \in FiberBlocks /\ sp[t] = Top(s) - 10 /\ Chosen(t)
        /\ pc[t] = "loop" => InLoop(t)
        /\ pc[t] = "dispatch" => InLoop(t) /\ Runnable(node[t]) /\ node[t] # Cell(t)
        /\ pc[t] = "unaryop" =>
              /\ GoesOn(t, sp[t] + 3)
              /\ mem[sp[t] + 1] = Ptr(Data(t) + 3)
              /\ mem[Data(t) + 4] = Ptr(Data(t))
              /\ \/ mem[sp[t]] = Code("enqueue") /\ Runnable(Data(t))
                 \/ mem[sp[t]] = Code("recycle") /\ Recycled(Data(t))
        /\ pc[t] = "unaryopreturn" => GoesOn(t, sp[t] + 3)
        /\ pc[t] \in {"resume", "entrance"} =>
              GoesOn(t, sp[t] - 1) /\ mem[sp[t] - 1] = Code(pc[t])

(* The struct of t itself, while t runs a fiber.                           *)
CellOK(t) ==
    StackOf(sp[t]) # LoopStack(t) =>
        \E x \in Addr : mem[Cell(t)] = Ptr(x) /\ LoopAt(mem, LoopStack(t), x)

ListsOK ==
    /\ \A f \in Range(fiber_list) : Runnable(f) /\ Links(mem, f)
    /\ \A f \in Range(disposed_fiber_list) : Recycled(f) /\ Links(mem, f)

FrameInv ==
    /\ FrameTypeOK
    /\ \A t \in Threads : ThreadOK(t) /\ CellOK(t)
    /\ ListsOK
    /\ Once
    /\ Headers

-----------------------------------------------------------------------------
(* Addresses.                                                              *)
LEMMA Sizes == NBlocks \in Nat /\ NBlocks > 0 /\ NWorkers \in Nat
BY SomeBlocks

LEMMA StackOfAddress ==
    ASSUME NEW a \in Nat
    PROVE  /\ StackOf(a) \in Nat
           /\ 30 * StackOf(a) <= a
           /\ a < 30 * StackOf(a) + 30
BY DEF StackOf, Size

LEMMA StackOfRegion ==
    ASSUME NEW s \in Nat, NEW a \in Nat, 30 * s <= a, a < 30 * s + 30
    PROVE  StackOf(a) = s
BY DEF StackOf, Size

LEMMA RegionIs ==
    ASSUME NEW s \in Stacks
    PROVE  /\ s \in Nat
           /\ Region(s) \subseteq Addr
           /\ \A a \in Nat : a \in Region(s) <=> 30 * s <= a /\ a < 30 * s + 30
           /\ \A a \in Nat : a \in Region(s) <=> StackOf(a) = s
<1>1. s \in Nat /\ s <= NBlocks + NWorkers
    BY Sizes DEF Stacks
<1>2. \A a \in Nat : a \in Region(s) <=> 30 * s <= a /\ a < 30 * s + 30
    BY <1>1 DEF Region, Size
<1>3. \A a \in Nat : a \in Region(s) <=> StackOf(a) = s
    BY <1>1, <1>2, StackOfAddress, StackOfRegion
<1>4. Region(s) \subseteq Addr
    BY <1>1, Sizes DEF Region, Addr, Cell, Size
<1>5. QED
    BY <1>1, <1>2, <1>3, <1>4

(* The structs of the threads lie on no stack.                             *)
LEMMA CellIs ==
    ASSUME NEW t \in Threads
    PROVE  /\ Cell(t) \in Addr
           /\ StackOf(Cell(t)) \notin Stacks
           /\ \A s \in Stacks : Cell(t) \notin Region(s)
           /\ \A u \in Threads : Cell(u) = Cell(t) => u = t
<1>1. t \in Nat /\ t <= NWorkers
    BY Sizes DEF Threads
<1>2. Cell(t) = 30 * (NBlocks + NWorkers + 1) + t /\ Cell(t) \in Nat
    BY <1>1, Sizes DEF Cell, Size
<1>3. Cell(t) \in Addr
    BY <1>1, <1>2, Sizes DEF Addr, Cell, Size
<1>4. \A s \in Stacks : Cell(t) \notin Region(s)
    BY <1>1, <1>2, Sizes, RegionIs DEF Stacks
<1>5. StackOf(Cell(t)) \notin Stacks
    BY <1>2, <1>4, RegionIs
<1>6. \A u \in Threads : Cell(u) = Cell(t) => u = t
    BY <1>1, Sizes DEF Cell, Size, Threads
<1>7. QED
    BY <1>3, <1>4, <1>5, <1>6

LEMMA StackKinds ==
    ASSUME fiber_pool \in SUBSET Blocks, NEW t \in Threads
    PROVE  /\ FiberStacks \subseteq Stacks /\ FiberBlocks \subseteq Blocks
           /\ Blocks \subseteq Stacks
           /\ LoopStack(t) \in Stacks /\ LoopStack(t) \notin FiberStacks
           /\ OwnStack(0) \notin Blocks /\ OwnStack(0) \in Stacks
           /\ LoopStack(t) \in Blocks => t = 0
           /\ \A u \in Threads : LoopStack(u) = LoopStack(t) => u = t
<1>1. t \in Nat /\ t <= NWorkers
    BY Sizes DEF Threads
<1>2. /\ Blocks \subseteq Stacks
      /\ LoopStack(t) \in Stacks
      /\ OwnStack(0) \notin Blocks /\ OwnStack(0) \in Stacks
      /\ LoopStack(t) \in Blocks => t = 0
      /\ \A u \in Threads : LoopStack(u) = LoopStack(t) => u = t
    BY <1>1, Sizes DEF Stacks, Blocks, LoopStack, OwnStack, Threads
<1>3. FiberBlocks \subseteq Blocks
    BY DEF FiberBlocks
<1>4. LoopStack(t) # OwnStack(0) /\ LoopStack(t) \notin FiberBlocks
    BY <1>1, <1>2, <1>3, Sizes DEF LoopStack, OwnStack, FiberBlocks
<1>5. QED
    BY <1>2, <1>3, <1>4 DEF FiberStacks

LEMMA BaseIs ==
    ASSUME NEW s \in Stacks
    PROVE  /\ Top(s) = 30 * s + 28
           /\ s \in Blocks => Base(s) = 30 * s + 22
           /\ s \notin Blocks => Base(s) = 30 * s + 28
           /\ Base(s) \in Nat /\ 30 * s + 22 <= Base(s) /\ Base(s) <= 30 * s + 28
           /\ FirstStruct(s) = 30 * s + 18
BY RegionIs DEF Top, Base, FirstStruct, Size, Header

LEMMA Words ==
    /\ \A a : Ptr(a)[1] = "pointer" /\ Ptr(a)[2] = a
    /\ \A l : Code(l)[1] = "code" /\ Code(l)[2] = l
    /\ \A k, l : Code(k) = Code(l) => k = l
BY DEF Ptr, Code

(* What is on a stack depends on the words of that stack.                  *)
LEMMA SameWords ==
    ASSUME NEW s \in Stacks, NEW m, NEW n, \A x \in Region(s) : n[x] = m[x]
    PROVE  /\ \A x, l : Fresh(m, s, x, l) => Fresh(n, s, x, l)
           /\ \A x : Looping(m, s, x) => Looping(n, s, x)
           /\ \A x : Yielded(m, s, x) => Yielded(n, s, x)
           /\ Called(m, s) => Called(n, s)
           /\ \A x : LoopAt(m, s, x) => LoopAt(n, s, x)
           /\ \A x : FiberAt(m, s, x) => FiberAt(n, s, x)
           /\ \A f \in Addr : StackOf(f) = s /\ Saved(m, f) => Saved(n, f)
           /\ \A f \in Addr : StackOf(f) = s /\ Gone(m, f) => Gone(n, f)
<1>1. /\ s \in Nat
      /\ \A a \in Nat : 30 * s <= a /\ a < 30 * s + 30 => n[a] = m[a]
    BY RegionIs
<1>2. /\ Base(s) \in Nat /\ 30 * s + 22 <= Base(s) /\ Base(s) <= 30 * s + 28
      /\ Top(s) = 30 * s + 28
      /\ FirstStruct(s) = 30 * s + 18
      /\ s \in Blocks => Base(s) = 30 * s + 22
    BY BaseIs
<1>3. \A x, l : Fresh(m, s, x, l) => Fresh(n, s, x, l)
    BY <1>1, <1>2 DEF Fresh
<1>4. Called(m, s) => Called(n, s)
    BY <1>1, <1>2 DEF Called
<1>5. \A x \in Nat : \A l : 30 * s <= x /\ x < 30 * s + 20 /\ Frame(m, s, x, l)
                       => Frame(n, s, x, l)
    BY <1>1 DEF Frame
<1>6. \A x : Looping(m, s, x) => Looping(n, s, x)
    BY <1>2, <1>5, <1>1 DEF Looping
<1>7. \A x : Yielded(m, s, x) => Yielded(n, s, x)
    BY <1>1, <1>2, <1>4, <1>5 DEF Yielded
<1>8. \A f \in Addr : StackOf(f) = s /\ Saved(m, f) => Saved(n, f)
    BY <1>1, <1>2, <1>3, <1>7 DEF Saved
<1>9. \A f \in Addr : StackOf(f) = s /\ Gone(m, f) => Gone(n, f)
    BY <1>1, <1>2 DEF Gone
<1>10. QED
    BY <1>3, <1>4, <1>6, <1>7, <1>8, <1>9 DEF LoopAt, FiberAt

(* Code that goes on at x does not read what lies below.                   *)
LEMMA SameAbove ==
    ASSUME NEW s \in Stacks, NEW m, NEW n, NEW x,
           \A y \in Region(s) : x <= y => n[y] = m[y]
    PROVE  /\ FiberAt(m, s, x) => FiberAt(n, s, x)
           /\ LoopAt(m, s, x) => LoopAt(n, s, x)
<1>1. /\ s \in Nat
      /\ \A a \in Nat : 30 * s <= a /\ a < 30 * s + 30 /\ x <= a => n[a] = m[a]
    BY RegionIs
<1>2. /\ Base(s) \in Nat /\ 30 * s + 22 <= Base(s) /\ Base(s) <= 30 * s + 28
      /\ Top(s) = 30 * s + 28
      /\ s \in Blocks => Base(s) = 30 * s + 22
    BY BaseIs
<1>3. \A l : Fresh(m, s, x, l) => Fresh(n, s, x, l)
    BY <1>1, <1>2 DEF Fresh
<1>4. \A l : x \in Nat /\ 30 * s <= x /\ x < 30 * s + 20 /\ Frame(m, s, x, l)
              => Frame(n, s, x, l)
    BY <1>1 DEF Frame
<1>5. Looping(m, s, x) => Looping(n, s, x)
    BY <1>1, <1>2, <1>4 DEF Looping
<1>6. x = Base(s) - 15 /\ Called(m, s) => Called(n, s)
    BY <1>1, <1>2 DEF Called
<1>7. Yielded(m, s, x) => Yielded(n, s, x)
    BY <1>1, <1>2, <1>4, <1>6 DEF Yielded
<1>8. QED
    BY <1>3, <1>5, <1>7 DEF FiberAt, LoopAt

(* Linking a struct does not change what it is good for.                   *)
LEMMA SameButLinks ==
    ASSUME NEW f, StackOf(f) \in Stacks, NEW m, NEW n,
           \A y \in Region(StackOf(f)) : y # f + 1 /\ y # f + 2 => n[y] = m[y]
    PROVE  /\ Saved(m, f) => Saved(n, f)
           /\ Gone(m, f) => Gone(n, f)
<1> DEFINE s == StackOf(f)
<1>1. /\ s \in Nat
      /\ \A a \in Nat : 30 * s <= a /\ a < 30 * s + 30 /\ a # f + 1 /\ a # f + 2
                       => n[a] = m[a]
    BY RegionIs
<1>2. /\ Base(s) \in Nat /\ 30 * s + 22 <= Base(s) /\ Base(s) <= 30 * s + 28
      /\ Top(s) = 30 * s + 28
      /\ FirstStruct(s) = 30 * s + 18
      /\ s \in Blocks => Base(s) = 30 * s + 22
    BY BaseIs
<1> HIDE DEF s
<1>3. ASSUME f = FirstStruct(s), m[f] = Ptr(f + 5), Fresh(m, s, f + 5, "user")
      PROVE  n[f] = Ptr(f + 5) /\ Fresh(n, s, f + 5, "user")
  <2>1. f \in Nat /\ f = 30 * s + 18 /\ f + 5 = 30 * s + 23
    BY <1>1, <1>2, <1>3
  <2>2. n[f] = m[f] /\ n[f + 5] = m[f + 5] /\ n[f + 5 + 1] = m[f + 5 + 1]
        /\ n[f + 5 + 2] = m[f + 5 + 2] /\ n[f + 5 + 3] = m[f + 5 + 3]
    BY <1>1, <2>1
  <2>3. QED
    BY <1>3, <2>2 DEF Fresh
<1>4. ASSUME f = Base(s) - 6, m[f] = Ptr(f - 9), Yielded(m, s, f - 9)
      PROVE  n[f] = Ptr(f - 9) /\ Yielded(n, s, f - 9)
  <2>1. f \in Nat /\ 30 * s + 16 <= f /\ f <= 30 * s + 22 /\ Base(s) = f + 6
    BY <1>1, <1>2, <1>4
  <2>2. PICK x \in Nat : x = f - 9
    BY <1>1, <2>1
  <2>3. Frame(n, s, x, "yielded")
    <3>1. Frame(m, s, x, "yielded")
        BY <1>4, <2>2 DEF Yielded
    <3>2. \A i \in 0..8 : n[x + i] = m[x + i]
        BY <1>1, <2>1, <2>2
    <3>3. x + 0 = x
        BY <2>2
    <3>4. QED
        BY <3>1, <3>2, <3>3 DEF Frame
  <2>4. n[f] = m[f] /\ n[x + 14] = m[x + 14]
    BY <1>1, <2>1, <2>2
  <2>5. Called(n, s)
    BY <1>1, <1>2, <1>4, <2>1 DEF Called, Yielded
  <2>6. QED
    BY <1>4, <2>2, <2>3, <2>4, <2>5 DEF Yielded
<1>5. Gone(m, f) => Gone(n, f)
    BY <1>1, <1>2 DEF Gone, s
<1>6. QED
    BY <1>3, <1>4, <1>5 DEF Saved, s

(* Structs and popped words lie well inside their stacks.                  *)
LEMMA StructIs ==
    ASSUME NEW f, StackOf(f) \in Stacks, NEW m, Saved(m, f) \/ Gone(m, f)
    PROVE  /\ f \in Nat /\ f \in Addr /\ f \in Region(StackOf(f))
           /\ 30 * StackOf(f) + 9 <= f /\ f + 6 < 30 * StackOf(f) + 30
           /\ \A i \in 1..4 : f + i \in Region(StackOf(f))
<1> DEFINE s == StackOf(f)
<1>1. f = FirstStruct(s) \/ f = Base(s) - 6
    BY DEF Saved, Gone
<1>2. s \in Nat /\ f \in Nat /\ 30 * s + 9 <= f /\ f + 6 < 30 * s + 30
    BY <1>1, BaseIs, RegionIs
<1>3. QED
    BY <1>2, RegionIs

LEMMA PopIs ==
    ASSUME NEW t \in Threads, NEW x, StackOf(sp[t]) \in Stacks, GoesOn(t, x)
    PROVE  LET s == StackOf(sp[t])
           IN  x \in Nat /\ 30 * s + 7 <= x /\ x <= 30 * s + 23
<1> DEFINE s == StackOf(sp[t])
<1>1. x = Top(s) - 5 \/ x = Base(s) - 15 \/ x = Base(s) - 9
    BY DEF GoesOn, FiberAt, LoopAt, Fresh, Yielded, Looping
<1>2. QED
    BY <1>1, BaseIs, RegionIs

-----------------------------------------------------------------------------
(* The party that uses a stack is the only one.                            *)
LEMMA RunsOn ==
    ASSUME FrameTypeOK, NEW t \in Threads, ThreadOK(t)
    PROVE  StackOf(sp[t]) \in FiberStacks \/ StackOf(sp[t]) = LoopStack(t)
<1>1. LoopStack(t) \in Stacks /\ FiberBlocks \subseteq FiberStacks
    BY StackKinds DEF FrameTypeOK, FiberStacks
<1>2. InLoop(t) => StackOf(sp[t]) = LoopStack(t)
    BY <1>1, BaseIs, RegionIs, StackOfRegion DEF InLoop
<1>3. pc[t] \in Labels
    BY DEF FrameTypeOK
<1>4. QED
    BY <1>1, <1>2, <1>3 DEF Labels, ThreadOK, InFiber, GoesOn

LEMMA Listed ==
    ASSUME FrameTypeOK
    PROVE  Range(fiber_list) \subseteq Addr /\ Range(disposed_fiber_list) \subseteq Addr
<1>1. \A q \in Seq(Addr) : \A i \in DOMAIN q : q[i] \in Addr
    OBVIOUS
<1>2. QED
    BY <1>1 DEF FrameTypeOK, Range

LEMMA UsedStacks ==
    ASSUME FrameInv, NEW t \in Threads, NEW s, Uses(t, s)
    PROVE  s \in FiberStacks \/ s = LoopStack(t)
<1>1. FrameTypeOK /\ ThreadOK(t)
    BY DEF FrameInv
<1>2. CASE Holds("run", t, s)
    BY <1>1, <1>2, RunsOn DEF Holds
<1>3. CASE Holds("node", t, s)
  <2>1. /\ pc[t] \in {"enqueue", "recycle", "dispatch", "spawn"}
        /\ node[t] # Cell(t)
        /\ StackOf(node[t]) = s
    BY <1>3 DEF Holds
  <2>2. StackOf(node[t]) \in FiberStacks
    BY <1>1, <2>1 DEF ThreadOK, Chosen, Runnable, Recycled, FiberStacks
  <2>3. QED
    BY <2>1, <2>2
<1>4. CASE Holds("deferred", t, s)
    BY <1>1, <1>4 DEF Holds, ThreadOK, Runnable, Recycled, FiberStacks
<1>5. QED
    BY <1>2, <1>3, <1>4 DEF Uses

LEMMA Apart ==
    ASSUME FrameInv, NEW t \in Threads, NEW r, Uses(t, r)
    PROVE  /\ \A u \in Threads \ {t} : ~Uses(u, r)
           /\ \A f \in Range(fiber_list) \cup Range(disposed_fiber_list) : StackOf(f) # r
<1>1. FrameTypeOK /\ Once /\ ListsOK
    BY DEF FrameInv
<1>2. r \in FiberStacks \/ r = LoopStack(t)
    BY UsedStacks
<1>3. /\ LoopStack(t) \notin FiberStacks
      /\ \A u \in Threads : LoopStack(u) \notin FiberStacks
      /\ \A u \in Threads : LoopStack(u) = LoopStack(t) => u = t
    BY <1>1, StackKinds DEF FrameTypeOK
<1>4. Threads \subseteq Nat /\ Addr \subseteq Nat
    BY DEF Threads, Addr
<1>5. ASSUME NEW u \in Threads \ {t} PROVE ~Uses(u, r)
  <2>1. Uses(u, r) => r \in FiberStacks \/ r = LoopStack(u)
    BY UsedStacks
  <2>2. CASE r \in FiberStacks
    BY <1>1, <1>3, <1>4, <2>2 DEF Uses, Once, Kinds
  <2>3. QED
    BY <1>2, <1>3, <2>1, <2>2
<1>6. ASSUME NEW f \in Range(fiber_list) \cup Range(disposed_fiber_list)
      PROVE  StackOf(f) # r
  <2>1. StackOf(f) \in FiberStacks /\ f \in Nat
    BY <1>1, <1>4, Listed DEF ListsOK, Runnable, Recycled, FiberStacks
  <2>2. Holds("list", f, StackOf(f)) \/ Holds("disposed", f, StackOf(f))
    BY DEF Holds
  <2>3. CASE r \in FiberStacks /\ StackOf(f) = r
    BY <1>1, <1>3, <1>4, <2>1, <2>2, <2>3 DEF Uses, Once, Kinds
  <2>4. QED
    BY <1>2, <1>3, <2>1, <2>3
<1>7. QED
    BY <1>5, <1>6

(* A step of t: other threads' variables stay as they are, and so does     *)
(* what others have on their stacks.                                       *)
StepOf(t) ==
    /\ \A u \in Threads \ {t} :
          sp'[u] = sp[u] /\ pc'[u] = pc[u] /\ node'[u] = node[u] /\ regs'[u] = regs[u]
    /\ fiber_pool \subseteq fiber_pool' /\ fiber_pool' \subseteq Blocks
    /\ \A x \in Addr :
          \/ mem'[x] = mem[x]
          \/ x = Cell(t)
          \/ Uses(t, StackOf(x))
          \/ StackOf(x) \in Blocks \ fiber_pool

LEMMA SameElsewhere ==
    ASSUME FrameInv, NEW t \in Threads, StepOf(t)
    PROVE  /\ \A s \in Stacks :
                 ~Uses(t, s) /\ s \notin Blocks \ fiber_pool =>
                     \A x \in Region(s) : mem'[x] = mem[x]
           /\ \A u \in Threads \ {t} : mem'[Cell(u)] = mem[Cell(u)]
<1>1. FrameTypeOK
    BY DEF FrameInv
<1>2. ASSUME NEW s \in Stacks, ~Uses(t, s), s \notin Blocks \ fiber_pool,
             NEW x \in Region(s)
      PROVE  mem'[x] = mem[x]
  <2>1. x \in Addr /\ StackOf(x) = s
    BY RegionIs DEF Addr
  <2>2. x # Cell(t)
    BY CellIs
  <2>3. QED
    BY <1>2, <2>1, <2>2 DEF StepOf
<1>3. ASSUME NEW u \in Threads \ {t} PROVE mem'[Cell(u)] = mem[Cell(u)]
  <2>1. /\ Cell(u) \in Addr /\ Cell(u) # Cell(t)
        /\ StackOf(Cell(u)) \notin Stacks
    BY CellIs
  <2>2. Blocks \subseteq Stacks /\ FiberStacks \subseteq Stacks /\ LoopStack(t) \in Stacks
    BY <1>1, StackKinds DEF FrameTypeOK
  <2>3. ~Uses(t, StackOf(Cell(u)))
    BY <2>1, <2>2, UsedStacks
  <2>4. QED
    BY <2>1, <2>2, <2>3 DEF StepOf
<1>4. QED
    BY <1>2, <1>3

(* The struct of a deferred call of another thread is the same as before.  *)
LEMMA DataKept ==
    ASSUME FrameInv, NEW t \in Threads, StepOf(t),
           NEW u \in Threads \ {t}, pc[u] = "unaryop"
    PROVE  /\ Data(u)' = Data(u)
           /\ Data(u) \in Addr /\ StackOf(Data(u)) \in FiberStacks
           /\ \A x \in Region(StackOf(sp[u])) \cup Region(StackOf(Data(u))) :
                 mem'[x] = mem[x]
<1>1. FrameTypeOK /\ ThreadOK(u)
    BY DEF FrameInv
<1>2. /\ FiberStacks \subseteq Stacks /\ LoopStack(u) \in Stacks /\ Blocks \subseteq Stacks
      /\ FiberBlocks \subseteq FiberStacks
    BY <1>1, StackKinds DEF FrameTypeOK, FiberStacks
<1>3. StackOf(sp[u]) \in Stacks /\ Uses(u, StackOf(sp[u]))
    BY <1>1, <1>2, RunsOn DEF Uses, Holds
<1>4. Uses(u, StackOf(Data(u))) /\ StackOf(Data(u)) \in FiberStacks
    BY <1>1, <1>2 DEF Uses, Holds, ThreadOK, Runnable, Recycled
<1>5. Data(u) \in Addr /\ Data(u) + 4 \in Region(StackOf(Data(u)))
  <2>1. Saved(mem, Data(u)) \/ Gone(mem, Data(u))
    BY <1>1 DEF ThreadOK, Runnable, Recycled
  <2>2. QED
    BY <1>2, <1>4, <2>1, StructIs
<1>6. sp[u] + 1 \in Region(StackOf(sp[u])) /\ sp[u] \in Nat
  <2>1. GoesOn(u, sp[u] + 3) /\ sp[u] \in Nat
    BY <1>1 DEF ThreadOK, FrameTypeOK, Addr
  <2>2. QED
    BY <1>3, <2>1, PopIs, RegionIs
<1>7. \A x \in Region(StackOf(sp[u])) \cup Region(StackOf(Data(u))) : mem'[x] = mem[x]
  <2>1. ~Uses(t, StackOf(sp[u])) /\ ~Uses(t, StackOf(Data(u)))
    BY <1>3, <1>4, Apart
  <2>2. StackOf(sp[u]) \notin Blocks \ fiber_pool
    BY <1>1, RunsOn, StackKinds DEF FrameTypeOK, FiberStacks, FiberBlocks
  <2>3. StackOf(Data(u)) \notin Blocks \ fiber_pool
    BY <1>1, <1>4, StackKinds DEF FrameTypeOK, FiberStacks, FiberBlocks
  <2>4. QED
    BY <1>2, <1>3, <1>4, <2>1, <2>2, <2>3, SameElsewhere
<1>8. mem[sp[u] + 1] = Ptr(Data(u) + 3) /\ mem[Data(u) + 4] = Ptr(Data(u))
    BY <1>1 DEF ThreadOK
<1>9. sp'[u] = sp[u]
    BY DEF StepOf
<1>10. Data(u)' = Data(u)
  <2>1. mem'[sp'[u] + 1] = Ptr(Data(u) + 3)
    BY <1>6, <1>7, <1>8, <1>9
  <2>2. mem'[sp'[u] + 1][2] + 1 = Data(u) + 4
    BY <2>1, <1>5, Words DEF Addr
  <2>3. mem'[mem'[sp'[u] + 1][2] + 1][2] = Data(u)
    BY <2>2, <1>5, <1>7, <1>8, Words
  <2>4. QED
    BY <2>3 DEF Data
<1>11. QED
    BY <1>4, <1>5, <1>7, <1>10

LEMMA RunnableKept ==
    ASSUME FrameInv, NEW t \in Threads, StepOf(t), NEW f,
           StackOf(f) \in Stacks, ~Uses(t, StackOf(f))
    PROVE  /\ Runnable(f) => Runnable(f)'
           /\ Recycled(f) => Recycled(f)'
           /\ Recycled(f) \/ Runnable(f) => (Links(mem, f) => Links(mem', f))
<1>1. FrameTypeOK /\ fiber_pool \subseteq fiber_pool'
    BY DEF FrameInv, StepOf
<1>2. /\ FiberStacks \subseteq FiberStacks' /\ FiberBlocks \subseteq FiberBlocks'
      /\ FiberBlocks \subseteq FiberStacks
    BY <1>1 DEF FiberStacks, FiberBlocks
<1>3. StackOf(f) \in FiberStacks => \A x \in Region(StackOf(f)) : mem'[x] = mem[x]
    BY SameElsewhere, <1>1, StackKinds DEF FrameTypeOK, FiberStacks, FiberBlocks
<1>4. ASSUME Runnable(f) PROVE Runnable(f)' /\ (Links(mem, f) => Links(mem', f))
  <2>1. Saved(mem, f) /\ StackOf(f) \in FiberStacks
    BY <1>4 DEF Runnable
  <2>2. f \in Addr /\ f + 1 \in Region(StackOf(f)) /\ f + 2 \in Region(StackOf(f))
    BY <2>1, StructIs, RegionIs
  <2>3. Saved(mem', f)
    BY <1>3, <2>1, <2>2, SameWords
  <2>4. QED
    BY <1>2, <1>3, <2>1, <2>2, <2>3 DEF Runnable, Links
<1>5. ASSUME Recycled(f) PROVE Recycled(f)' /\ (Links(mem, f) => Links(mem', f))
  <2>1. Gone(mem, f) /\ StackOf(f) \in FiberBlocks
    BY <1>5 DEF Recycled
  <2>2. f \in Addr /\ f + 1 \in Region(StackOf(f)) /\ f + 2 \in Region(StackOf(f))
    BY <2>1, StructIs, RegionIs
  <2>3. Gone(mem', f)
    BY <1>2, <1>3, <2>1, <2>2, SameWords
  <2>4. QED
    BY <1>2, <1>3, <2>1, <2>2, <2>3 DEF Recycled, Links
<1>6. QED
    BY <1>4, <1>5

LEMMA OthersKept ==
    ASSUME FrameInv, NEW t \in Threads, StepOf(t), NEW u \in Threads \ {t}
    PROVE  ThreadOK(u)' /\ CellOK(u)'
<1> DEFINE s == StackOf(sp[u])
<1>1. FrameTypeOK /\ ThreadOK(u) /\ CellOK(u)
    BY DEF FrameInv
<1>2. /\ sp'[u] = sp[u] /\ pc'[u] = pc[u] /\ node'[u] = node[u] /\ regs'[u] = regs[u]
      /\ fiber_pool \subseteq fiber_pool'
    BY DEF StepOf
<1>3. /\ FiberStacks \subseteq Stacks /\ LoopStack(u) \in Stacks
      /\ FiberStacks \subseteq FiberStacks' /\ FiberBlocks \subseteq FiberBlocks'
      /\ FiberBlocks \subseteq FiberStacks
    BY <1>1, <1>2, StackKinds DEF FrameTypeOK, FiberStacks, FiberBlocks
<1>4. s \in Stacks /\ Uses(u, s) /\ Uses(u, LoopStack(u))
    BY <1>1, <1>3, RunsOn DEF Uses, Holds
<1>5. ~Uses(t, s) /\ ~Uses(t, LoopStack(u))
    BY <1>4, Apart
<1>6. LoopStack(u) \notin Blocks \ fiber_pool
    BY <1>1, Sizes, StackKinds DEF FrameTypeOK, LoopStack
<1>7. s \notin Blocks \ fiber_pool
    BY <1>1, <1>6, RunsOn, StackKinds DEF FrameTypeOK, FiberStacks, FiberBlocks
<1>8. /\ \A x \in Region(s) : mem'[x] = mem[x]
      /\ \A x \in Region(LoopStack(u)) : mem'[x] = mem[x]
      /\ mem'[Cell(u)] = mem[Cell(u)]
    BY <1>3, <1>4, <1>5, <1>6, <1>7, SameElsewhere
<1>9. CellOK(u)'
    BY <1>1, <1>2, <1>3, <1>8, SameWords DEF CellOK
<1>10. \A x : GoesOn(u, x) => GoesOn(u, x)'
    BY <1>2, <1>3, <1>4, <1>8, SameWords DEF GoesOn
<1>11. \A n : InFiber(u, n) => InFiber(u, n)'
    BY <1>2, <1>3, <1>4, <1>8, SameWords DEF InFiber
<1>12. InLoop(u) => InLoop(u)'
    BY <1>2 DEF InLoop
<1>13. ASSUME pc[u] \in {"enqueue", "recycle", "dispatch", "spawn"}, node[u] # Cell(u)
       PROVE  ~Uses(t, StackOf(node[u]))
  <2>1. Uses(u, StackOf(node[u]))
    BY <1>13 DEF Uses, Holds
  <2>2. QED
    BY <2>1, Apart
<1>14. pc[u] \in {"enqueue", "recycle"} => (Chosen(u) => Chosen(u)')
    BY <1>2, <1>3, <1>13, RunnableKept DEF Chosen, Runnable
<1>15. pc[u] = "dispatch" => Runnable(node[u])'
    BY <1>1, <1>2, <1>3, <1>13, RunnableKept DEF Runnable, ThreadOK
<1>16. pc[u] = "spawn" => Recycled(node[u])'
    BY <1>1, <1>2, <1>3, <1>13, RunnableKept DEF Recycled, ThreadOK
<1>17. pc[u] \in {"user", "spawn", "enqueue", "loop", "dispatch"} => ThreadOK(u)'
  <2>1. s \in Nat /\ Base(s) - 1 \in Nat /\ Base(s) - 1 \in Region(s)
    BY <1>4, BaseIs, RegionIs
  <2>2. (mem[Base(s) - 1] = Code("user")) => (mem'[Base(s) - 1] = Code("user"))
    BY <1>8, <2>1
  <2>3. QED
    BY <1>1, <1>2, <1>11, <1>12, <1>14, <1>15, <1>16, <2>2 DEF ThreadOK
<1>18. pc[u] \in {"entered", "recycle"} => ThreadOK(u)'
  <2>1. Top(s) - 2 \in Region(s)
    BY <1>4, BaseIs, RegionIs
  <2>2. mem'[Top(s) - 2] = mem[Top(s) - 2]
    BY <1>8, <2>1
  <2>3. QED
    BY <1>1, <1>2, <1>3, <1>14, <2>2 DEF ThreadOK
<1>19. pc[u] \in {"unaryopreturn", "resume", "entrance"} => ThreadOK(u)'
  <2>1. pc[u] \in {"resume", "entrance"} => mem'[sp[u] - 1] = mem[sp[u] - 1]
    <3>1. pc[u] \in {"resume", "entrance"} => sp[u] - 1 \in Region(s)
        BY <1>1, <1>4, PopIs, RegionIs DEF ThreadOK
    <3>2. QED
        BY <1>8, <3>1
  <2>2. QED
    BY <1>1, <1>2, <1>10, <2>1 DEF ThreadOK
<1>20. ASSUME pc[u] = "unaryop" PROVE ThreadOK(u)'
  <2>1. /\ Data(u)' = Data(u) /\ StackOf(Data(u)) \in FiberStacks
        /\ \A x \in Region(StackOf(sp[u])) \cup Region(StackOf(Data(u))) :
              mem'[x] = mem[x]
    BY <1>20, DataKept
  <2>2. sp[u] \in Region(s) /\ sp[u] + 1 \in Region(s)
    <3>1. GoesOn(u, sp[u] + 3) /\ sp[u] \in Nat
        BY <1>1, <1>20 DEF ThreadOK, FrameTypeOK, Addr
    <3>2. QED
        BY <1>4, <3>1, PopIs, RegionIs
  <2>3. Data(u) + 4 \in Region(StackOf(Data(u)))
    <3>1. Saved(mem, Data(u)) \/ Gone(mem, Data(u))
        BY <1>1, <1>20 DEF ThreadOK, Runnable, Recycled
    <3>2. QED
        BY <1>3, <2>1, <3>1, StructIs
  <2>4. ~Uses(t, StackOf(Data(u)))
    <3>1. Uses(u, StackOf(Data(u)))
        BY <1>20 DEF Uses, Holds
    <3>2. QED
        BY <3>1, Apart
  <2>5. /\ Runnable(Data(u)) => Runnable(Data(u))'
        /\ Recycled(Data(u)) => Recycled(Data(u))'
    <3>1. /\ Runnable(Data(u)) => Runnable(Data(u))'
          /\ Recycled(Data(u)) => Recycled(Data(u))'
        BY <1>3, <2>1, <2>4, RunnableKept DEF Runnable, Recycled
    <3>2. QED
        BY <3>1
  <2>6. QED
    BY <1>1, <1>2, <1>10, <1>20, <2>1, <2>2, <2>3, <2>5 DEF ThreadOK
<1>21. pc[u] \in Labels
    BY <1>1 DEF FrameTypeOK
<1>22. QED
    BY <1>9, <1>17, <1>18, <1>19, <1>20, <1>21 DEF Labels

LEMMA ListsKept ==
    ASSUME FrameInv, NEW t \in Threads, StepOf(t)
    PROVE  ListsOK' <=>
              /\ \A f \in Range(fiber_list') \ Range(fiber_list) :
                    Runnable(f)' /\ Links(mem', f)
              /\ \A f \in Range(disposed_fiber_list') \ Range(disposed_fiber_list) :
                    Recycled(f)' /\ Links(mem', f)
<1>1. FrameTypeOK /\ ListsOK /\ FiberStacks \subseteq Stacks /\ FiberBlocks \subseteq Stacks
    BY StackKinds DEF FrameInv, FrameTypeOK, FiberStacks
<1>2. Uses(t, LoopStack(t))
    BY DEF Uses
<1>3. ASSUME NEW f \in Range(fiber_list) PROVE Runnable(f)' /\ Links(mem', f)
  <2>1. Runnable(f) /\ Links(mem, f) /\ StackOf(f) \in Stacks
    BY <1>1, <1>3 DEF ListsOK, Runnable
  <2>2. ~Uses(t, StackOf(f))
    BY Apart
  <2>3. QED
    BY <2>1, <2>2, RunnableKept
<1>4. ASSUME NEW f \in Range(disposed_fiber_list) PROVE Recycled(f)' /\ Links(mem', f)
  <2>1. Recycled(f) /\ Links(mem, f) /\ StackOf(f) \in Stacks
    BY <1>1, <1>4 DEF ListsOK, Recycled
  <2>2. ~Uses(t, StackOf(f))
    BY Apart
  <2>3. QED
    BY <2>1, <2>2, RunnableKept
<1>5. QED
    BY <1>3, <1>4 DEF ListsOK

-----------------------------------------------------------------------------
(* A step that takes one fiber from where it is to another place, or two.  *)
Moves(k0, h0, k1, h1) ==
    \A s \in FiberStacks, k \in Kinds, h \in Nat :
        Holds(k, h, s)' =>
            \/ Holds(k, h, s) /\ <<k, h>> # <<k0, h0>>
            \/ <<k, h>> = <<k1, h1>> /\ Holds(k0, h0, s)

LEMMA OnceMoved ==
    ASSUME FrameTypeOK, Once, FiberStacks' = FiberStacks,
           NEW k0 \in Kinds, NEW h0 \in Nat, NEW k1 \in Kinds, NEW h1 \in Nat,
           Moves(k0, h0, k1, h1),
           IsInjective(fiber_list'), IsInjective(disposed_fiber_list')
    PROVE  Once'
<1> SUFFICES ASSUME NEW s \in FiberStacks, NEW ka \in Kinds, NEW kb \in Kinds,
                    NEW ha \in Nat, NEW hb \in Nat,
                    Holds(ka, ha, s)', Holds(kb, hb, s)'
             PROVE  ka = kb /\ ha = hb
    BY DEF Once
<1>1. \/ Holds(ka, ha, s) /\ <<ka, ha>> # <<k0, h0>>
      \/ <<ka, ha>> = <<k1, h1>> /\ Holds(k0, h0, s)
    BY DEF Moves
<1>2. \/ Holds(kb, hb, s) /\ <<kb, hb>> # <<k0, h0>>
      \/ <<kb, hb>> = <<k1, h1>> /\ Holds(k0, h0, s)
    BY DEF Moves
<1>3. \A k1x, k2x \in Kinds, h1x, h2x \in Nat :
         Holds(k1x, h1x, s) /\ Holds(k2x, h2x, s) => k1x = k2x /\ h1x = h2x
    BY DEF Once
<1>4. QED
    BY <1>1, <1>2, <1>3

(* No fiber changes its place.                                             *)
LEMMA OnceStays ==
    ASSUME Once, FiberStacks' = FiberStacks, UNCHANGED lists,
           \A s \in FiberStacks, k \in Kinds, h \in Nat : Holds(k, h, s)' => Holds(k, h, s)
    PROVE  Once'
BY DEF Once, lists

(* Lists.                                                                  *)
LEMMA TakeHead ==
    ASSUME NEW q \in Seq(Addr), q # <<>>, IsInjective(q)
    PROVE  /\ Head(q) \in Addr /\ Head(q) \in Range(q) /\ Tail(q) \in Seq(Addr)
           /\ IsInjective(Tail(q))
           /\ Range(Tail(q)) = Range(q) \ {Head(q)}
<1>1. /\ Len(q) \in Nat /\ Len(q) > 0 /\ DOMAIN q = 1..Len(q)
      /\ Head(q) = q[1]
      /\ \A i \in 1..Len(q) : q[i] \in Addr
    OBVIOUS
<1>2. /\ Tail(q) \in Seq(Addr) /\ DOMAIN Tail(q) = 1..(Len(q) - 1)
      /\ \A i \in 1..(Len(q) - 1) : Tail(q)[i] = q[i + 1]
    BY <1>1
<1>3. \A i, j \in 1..Len(q) : q[i] = q[j] => i = j
    BY <1>1 DEF IsInjective
<1>4. IsInjective(Tail(q))
    BY <1>1, <1>2, <1>3 DEF IsInjective
<1>5. Range(Tail(q)) \subseteq Range(q) \ {Head(q)}
    BY <1>1, <1>2, <1>3 DEF Range
<1>6. ASSUME NEW e \in Range(q), e # Head(q) PROVE e \in Range(Tail(q))
  <2>1. PICK i \in 1..Len(q) : q[i] = e
    BY <1>1 DEF Range
  <2>2. i - 1 \in 1..(Len(q) - 1) /\ Tail(q)[i - 1] = e
    BY <1>1, <1>2, <1>6, <2>1
  <2>3. QED
    BY <1>2, <2>2 DEF Range
<1>7. Head(q) \in Range(q) /\ Head(q) \in Addr
    BY <1>1 DEF Range
<1>8. QED
    BY <1>2, <1>4, <1>5, <1>6, <1>7

LEMMA PutLast ==
    ASSUME NEW q \in Seq(Addr), NEW e \in Addr, e \notin Range(q), IsInjective(q)
    PROVE  /\ Append(q, e) \in Seq(Addr)
           /\ IsInjective(Append(q, e))
           /\ Range(Append(q, e)) = Range(q) \cup {e}
<1>1. /\ Len(q) \in Nat /\ DOMAIN q = 1..Len(q)
      /\ Append(q, e) \in Seq(Addr) /\ DOMAIN Append(q, e) = 1..(Len(q) + 1)
      /\ \A i \in 1..Len(q) : Append(q, e)[i] = q[i]
      /\ Append(q, e)[Len(q) + 1] = e
    OBVIOUS
<1>2. \A i, j \in 1..Len(q) : q[i] = q[j] => i = j
    BY <1>1 DEF IsInjective
<1>3. \A i \in 1..Len(q) : q[i] # e
    BY <1>1 DEF Range
<1>4. IsInjective(Append(q, e))
    BY <1>1, <1>2, <1>3 DEF IsInjective
<1>5. Range(Append(q, e)) \subseteq Range(q) \cup {e}
    BY <1>1 DEF Range
<1>6. Range(q) \cup {e} \subseteq Range(Append(q, e))
    BY <1>1 DEF Range
<1>7. QED
    BY <1>1, <1>4, <1>5, <1>6

-----------------------------------------------------------------------------
(* Memory after a write.                                                   *)
LEMMA MemoryStays ==
    /\ \A m : \A a : \A ws : IsMemory(Write(m, a, ws))
    /\ \A m : \A a : IsMemory(Scribble(m, a))
BY DEF IsMemory, Write, Scribble

LEMMA WriteAt ==
    ASSUME NEW m, NEW a \in Nat, NEW ws, Len(ws) \in Nat
    PROVE  /\ \A i \in 1..Len(ws) :
                 a + i - 1 \in Addr => Write(m, a, ws)[a + i - 1] = ws[i]
           /\ \A x \in Addr : x < a \/ a + Len(ws) <= x => Write(m, a, ws)[x] = m[x]
<1>1. \A x \in Addr : Write(m, a, ws)[x] =
                        IF x \in a..(a + Len(ws) - 1) THEN ws[x - a + 1] ELSE m[x]
    BY DEF Write
<1>2. Addr \subseteq Nat
    BY DEF Addr
<1>3. \A i \in 1..Len(ws) : /\ a + i - 1 \in a..(a + Len(ws) - 1)
                             /\ (a + i - 1) - a + 1 = i
    OBVIOUS
<1>4. QED
    BY <1>1, <1>2, <1>3

LEMMA WriteOne ==
    ASSUME NEW m, NEW a \in Addr, NEW w
    PROVE  \E n : /\ n = Write(m, a, <<w>>)
                  /\ n[a] = w
                  /\ \A x \in Addr : x # a => n[x] = m[x]
<1>1. PICK q : q = <<w>>
    OBVIOUS
<1>2. Len(q) = 1 /\ q[1] = w
    BY <1>1
<1>3. PICK n : n = Write(m, a, q)
    OBVIOUS
<1>4. a \in Nat /\ a + 1 - 1 = a /\ \A x \in Addr : x # a => x < a \/ a + 1 <= x
    BY DEF Addr
<1>5. /\ \A i \in 1..Len(q) : a + i - 1 \in Addr => n[a + i - 1] = q[i]
      /\ \A x \in Addr : x < a \/ a + Len(q) <= x => n[x] = m[x]
  <2>1. Len(q) \in Nat
    BY <1>2
  <2>2. QED
    BY <1>3, <1>4, <2>1, WriteAt
<1>6. n[a] = w
  <2>1. 1 \in 1..Len(q) /\ a + 1 - 1 \in Addr
    BY <1>2, <1>4
  <2>2. n[a + 1 - 1] = q[1]
    BY <1>5, <2>1
  <2>3. QED
    BY <1>2, <1>4, <2>2
<1>8. \A x \in Addr : x # a => n[x] = m[x]
    BY <1>2, <1>4, <1>5
<1>9. QED
    BY <1>1, <1>3, <1>6, <1>8

Put(m, a, w) == Write(m, a, <<w>>)

LEMMA PutAt ==
    ASSUME NEW m, NEW a \in Addr, NEW w
    PROVE  /\ IsMemory(Put(m, a, w))
           /\ Put(m, a, w)[a] = w
           /\ \A x \in Addr : x # a => Put(m, a, w)[x] = m[x]
<1>1. PICK n : /\ n = Write(m, a, <<w>>)
               /\ n[a] = w
               /\ \A x \in Addr : x # a => n[x] = m[x]
    BY WriteOne
<1>2. n = Put(m, a, w)
    BY <1>1 DEF Put
<1>3. IsMemory(n)
    BY <1>1, MemoryStays
<1>4. QED
    BY <1>1, <1>2, <1>3

Put2(m, a, v, w) == Write(m, a, <<v, w>>)

LEMMA Put2At ==
    ASSUME NEW m, NEW a \in Addr, a + 1 \in Addr, NEW v, NEW w
    PROVE  /\ IsMemory(Put2(m, a, v, w))
           /\ Put2(m, a, v, w)[a] = v
           /\ Put2(m, a, v, w)[a + 1] = w
           /\ \A x \in Addr : x # a /\ x # a + 1 => Put2(m, a, v, w)[x] = m[x]
<1>1. PICK q : q = <<v, w>>
    OBVIOUS
<1>2. Len(q) = 2 /\ q[1] = v /\ q[2] = w
    BY <1>1
<1>3. PICK n : n = Put2(m, a, v, w)
    OBVIOUS
<1>4. n = Write(m, a, q)
    BY <1>1, <1>3 DEF Put2
<1>5. /\ a \in Nat
      /\ \A x \in Addr : x \in a..(a + 2 - 1) <=> x = a \/ x = a + 1
      /\ a - a + 1 = 1 /\ a + 1 - a + 1 = 2
    BY DEF Addr
<1>6. \A x \in Addr : n[x] = IF x \in a..(a + 2 - 1) THEN q[x - a + 1] ELSE m[x]
  <2>1. \A x \in Addr : n[x] = IF x \in a..(a + Len(q) - 1) THEN q[x - a + 1] ELSE m[x]
    BY <1>4 DEF Write
  <2>2. QED
    BY <1>2, <2>1
<1>7. n[a] = v
  <2>1. n[a] = q[a - a + 1]
    BY <1>5, <1>6
  <2>2. QED
    BY <1>2, <1>5, <2>1
<1>8. n[a + 1] = w
  <2>1. n[a + 1] = q[a + 1 - a + 1]
    BY <1>5, <1>6
  <2>2. QED
    BY <1>2, <1>5, <2>1
<1>9. \A x \in Addr : x # a /\ x # a + 1 => n[x] = m[x]
    BY <1>5, <1>6
<1>10. IsMemory(n)
    BY <1>4, MemoryStays
<1>11. QED
    BY <1>3, <1>7, <1>8, <1>9, <1>10

LEMMA ScribbleAt ==
    ASSUME NEW m, NEW a \in Nat
    PROVE  \A x \in Addr : StackOf(x) # StackOf(a) \/ a <= x => Scribble(m, a)[x] = m[x]
<1>1. Addr \subseteq Nat
    BY DEF Addr
<1>2. QED
    BY <1>1 DEF Scribble

LEMMA FrameWords ==
    ASSUME NEW r, NEW return
    PROVE  LET w == SavedWords(r) \o <<Code(return)>>
           IN  /\ Len(w) = 9
               /\ w[1] = Code("resume")
               /\ \A i \in 1..7 : w[i + 1] = r[Popped[i]]
               /\ w[9] = Code(return)
<1> DEFINE v == [i \in 1..7 |-> r[Pushed[8 - i]]]
           T == {r[Pushed[8 - i]] : i \in 1..7} \cup {Code("resume"), Code(return)}
           u == <<Code("resume")>> \o v
           w == u \o <<Code(return)>>
<1>0. v \in Seq(T)
    OBVIOUS
<1>1. Len(v) = 7
    OBVIOUS
<1>2. \A i \in 1..7 : v[i] = r[Popped[i]]
    BY DEF Pushed, Popped
<1>3. SavedWords(r) = u
    BY DEF SavedWords
<1>4. Code("resume") \in T /\ Code(return) \in T
    OBVIOUS
<1> HIDE DEF v, T
<1>5. /\ u \in Seq(T) /\ Len(u) = 8
      /\ u[1] = Code("resume")
      /\ \A i \in 1..7 : u[i + 1] = v[i]
  <2>1. /\ u \in Seq(T) /\ Len(u) = Len(v) + 1
        /\ u[1] = Code("resume")
        /\ \A i \in 1..Len(v) : u[i + 1] = v[i]
    BY <1>0, <1>4
  <2> HIDE DEF u
  <2>2. QED
    BY <1>1, <2>1
<1> HIDE DEF u
<1>6. u \in Seq(T)
    BY <1>5
<1>7. /\ Len(w) = 9
      /\ \A i \in 1..8 : w[i] = u[i]
      /\ w[9] = Code(return)
  <2>1. /\ Len(w) = Len(u) + 1
        /\ w[Len(u) + 1] = Code(return)
        /\ \A i \in 1..Len(u) : w[i] = u[i]
    BY <1>4, <1>6
  <2> HIDE DEF w
  <2>2. QED
    BY <1>5, <2>1
<1>8. w = SavedWords(r) \o <<Code(return)>>
    BY <1>3
<1> HIDE DEF w
<1>9. QED
    BY <1>2, <1>5, <1>7, <1>8

-----------------------------------------------------------------------------
(* query_memory finds the block that an address lies in, whatever block is *)
(* the root of each subtree.  The recursive function of Query has the      *)
(* solution Found; that it is the only one follows from a smallest set for *)
(* which another would differ from it.                                     *)
LEMMA QueryFinds ==
    ASSUME NEW pool \in SUBSET Blocks, NEW b \in pool, NEW a \in Nat, InRange(b, a)
    PROVE  Query(pool, a) = {b}
<1> DEFINE Rest(c, S) == IF Size * c < a THEN {d \in S : d > c} ELSE {d \in S : d < c}
           Step(g, S) == IF S = {} THEN {NotFound}
                         ELSE UNION {IF InRange(c, a) THEN {c} ELSE g[Rest(c, S)] : c \in S}
           Find == CHOOSE g : g = [S \in SUBSET pool |-> Step(g, S)]
           Found == [S \in SUBSET pool |-> IF b \in S THEN {b} ELSE {NotFound}]
<1>1. Query(pool, a) = Find[pool]
    BY DEF Query
<1>2. pool \subseteq Nat /\ Blocks \subseteq Nat /\ IsFiniteSet(pool)
  <2>1. Blocks \subseteq Nat
    BY DEF Blocks
  <2>2. IsFiniteSet(Blocks)
    BY Sizes, FS_Interval DEF Blocks
  <2>3. QED
    BY <2>1, <2>2, FS_Subset
<1>3. \A c \in pool : /\ InRange(c, a) => c = b
                      /\ c # b => (Size * c < a <=> c < b)
    BY <1>2 DEF InRange, Size, Top, Header
<1>4. \A S \in SUBSET pool : \A c \in S : ~InRange(c, a) =>
         /\ Rest(c, S) \in SUBSET pool /\ Rest(c, S) \subseteq S /\ c \notin Rest(c, S)
         /\ b \in Rest(c, S) <=> b \in S
  <2> SUFFICES ASSUME NEW S \in SUBSET pool, NEW c \in S, ~InRange(c, a)
               PROVE  /\ Rest(c, S) \in SUBSET pool
                      /\ Rest(c, S) \subseteq S /\ c \notin Rest(c, S)
                      /\ b \in Rest(c, S) <=> b \in S
    OBVIOUS
  <2>1. c # b /\ c \in Nat /\ b \in Nat /\ S \subseteq Nat
    BY <1>2
  <2>2. Rest(c, S) = IF c < b THEN {d \in S : d > c} ELSE {d \in S : d < c}
    BY <1>3, <2>1
  <2> HIDE DEF Rest
  <2>3. CASE c < b
    <3>1. Rest(c, S) = {d \in S : d > c}
        BY <2>2, <2>3
    <3>2. Rest(c, S) \subseteq S
        BY <3>1
    <3>3. c \notin Rest(c, S)
        BY <2>1, <3>1
    <3>4. b \in Rest(c, S) <=> b \in S
        BY <2>1, <2>3, <3>1
    <3>5. Rest(c, S) \in SUBSET pool
        BY <3>2
    <3>6. QED
        BY <3>2, <3>3, <3>4, <3>5
  <2>4. CASE ~(c < b)
    <3>1. Rest(c, S) = {d \in S : d < c} /\ b < c
        BY <2>1, <2>2, <2>4
    <3>2. Rest(c, S) \subseteq S
        BY <3>1
    <3>3. c \notin Rest(c, S)
        BY <2>1, <3>1
    <3>4. b \in Rest(c, S) <=> b \in S
        BY <2>1, <3>1
    <3>5. Rest(c, S) \in SUBSET pool
        BY <3>2
    <3>6. QED
        BY <3>2, <3>3, <3>4, <3>5
  <2>5. QED
    BY <2>3, <2>4
<1> HIDE DEF Rest
<1>5. \A S \in SUBSET pool : Step(Found, S) = Found[S]
  <2> SUFFICES ASSUME NEW S \in SUBSET pool PROVE Step(Found, S) = Found[S]
    OBVIOUS
  <2>1. \A c \in S : (IF InRange(c, a) THEN {c} ELSE Found[Rest(c, S)]) = Found[S]
    BY <1>3, <1>4
  <2>2. QED
    BY <2>1
<1>6. Find = [S \in SUBSET pool |-> Step(Find, S)]
  <2>1. Found = [S \in SUBSET pool |-> Step(Found, S)]
    BY <1>5
  <2> HIDE DEF Found, Step
  <2>2. QED
    BY <2>1
<1> HIDE DEF Find
<1>7. ASSUME NEW S \in SUBSET pool, Find[S] # Found[S] PROVE FALSE
  <2> DEFINE Wrong == {R \in SUBSET pool : Find[R] # Found[R]}
  <2>1. Wrong \subseteq FiniteSubsetsOf(pool) /\ Wrong # {}
    BY <1>2, <1>7, FS_Subset DEF FiniteSubsetsOf
  <2>2. \E R \in Wrong : \A Q \in Wrong : ~(<<Q, R>> \in StrictSubsetOrdering(pool))
    BY <2>1, WFMin, FS_StrictSubsetOrderingWellFounded
  <2>3. PICK R \in Wrong : \A Q \in Wrong : ~(<<Q, R>> \in StrictSubsetOrdering(pool))
    BY <2>2
  <2>6. \A Q \in SUBSET pool : Q \subseteq R /\ Q # R => Find[Q] = Found[Q]
    BY <2>3 DEF StrictSubsetOrdering
  <2>7. R \in SUBSET pool /\ Find[R] # Found[R]
    BY <2>3
  <2> HIDE DEF Wrong, Found
  <2>8. Step(Find, R) = Step(Found, R)
    <3>1. \A c \in R : ~InRange(c, a) => Find[Rest(c, R)] = Found[Rest(c, R)]
        BY <1>4, <2>6, <2>7
    <3>2. \A c \in R : (IF InRange(c, a) THEN {c} ELSE Find[Rest(c, R)])
                         = (IF InRange(c, a) THEN {c} ELSE Found[Rest(c, R)])
        BY <3>1
    <3>3. QED
        BY <3>2
  <2>9. Find[R] = Step(Find, R)
    BY <1>6, <2>7
  <2>10. QED
    BY <1>5, <2>7, <2>8, <2>9
<1>8. QED
    BY <1>1, <1>7

-----------------------------------------------------------------------------
(* What is left to show of a step of t.                                    *)
LEMMA Assemble ==
    ASSUME FrameInv, NEW t \in Threads, StepOf(t),
           FrameTypeOK', Once', ThreadOK(t)', CellOK(t)',
           \A b \in fiber_pool' : mem'[Top(b)] = <<"block", b>>,
           \A f \in Range(fiber_list') \ Range(fiber_list) :
               Runnable(f)' /\ Links(mem', f),
           \A f \in Range(disposed_fiber_list') \ Range(disposed_fiber_list) :
               Recycled(f)' /\ Links(mem', f)
    PROVE  FrameInv'
<1>1. ListsOK'
    BY ListsKept
<1>2. \A u \in Threads : ThreadOK(u)' /\ CellOK(u)'
    BY OthersKept
<1>3. QED
    BY <1>1, <1>2 DEF FrameInv, Headers

LEMMA HoldsKept ==
    ASSUME FrameInv, NEW t \in Threads, StepOf(t), NEW u \in Threads \ {t}, NEW s
    PROVE  /\ Holds("run", u, s)' => Holds("run", u, s)
           /\ Holds("node", u, s)' => Holds("node", u, s)
           /\ Holds("deferred", u, s)' => Holds("deferred", u, s)
<1>1. sp'[u] = sp[u] /\ pc'[u] = pc[u] /\ node'[u] = node[u]
    BY DEF StepOf
<1>2. pc[u] = "unaryop" => Data(u)' = Data(u)
    BY DataKept
<1>3. QED
    BY <1>1, <1>2 DEF Holds

(* The places that t does not have a part in stay as they are.             *)
LEMMA MovesBy ==
    ASSUME FrameInv, NEW t \in Threads, StepOf(t),
           NEW k0 \in Kinds, NEW h0 \in Nat, NEW k1 \in Kinds, NEW h1 \in Nat,
           k0 \in {"list", "disposed"} \/ h0 = t,
           \A s \in FiberStacks, k \in {"run", "node", "deferred"} : Holds(k, t, s)' =>
               \/ Holds(k, t, s) /\ <<k, t>> # <<k0, h0>>
               \/ <<k, t>> = <<k1, h1>> /\ Holds(k0, h0, s),
           \A s \in FiberStacks, k \in {"list", "disposed"}, f \in Nat : Holds(k, f, s)' =>
               \/ Holds(k, f, s) /\ <<k, f>> # <<k0, h0>>
               \/ <<k, f>> = <<k1, h1>> /\ Holds(k0, h0, s)
    PROVE  Moves(k0, h0, k1, h1)
<1> SUFFICES ASSUME NEW s \in FiberStacks, NEW k \in Kinds, NEW h \in Nat, Holds(k, h, s)'
             PROVE  \/ Holds(k, h, s) /\ <<k, h>> # <<k0, h0>>
                    \/ <<k, h>> = <<k1, h1>> /\ Holds(k0, h0, s)
    BY DEF Moves
<1>1. CASE k \in {"list", "disposed"}
    BY <1>1
<1>2. CASE k \in {"run", "node", "deferred"} /\ h = t
    BY <1>2
<1>3. CASE k \in {"run", "node", "deferred"} /\ h # t
  <2>1. h \in Threads \ {t}
    BY <1>3 DEF Holds
  <2>2. Holds(k, h, s)
    BY <1>3, <2>1, HoldsKept
  <2>3. <<k, h>> # <<k0, h0>>
    BY <1>3
  <2>4. QED
    BY <2>2, <2>3
<1>4. QED
    BY <1>1, <1>2, <1>3 DEF Kinds

LEMMA StaysBy ==
    ASSUME FrameInv, NEW t \in Threads, StepOf(t), FiberStacks' = FiberStacks, UNCHANGED lists,
           \A s \in FiberStacks, k \in {"run", "node", "deferred"} :
               Holds(k, t, s)' => Holds(k, t, s)
    PROVE  Once'
<1>1. Once
    BY DEF FrameInv
<1> SUFFICES ASSUME NEW s \in FiberStacks, NEW k \in Kinds, NEW h \in Nat, Holds(k, h, s)'
             PROVE  Holds(k, h, s)
    BY <1>1, OnceStays
<1>2. CASE k \in {"list", "disposed"}
    BY <1>2 DEF Holds, lists
<1>3. CASE k \in {"run", "node", "deferred"} /\ h = t
    BY <1>3
<1>4. CASE k \in {"run", "node", "deferred"} /\ h # t
  <2>1. h \in Threads \ {t}
    BY <1>4 DEF Holds
  <2>2. QED
    BY <1>4, <2>1, HoldsKept
<1>5. QED
    BY <1>2, <1>3, <1>4 DEF Kinds

-----------------------------------------------------------------------------
(* Steps that only pop words.                                              *)
LEMMA PopStep ==
    ASSUME FrameInv, NEW t \in Threads, NEW a \in Addr, NEW l \in Labels, NEW r,
           UNCHANGED <<mem, node, lists, fiber_pool>>,
           sp' = [sp EXCEPT ![t] = a],
           pc' = [pc EXCEPT ![t] = l],
           regs' = [regs EXCEPT ![t] = r],
           StackOf(a) = StackOf(sp[t]),
           l \notin {"enqueue", "recycle", "dispatch", "spawn", "unaryop"},
           ThreadOK(t)'
    PROVE  FrameInv'
<1>1. FrameTypeOK /\ CellOK(t) /\ Headers
    BY DEF FrameInv
<1>2. sp'[t] = a /\ pc'[t] = l
    BY <1>1 DEF FrameTypeOK
<1>3. StepOf(t)
    BY <1>1 DEF StepOf, FrameTypeOK
<1>4. FrameTypeOK'
    BY <1>1 DEF FrameTypeOK, lists
<1>5. CellOK(t)'
    BY <1>1, <1>2 DEF CellOK
<1>6. FiberStacks' = FiberStacks
    BY DEF FiberStacks, FiberBlocks
<1>7. Once'
    BY <1>2, <1>3, <1>6, StaysBy DEF Holds
<1>8. \A b \in fiber_pool' : mem'[Top(b)] = <<"block", b>>
    BY <1>1 DEF Headers
<1>9. QED
    BY <1>3, <1>4, <1>5, <1>7, <1>8, Assemble DEF lists

LEMMA EntryReturnStep ==
    ASSUME FrameInv, NEW t \in Threads, EntryReturn(t)
    PROVE  FrameInv'
<1> DEFINE s == StackOf(sp[t])
<1>1. FrameTypeOK /\ ThreadOK(t) /\ pc[t] = "user" /\ s \in Blocks
    BY DEF FrameInv, EntryReturn
<1>2. s \in FiberStacks /\ sp[t] = Base(s) - 0 /\ Called(mem, s)
    BY <1>1 DEF ThreadOK, InFiber
<1>3. s \in FiberBlocks /\ s \in Stacks /\ s \in Nat
    BY <1>1, <1>2, StackKinds, RegionIs DEF FrameTypeOK, FiberStacks
<1>4. sp[t] = 30 * s + 22 /\ Top(s) = 30 * s + 28 /\ Top(s) - 5 = sp[t] + 1
    BY <1>1, <1>2, <1>3, BaseIs
<1>5. mem[sp[t] + 1] = Code("entered") /\ mem[Top(s) - 2] = Code("exit")
    BY <1>1, <1>2, <1>4 DEF Called
<1>6. /\ sp' = [sp EXCEPT ![t] = sp[t] + 2]
      /\ pc' = [pc EXCEPT ![t] = "entered"]
      /\ UNCHANGED <<mem, regs, node, lists, fiber_pool>>
  <2>1. mem[sp[t] + 1][1] = "code" /\ mem[sp[t] + 1][2] = "entered"
    BY <1>5, Words
  <2>2. sp[t] + 1 + 1 = sp[t] + 2
    BY <1>3, <1>4
  <2>3. QED
    BY <2>1, <2>2 DEF EntryReturn, Ret, GoTo
<1>7. sp[t] + 2 \in Addr /\ StackOf(sp[t] + 2) = s
  <2>1. sp[t] + 2 \in Nat /\ 30 * s <= sp[t] + 2 /\ sp[t] + 2 < 30 * s + 30
    BY <1>3, <1>4
  <2>2. QED
    BY <1>3, <2>1, RegionIs
<1>8. sp'[t] = sp[t] + 2 /\ pc'[t] = "entered"
    BY <1>1, <1>6 DEF FrameTypeOK
<1>9. ThreadOK(t)'
    BY <1>3, <1>4, <1>5, <1>6, <1>7, <1>8 DEF ThreadOK, FiberBlocks
<1>10. regs' = [regs EXCEPT ![t] = regs[t]]
    BY <1>1, <1>6 DEF FrameTypeOK
<1>11. "entered" \in Labels
    BY DEF Labels
<1>12. QED
    BY <1>6, <1>7, <1>9, <1>10, <1>11, PopStep

(* Which word is popped where a thread can go on.                          *)
LEMMA PopsCode ==
    ASSUME FrameTypeOK, NEW t \in Threads, NEW x, GoesOn(t, x)
    PROVE  \/ mem[x] = Code("resume")
           \/ mem[x] = Code("entrance")
BY DEF GoesOn, FiberAt, LoopAt, Fresh, Yielded, Looping, Frame

LEMMA UnaryopReturnStep ==
    ASSUME FrameInv, NEW t \in Threads, UnaryopReturn(t)
    PROVE  FrameInv'
<1> DEFINE s == StackOf(sp[t])
<1>1. FrameTypeOK /\ ThreadOK(t) /\ pc[t] = "unaryopreturn"
    BY DEF FrameInv, UnaryopReturn
<1>2. PICK x \in Nat : x = sp[t] + 3 /\ GoesOn(t, x)
  <2>1. sp[t] \in Nat
    BY <1>1 DEF FrameTypeOK, Addr
  <2>2. QED
    BY <1>1, <2>1 DEF ThreadOK
<1>3. s \in Stacks
    BY <1>1, RunsOn, StackKinds DEF FrameTypeOK
<1>4. s \in Nat /\ 30 * s + 7 <= x /\ x <= 30 * s + 23
    BY <1>2, <1>3, PopIs, RegionIs
<1>5. x + 1 \in Addr /\ StackOf(x + 1) = s
    BY <1>2, <1>3, <1>4, RegionIs
<1>6. PICK l \in {"resume", "entrance"} : mem[x] = Code(l)
    BY <1>1, <1>2, PopsCode
<1>7. /\ sp' = [sp EXCEPT ![t] = x + 1]
      /\ pc' = [pc EXCEPT ![t] = l]
      /\ UNCHANGED <<mem, regs, node, lists, fiber_pool>>
    BY <1>2, <1>6, Words DEF UnaryopReturn, Ret, GoTo
<1>8. sp'[t] = x + 1 /\ pc'[t] = l /\ sp'[t] - 1 = x
    BY <1>1, <1>2, <1>7 DEF FrameTypeOK
<1>9. GoesOn(t, x)'
    BY <1>2, <1>5, <1>7, <1>8 DEF GoesOn, FiberStacks, FiberBlocks
<1>10. ThreadOK(t)'
    BY <1>6, <1>7, <1>8, <1>9 DEF ThreadOK
<1>11. regs' = [regs EXCEPT ![t] = regs[t]]
    BY <1>1, <1>7 DEF FrameTypeOK
<1>12. l \in Labels
    BY DEF Labels
<1>13. QED
    BY <1>5, <1>7, <1>10, <1>11, <1>12, PopStep

(* The registers are popped into those they were pushed from.              *)
LEMMA Registers ==
    /\ Range(Popped) = Range(Pushed)
    /\ \A r \in Range(Popped) :
          \E j \in 1..7 : j = (CHOOSE i \in 1..7 : Popped[i] = r) /\ Popped[j] = r
<1>1. Range(Popped) = {"rbp", "rax", "rbx", "r12", "r13", "r14", "r15"}
    BY DEF Popped, Range
<1>2. Range(Pushed) = {"rbp", "rax", "rbx", "r12", "r13", "r14", "r15"}
    BY DEF Pushed, Range
<1>3. DOMAIN Popped = 1..7
    BY DEF Popped
<1>4. \A r \in Range(Popped) :
          \E j \in 1..7 : j = (CHOOSE i \in 1..7 : Popped[i] = r) /\ Popped[j] = r
    BY <1>3 DEF Range
<1>5. QED
    BY <1>1, <1>2, <1>4

LEMMA SwitchReturnStep ==
    ASSUME FrameInv, NEW t \in Threads, SwitchReturn(t)
    PROVE  FrameInv'
<1> DEFINE s == StackOf(sp[t])
<1>1. FrameTypeOK /\ ThreadOK(t) /\ pc[t] = "resume" /\ sp[t] \in Nat
    BY DEF FrameInv, SwitchReturn, FrameTypeOK, Addr
<1>2. PICK x : x = sp[t] - 1 /\ GoesOn(t, x) /\ mem[x] = Code("resume")
    BY <1>1 DEF ThreadOK
<1>3. s \in Stacks
    BY <1>1, RunsOn, StackKinds DEF FrameTypeOK
<1>4. x \in Nat /\ s \in Nat /\ 30 * s + 7 <= x /\ sp[t] = x + 1
    BY <1>1, <1>2, <1>3, PopIs, RegionIs
<1>5. \/ s \in FiberStacks /\ Yielded(mem, s, x)
      \/ s = LoopStack(t) /\ Looping(mem, s, x)
    BY <1>2, Words DEF GoesOn, FiberAt, LoopAt, Fresh
<1>6. /\ Base(s) \in Nat /\ 30 * s + 22 <= Base(s) /\ Base(s) <= 30 * s + 28
      /\ StackOf(Base(s)) = s /\ Base(s) \in Addr
    BY <1>3, BaseIs, RegionIs
<1>7. regs' = [regs EXCEPT ![t] = Own(s)] /\ UNCHANGED <<mem, node, lists, fiber_pool>>
  <2>1. \A i \in 1..7 : mem[sp[t] - 1 + i] = <<Popped[i], s>>
    BY <1>2, <1>5 DEF Yielded, Looping, Frame
  <2>2. ASSUME NEW r \in Range(Popped)
        PROVE  mem[sp[t] + (CHOOSE i \in 1..7 : Popped[i] = r) - 1] = <<r, s>>
    <3>1. PICK j \in 1..7 : j = (CHOOSE i \in 1..7 : Popped[i] = r) /\ Popped[j] = r
        BY Registers
    <3>2. sp[t] + j - 1 = sp[t] - 1 + j
        BY <1>1
    <3>3. QED
        BY <2>1, <3>1, <3>2
  <2>3. [r \in Range(Popped) |-> mem[sp[t] + (CHOOSE i \in 1..7 : Popped[i] = r) - 1]]
          = Own(s)
    BY <2>2, Registers DEF Own
  <2>4. QED
    BY <2>3 DEF SwitchReturn
<1>8. ASSUME s \in FiberStacks, Yielded(mem, s, x) PROVE FrameInv'
  <2>1. x = Base(s) - 15 /\ Called(mem, s)
    BY <1>8 DEF Yielded
  <2>2. mem[sp[t] + 7] = Code("yielded") /\ mem[sp[t] + 7 + 1 + 5] = Code("user")
    <3>1. sp[t] + 7 = x + 8 /\ sp[t] + 7 + 1 + 5 = x + 14
        BY <1>4
    <3>2. QED
        BY <1>8, <3>1 DEF Yielded, Frame
  <2>3. /\ sp' = [sp EXCEPT ![t] = Base(s)]
        /\ pc' = [pc EXCEPT ![t] = "user"]
    <3>1. sp[t] + 7 + 1 + 5 + 1 = Base(s)
        BY <1>4, <1>6, <2>1
    <3>2. QED
        BY <2>2, <3>1, Words DEF SwitchReturn, Ret, GoTo
  <2>4. sp'[t] = Base(s) /\ pc'[t] = "user" /\ regs'[t] = Own(s)
    BY <1>1, <1>7, <2>3 DEF FrameTypeOK
  <2>5. InFiber(t, 0)'
    BY <1>6, <1>7, <1>8, <2>1, <2>4 DEF InFiber, FiberStacks, FiberBlocks
  <2>6. ThreadOK(t)'
    BY <2>4, <2>5 DEF ThreadOK
  <2>7. "user" \in Labels
    BY DEF Labels
  <2>8. QED
    BY <1>6, <1>7, <2>3, <2>6, <2>7, PopStep
<1>9. ASSUME s = LoopStack(t), Looping(mem, s, x) PROVE FrameInv'
  <2>1. x = Base(s) - 9 /\ sp[t] + 7 = x + 8
    BY <1>4, <1>9 DEF Looping
  <2>2. mem[sp[t] + 7] = Code("loop")
    BY <1>9, <2>1 DEF Looping, Frame
  <2>3. /\ sp' = [sp EXCEPT ![t] = Base(s)]
        /\ pc' = [pc EXCEPT ![t] = "loop"]
    <3>1. sp[t] + 7 + 1 = Base(s)
        BY <1>4, <1>6, <2>1
    <3>2. mem[sp[t] + 7] # Code("yielded")
        BY <2>2, Words
    <3>3. QED
        BY <2>2, <3>1, <3>2, Words DEF SwitchReturn, Ret, GoTo
  <2>4. sp'[t] = Base(s) /\ pc'[t] = "loop" /\ regs'[t] = Own(s)
    BY <1>1, <1>7, <2>3 DEF FrameTypeOK
  <2>5. InLoop(t)'
    BY <1>9, <2>4 DEF InLoop
  <2>6. ThreadOK(t)'
    BY <2>4, <2>5 DEF ThreadOK
  <2>7. "loop" \in Labels
    BY DEF Labels
  <2>8. QED
    BY <1>6, <1>7, <2>3, <2>6, <2>7, PopStep
<1>10. QED
    BY <1>5, <1>8, <1>9

-----------------------------------------------------------------------------
(* Steps in which C code writes below address a of its own stack only.     *)
OthersStay(t) ==
    \A u \in Threads \ {t} :
        sp'[u] = sp[u] /\ pc'[u] = pc[u] /\ node'[u] = node[u] /\ regs'[u] = regs[u]

WritesBelow(t, a) ==
    /\ IsMemory(mem')
    /\ \A x \in Addr : StackOf(x) # StackOf(sp[t]) \/ a <= x => mem'[x] = mem[x]
    /\ OthersStay(t)
    /\ fiber_pool' = fiber_pool
    /\ StackOf(sp'[t]) = StackOf(sp[t])

LEMMA OwnWrite ==
    ASSUME FrameInv, NEW t \in Threads, NEW a \in Nat, a <= Top(StackOf(sp[t])),
           WritesBelow(t, a)
    PROVE  /\ StepOf(t) /\ CellOK(t)'
           /\ FiberStacks' = FiberStacks /\ FiberBlocks' = FiberBlocks
           /\ \A b \in fiber_pool' : mem'[Top(b)] = <<"block", b>>
<1> DEFINE s == StackOf(sp[t])
<1>1. FrameTypeOK /\ CellOK(t) /\ Headers /\ ThreadOK(t)
    BY DEF FrameInv
<1>2. s \in Stacks
    BY <1>1, RunsOn, StackKinds DEF FrameTypeOK
<1>3. Uses(t, s)
    BY DEF Uses, Holds
<1>4. StepOf(t)
    BY <1>1, <1>3 DEF StepOf, WritesBelow, OthersStay, FrameTypeOK
<1>5. CellOK(t)'
  <2> SUFFICES ASSUME s # LoopStack(t)
               PROVE  \E x \in Addr : mem'[Cell(t)] = Ptr(x) /\ LoopAt(mem', LoopStack(t), x)
    BY DEF CellOK, WritesBelow
  <2>1. PICK x \in Addr : mem[Cell(t)] = Ptr(x) /\ LoopAt(mem, LoopStack(t), x)
    BY <1>1 DEF CellOK
  <2>2. Cell(t) \in Addr /\ StackOf(Cell(t)) # s
    BY <1>2, CellIs
  <2>3. LoopStack(t) \in Stacks
    BY <1>1, StackKinds DEF FrameTypeOK
  <2>4. \A y \in Region(LoopStack(t)) : y \in Addr /\ StackOf(y) = LoopStack(t)
    BY <2>3, RegionIs DEF Addr
  <2>5. \A y \in Region(LoopStack(t)) : mem'[y] = mem[y]
    BY <2>4 DEF WritesBelow
  <2>6. QED
    BY <2>1, <2>2, <2>3, <2>5, SameWords DEF WritesBelow
<1>6. ASSUME NEW b \in fiber_pool PROVE mem'[Top(b)] = <<"block", b>>
  <2>1. b \in Stacks
    BY <1>1, StackKinds DEF FrameTypeOK
  <2>2. Top(b) = 30 * b + 28 /\ b \in Nat
    BY <2>1, BaseIs, RegionIs
  <2>3. Top(b) \in Addr /\ StackOf(Top(b)) = b
    BY <2>1, <2>2, RegionIs
  <2>4. mem'[Top(b)] = mem[Top(b)]
    BY <2>3 DEF WritesBelow
  <2>5. QED
    BY <1>1, <2>4 DEF Headers
<1>7. QED
    BY <1>4, <1>5, <1>6 DEF WritesBelow, FiberStacks, FiberBlocks

(* get_available_fiber: t takes the first struct of fiber_list.            *)
LEMMA Taken ==
    ASSUME FrameInv, NEW t \in Threads, StepOf(t), FiberStacks' = FiberStacks,
           fiber_list # <<>>,
           node' = [node EXCEPT ![t] = Head(fiber_list)],
           fiber_list' = Tail(fiber_list), UNCHANGED disposed_fiber_list,
           StackOf(sp'[t]) = StackOf(sp[t]), pc'[t] # "unaryop"
    PROVE  /\ node' \in [Threads -> Addr] /\ fiber_list' \in Seq(Addr)
           /\ node'[t] # Cell(t)
           /\ Runnable(node[t])'
           /\ Range(fiber_list') \subseteq Range(fiber_list)
           /\ Once'
<1>1. PICK f : f = Head(fiber_list)
    OBVIOUS
<1>2. FrameTypeOK /\ Once /\ ListsOK
    BY DEF FrameInv
<1>3. /\ f \in Addr /\ f \in Range(fiber_list) /\ fiber_list' \in Seq(Addr)
      /\ IsInjective(fiber_list')
      /\ Range(fiber_list') = Range(fiber_list) \ {f}
    BY <1>1, <1>2, TakeHead DEF FrameTypeOK, Once
<1>4. node'[t] = f /\ node' \in [Threads -> Addr] /\ f \in Nat /\ t \in Nat
    BY <1>1, <1>2, <1>3 DEF FrameTypeOK, Addr, Threads
<1>5. Runnable(f) /\ StackOf(f) \in FiberStacks /\ StackOf(f) \in Stacks
    BY <1>2, <1>3, StackKinds DEF ListsOK, Runnable, FrameTypeOK
<1>6. f # Cell(t)
    BY <1>5, CellIs
<1>7. ~Uses(t, StackOf(f))
    BY <1>3, Apart
<1>8. Runnable(f)'
    BY <1>5, <1>7, RunnableKept
<1>9. Runnable(node[t])'
    BY <1>4, <1>8 DEF Runnable
<1>10. \A s \in FiberStacks, k \in {"run", "node", "deferred"} : Holds(k, t, s)' =>
          \/ Holds(k, t, s) /\ <<k, t>> # <<"list", f>>
          \/ <<k, t>> = <<"node", t>> /\ Holds("list", f, s)
    BY <1>3, <1>4 DEF Holds
<1>11. \A s \in FiberStacks, k \in {"list", "disposed"}, g \in Nat : Holds(k, g, s)' =>
          \/ Holds(k, g, s) /\ <<k, g>> # <<"list", f>>
          \/ <<k, g>> = <<"node", t>> /\ Holds("list", f, s)
    BY <1>3 DEF Holds
<1>12. Moves("list", f, "node", t)
    BY <1>4, <1>10, <1>11, MovesBy DEF Kinds
<1>13. Once'
    BY <1>2, <1>3, <1>4, <1>12, OnceMoved DEF Kinds, Once
<1>14. QED
    BY <1>3, <1>4, <1>6, <1>9, <1>13

LEMMA Entering ==
    ASSUME FrameInv, NEW t \in Threads, NEW l,
           sp[t] = Base(StackOf(sp[t])) \/ sp[t] = Top(StackOf(sp[t])) - 4,
           EnterWithStruct(t, sp[t], l)
    PROVE  /\ IsMemory(mem')
           /\ \A x \in Addr : StackOf(x) # StackOf(sp[t]) \/ sp[t] <= x => mem'[x] = mem[x]
           /\ mem'[sp[t] - 1] = Code(l)
           /\ sp' \in [Threads -> Addr] /\ sp'[t] = sp[t] - 6
           /\ StackOf(sp'[t]) = StackOf(sp[t])
           /\ sp[t] \in Nat /\ sp[t] <= Top(StackOf(sp[t]))
<1> DEFINE s == StackOf(sp[t])
<1>1. FrameTypeOK
    BY DEF FrameInv
<1>2. s \in Stacks /\ s \in Nat
    BY <1>1, RunsOn, StackKinds, RegionIs DEF FrameTypeOK, FrameInv
<1>3. PICK a \in Nat : a = sp[t] /\ 30 * s + 22 <= a /\ a <= 30 * s + 28
    BY <1>2, BaseIs
<1>4. a - 6 \in Addr /\ StackOf(a - 6) = s /\ a - 1 \in Addr /\ StackOf(a - 1) = s
  <2>1. a - 6 \in Nat /\ a - 1 \in Nat /\ 30 * s <= a - 6 /\ a - 1 < 30 * s + 30
    BY <1>2, <1>3
  <2>2. QED
    BY <1>2, <1>3, <2>1, RegionIs
<1> DEFINE m == Write(mem, a - 1, <<Code(l)>>)
<1>5. /\ m[a - 1] = Code(l)
      /\ \A x \in Addr : x # a - 1 => m[x] = mem[x]
  <2>1. PICK b \in Addr : b = a - 1
    BY <1>4
  <2>2. PICK c : c = Code(l)
    OBVIOUS
  <2>3. m = Write(mem, b, <<c>>)
    BY <2>1, <2>2
  <2>4. \E n : /\ n = Write(mem, b, <<c>>)
               /\ n[b] = c
               /\ \A x \in Addr : x # b => n[x] = mem[x]
    BY WriteOne
  <2> HIDE DEF m
  <2>5. QED
    BY <2>1, <2>2, <2>3, <2>4
<1>6. /\ mem' = Scribble(m, a - 6)
      /\ sp' = [sp EXCEPT ![t] = a - 6]
    BY <1>3 DEF EnterWithStruct
<1> HIDE DEF m
<1>7. /\ IsMemory(mem')
      /\ \A x \in Addr : StackOf(x) # s \/ a - 6 <= x => mem'[x] = m[x]
  <2>1. PICK b \in Nat : b = a - 6 /\ StackOf(b) = s
    BY <1>4 DEF Addr
  <2>2. mem' = Scribble(m, b)
    BY <1>6, <2>1
  <2>3. \A x \in Addr : StackOf(x) # StackOf(b) \/ b <= x => Scribble(m, b)[x] = m[x]
    BY ScribbleAt
  <2>4. QED
    BY <2>1, <2>2, <2>3, MemoryStays
<1>8. \A x \in Addr : StackOf(x) # s \/ a <= x => mem'[x] = mem[x]
  <2>1. \A x \in Addr : StackOf(x) # s => x # a - 1
    BY <1>4
  <2>2. \A x \in Addr : x \in Nat
    BY DEF Addr
  <2>3. QED
    BY <1>3, <1>5, <1>7, <2>1, <2>2
<1>9. mem'[a - 1] = Code(l)
    BY <1>3, <1>4, <1>5, <1>7
<1>10. sp' \in [Threads -> Addr] /\ sp'[t] = a - 6
    BY <1>1, <1>4, <1>6 DEF FrameTypeOK
<1>11. a <= Top(s)
    BY <1>2, <1>3, BaseIs
<1>12. QED
    BY <1>3, <1>4, <1>7, <1>8, <1>9, <1>10, <1>11

LEMMA YieldStep ==
    ASSUME FrameInv, NEW t \in Threads, Yield(t)
    PROVE  FrameInv'
<1> DEFINE s == StackOf(sp[t])
<1>1. FrameTypeOK /\ ThreadOK(t) /\ pc[t] = "user"
    BY DEF FrameInv, Yield
<1>2. s \in FiberStacks /\ sp[t] = Base(s) - 0 /\ Called(mem, s) /\ regs[t] = Own(s)
    BY <1>1 DEF ThreadOK, InFiber
<1>3. s \in Stacks /\ s \in Nat
    BY <1>1, <1>2, StackKinds, RegionIs DEF FrameTypeOK
<1>4. sp[t] = Base(s) /\ Base(s) \in Nat /\ 30 * s + 22 <= Base(s)
    BY <1>2, <1>3, BaseIs
<1>5. /\ fiber_list # <<>>
      /\ node' = [node EXCEPT ![t] = Head(fiber_list)]
      /\ fiber_list' = Tail(fiber_list) /\ UNCHANGED disposed_fiber_list
      /\ EnterWithStruct(t, sp[t], "user")
      /\ pc' = [pc EXCEPT ![t] = "enqueue"]
      /\ UNCHANGED <<regs, fiber_pool>>
    BY <1>1 DEF Yield, GetAvailableFiber, GoTo, lists
<1>6. /\ IsMemory(mem')
      /\ \A x \in Addr : StackOf(x) # s \/ sp[t] <= x => mem'[x] = mem[x]
      /\ mem'[sp[t] - 1] = Code("user")
      /\ sp' \in [Threads -> Addr] /\ sp'[t] = sp[t] - 6
      /\ StackOf(sp'[t]) = s
      /\ sp[t] \in Nat /\ sp[t] <= Top(s)
    BY <1>4, <1>5, Entering
<1>7. OthersStay(t)
    BY <1>1, <1>5 DEF OthersStay, FrameTypeOK, EnterWithStruct
<1>8. WritesBelow(t, sp[t])
    BY <1>5, <1>6, <1>7 DEF WritesBelow
<1>9. /\ StepOf(t) /\ CellOK(t)' /\ FiberStacks' = FiberStacks
      /\ \A b \in fiber_pool' : mem'[Top(b)] = <<"block", b>>
    BY <1>6, <1>8, OwnWrite
<1>10. pc'[t] = "enqueue" /\ regs'[t] = Own(s) /\ pc' \in [Threads -> Labels]
    BY <1>1, <1>2, <1>5 DEF FrameTypeOK, Labels
<1>11. /\ node' \in [Threads -> Addr] /\ fiber_list' \in Seq(Addr)
       /\ node'[t] # Cell(t)
       /\ Runnable(node[t])'
       /\ Range(fiber_list') \subseteq Range(fiber_list)
       /\ Once'
    BY <1>5, <1>6, <1>9, <1>10, Taken
<1>12. Called(mem', s)
  <2>1. \A x \in Addr : sp[t] <= x => mem'[x] = mem[x]
    BY <1>6
  <2>2. Base(s) \in Addr /\ Top(s) - 5 \in Addr /\ Top(s) - 2 \in Addr
    <3>1. \A x \in Nat : 30 * s <= x /\ x < 30 * s + 30 => x \in Addr
        BY <1>3, RegionIs
    <3>2. Top(s) - 5 \in Nat /\ Top(s) - 2 \in Nat /\ Top(s) = 30 * s + 28
        BY <1>3, BaseIs
    <3>3. QED
        BY <1>3, <1>4, <3>1, <3>2, BaseIs
  <2>3. s \in Blocks => Top(s) = Base(s) + 6
    BY <1>3, BaseIs
  <2>4. QED
    BY <1>2, <1>4, <2>1, <2>2, <2>3 DEF Called
<1>13. InFiber(t, 6)'
    BY <1>2, <1>4, <1>6, <1>9, <1>10, <1>12 DEF InFiber
<1>14. mem'[Base(s) - 1] = Code("user")
    BY <1>4, <1>6
<1>15. ThreadOK(t)'
    BY <1>6, <1>10, <1>11, <1>13, <1>14 DEF ThreadOK, Chosen
<1>16. FrameTypeOK'
    BY <1>1, <1>5, <1>6, <1>10, <1>11 DEF FrameTypeOK
<1>17. QED
    BY <1>5, <1>9, <1>11, <1>15, <1>16, Assemble

LEMMA ExitStep ==
    ASSUME FrameInv, NEW t \in Threads, Exit(t)
    PROVE  FrameInv'
<1> DEFINE s == StackOf(sp[t])
<1>1. FrameTypeOK /\ ThreadOK(t) /\ pc[t] = "entered"
    BY DEF FrameInv, Exit
<1>2. s \in FiberBlocks /\ sp[t] = Top(s) - 4
    BY <1>1 DEF ThreadOK
<1>3. s \in Stacks /\ s \in Nat /\ Top(s) = 30 * s + 28
    BY <1>1, <1>2, StackKinds, RegionIs, BaseIs DEF FrameTypeOK, FiberStacks
<1>4. /\ EnterWithStruct(t, sp[t], "exited")
      /\ pc' = [pc EXCEPT ![t] = "recycle"]
      /\ UNCHANGED <<regs, fiber_pool>>
    BY DEF Exit, GoTo
<1>5. /\ IsMemory(mem')
      /\ \A x \in Addr : StackOf(x) # s \/ sp[t] <= x => mem'[x] = mem[x]
      /\ sp' \in [Threads -> Addr] /\ sp'[t] = sp[t] - 6
      /\ StackOf(sp'[t]) = s
      /\ sp[t] \in Nat /\ sp[t] <= Top(s)
    BY <1>2, <1>4, Entering
<1>6. node' = [node EXCEPT ![t] = node'[t]]
  <2>1. node' = [node EXCEPT ![t] = Cell(t)] \/ node' = [node EXCEPT ![t] = Head(fiber_list)]
    BY DEF Exit, GetAvailableFiber
  <2>2. QED
    BY <1>1, <2>1 DEF FrameTypeOK
<1>7. OthersStay(t)
    BY <1>1, <1>4, <1>6 DEF OthersStay, FrameTypeOK, EnterWithStruct
<1>8. WritesBelow(t, sp[t])
    BY <1>4, <1>5, <1>7 DEF WritesBelow
<1>9. /\ StepOf(t) /\ CellOK(t)' /\ FiberStacks' = FiberStacks /\ FiberBlocks' = FiberBlocks
      /\ \A b \in fiber_pool' : mem'[Top(b)] = <<"block", b>>
    BY <1>5, <1>8, OwnWrite
<1>10. pc'[t] = "recycle" /\ pc' \in [Threads -> Labels]
    BY <1>1, <1>4 DEF FrameTypeOK, Labels
<1>11. /\ node' \in [Threads -> Addr] /\ fiber_list' \in Seq(Addr)
       /\ UNCHANGED disposed_fiber_list
       /\ Chosen(t)'
       /\ Range(fiber_list') \subseteq Range(fiber_list)
       /\ Once'
  <2>1. CASE fiber_list # <<>> /\ node' = [node EXCEPT ![t] = Head(fiber_list)]
             /\ fiber_list' = Tail(fiber_list) /\ UNCHANGED disposed_fiber_list
    BY <1>5, <1>9, <1>10, <2>1, Taken DEF Chosen
  <2>2. CASE node' = [node EXCEPT ![t] = Cell(t)] /\ UNCHANGED lists
    <3>1. node' \in [Threads -> Addr] /\ node'[t] = Cell(t)
        BY <1>1, <2>2, CellIs DEF FrameTypeOK
    <3>2. Once'
        BY <1>5, <1>9, <1>10, <2>2, <3>1, StaysBy DEF Holds
    <3>3. QED
        BY <1>1, <2>2, <3>1, <3>2 DEF Chosen, FrameTypeOK, lists
  <2>3. QED
    BY <2>1, <2>2 DEF Exit, GetAvailableFiber
<1>12. sp'[t] = Top(s) - 10
    BY <1>2, <1>3, <1>5
<1>13. ThreadOK(t)'
    BY <1>2, <1>5, <1>9, <1>10, <1>11, <1>12 DEF ThreadOK
<1>14. FrameTypeOK'
    BY <1>1, <1>4, <1>5, <1>10, <1>11 DEF FrameTypeOK
<1>15. QED
    BY <1>9, <1>11, <1>13, <1>14, Assemble

(* C code at its base calls something that returns.                        *)
LEMMA Scribbling ==
    ASSUME FrameInv, NEW t \in Threads, mem' = Scribble(mem, sp[t]),
           sp[t] = Base(StackOf(sp[t])), OthersStay(t), UNCHANGED <<sp, fiber_pool>>
    PROVE  /\ IsMemory(mem')
           /\ StepOf(t) /\ CellOK(t)'
           /\ FiberStacks' = FiberStacks /\ FiberBlocks' = FiberBlocks
           /\ \A b \in fiber_pool' : mem'[Top(b)] = <<"block", b>>
           /\ Called(mem, StackOf(sp[t])) => Called(mem', StackOf(sp[t]))
<1> DEFINE s == StackOf(sp[t])
<1>1. FrameTypeOK
    BY DEF FrameInv
<1>2. s \in Stacks /\ s \in Nat
    BY <1>1, RunsOn, StackKinds, RegionIs DEF FrameTypeOK, FrameInv
<1>3. /\ sp[t] \in Nat /\ 30 * s + 22 <= sp[t] /\ sp[t] <= Top(s)
      /\ Top(s) = 30 * s + 28
      /\ s \in Blocks => Top(s) = sp[t] + 6
    BY <1>2, BaseIs
<1>4. \A x \in Addr : StackOf(x) # s \/ sp[t] <= x => mem'[x] = mem[x]
    BY <1>3, ScribbleAt
<1>5. IsMemory(mem')
    BY MemoryStays
<1>6. WritesBelow(t, sp[t])
    BY <1>4, <1>5 DEF WritesBelow
<1>7. Called(mem, s) => Called(mem', s)
  <2>1. \A x \in Nat : 30 * s <= x /\ x < 30 * s + 30 => x \in Addr
    BY <1>2, RegionIs
  <2>2. Base(s) \in Addr /\ Top(s) - 5 \in Addr /\ Top(s) - 2 \in Addr
    BY <1>2, <1>3, <2>1
  <2>3. QED
    BY <1>3, <1>4, <2>2 DEF Called
<1>8. QED
    BY <1>3, <1>5, <1>6, <1>7, OwnWrite

LEMMA LoopTakeStep ==
    ASSUME FrameInv, NEW t \in Threads, LoopTake(t)
    PROVE  FrameInv'
<1> DEFINE s == StackOf(sp[t])
<1>1. FrameTypeOK /\ ThreadOK(t) /\ pc[t] = "loop"
    BY DEF FrameInv, LoopTake
<1>2. InLoop(t)
    BY <1>1 DEF ThreadOK
<1>3. LoopStack(t) \in Stacks
    BY <1>1, StackKinds DEF FrameTypeOK
<1>4. s = LoopStack(t) /\ sp[t] = Base(s)
    BY <1>2, <1>3, BaseIs, StackOfRegion, RegionIs DEF InLoop
<1>5. /\ fiber_list # <<>>
      /\ node' = [node EXCEPT ![t] = Head(fiber_list)]
      /\ fiber_list' = Tail(fiber_list) /\ UNCHANGED disposed_fiber_list
      /\ mem' = Scribble(mem, sp[t])
      /\ pc' = [pc EXCEPT ![t] = "dispatch"]
      /\ UNCHANGED <<sp, regs, fiber_pool>>
    BY DEF LoopTake, GetAvailableFiber, GoTo, lists
<1>6. OthersStay(t)
    BY <1>1, <1>5 DEF OthersStay, FrameTypeOK
<1>7. /\ StepOf(t) /\ CellOK(t)' /\ FiberStacks' = FiberStacks
      /\ \A b \in fiber_pool' : mem'[Top(b)] = <<"block", b>>
      /\ IsMemory(mem')
    BY <1>4, <1>5, <1>6, Scribbling
<1>8. pc'[t] = "dispatch" /\ pc' \in [Threads -> Labels]
    BY <1>1, <1>5 DEF FrameTypeOK, Labels
<1>9. /\ node' \in [Threads -> Addr] /\ fiber_list' \in Seq(Addr)
      /\ node'[t] # Cell(t)
      /\ Runnable(node[t])'
      /\ Range(fiber_list') \subseteq Range(fiber_list)
      /\ Once'
    BY <1>5, <1>7, <1>8, Taken
<1>10. InLoop(t)'
    BY <1>2, <1>5 DEF InLoop
<1>11. ThreadOK(t)'
    BY <1>8, <1>9, <1>10 DEF ThreadOK
<1>12. FrameTypeOK'
    BY <1>1, <1>5, <1>7, <1>8, <1>9 DEF FrameTypeOK
<1>13. QED
    BY <1>5, <1>7, <1>9, <1>11, <1>12, Assemble

(* get_available_memory takes the first of disposed_fiber_list.            *)
LEMMA SpawnTakeStep ==
    ASSUME FrameInv, NEW t \in Threads, SpawnTake(t)
    PROVE  FrameInv'
<1> DEFINE s == StackOf(sp[t])
<1>1. FrameTypeOK /\ Once /\ ListsOK /\ ThreadOK(t) /\ pc[t] = "user"
    BY DEF FrameInv, SpawnTake
<1>2. s \in FiberStacks /\ sp[t] = Base(s) - 0 /\ Called(mem, s) /\ regs[t] = Own(s)
    BY <1>1 DEF ThreadOK, InFiber
<1>3. s \in Stacks /\ sp[t] = Base(s)
    BY <1>1, <1>2, StackKinds, BaseIs DEF FrameTypeOK
<1>4. PICK f : f = Head(disposed_fiber_list)
    OBVIOUS
<1>5. /\ disposed_fiber_list # <<>>
      /\ node' = [node EXCEPT ![t] = f]
      /\ disposed_fiber_list' = Tail(disposed_fiber_list) /\ UNCHANGED fiber_list
      /\ mem' = Scribble(mem, sp[t])
      /\ pc' = [pc EXCEPT ![t] = "spawn"]
      /\ UNCHANGED <<sp, regs, fiber_pool>>
    BY <1>4 DEF SpawnTake, GoTo
<1>6. OthersStay(t)
    BY <1>1, <1>5 DEF OthersStay, FrameTypeOK
<1>7. /\ StepOf(t) /\ CellOK(t)' /\ FiberStacks' = FiberStacks /\ FiberBlocks' = FiberBlocks
      /\ \A b \in fiber_pool' : mem'[Top(b)] = <<"block", b>>
      /\ IsMemory(mem') /\ Called(mem', s)
    BY <1>2, <1>3, <1>5, <1>6, Scribbling
<1>8. /\ f \in Addr /\ f \in Range(disposed_fiber_list)
      /\ disposed_fiber_list' \in Seq(Addr)
      /\ IsInjective(disposed_fiber_list')
      /\ Range(disposed_fiber_list') = Range(disposed_fiber_list) \ {f}
    BY <1>1, <1>4, <1>5, TakeHead DEF FrameTypeOK, Once
<1>9. /\ node'[t] = f /\ node' \in [Threads -> Addr] /\ f \in Nat /\ t \in Nat
      /\ pc'[t] = "spawn" /\ pc' \in [Threads -> Labels]
    BY <1>1, <1>5, <1>8 DEF FrameTypeOK, Addr, Threads, Labels
<1>10. Recycled(f) /\ StackOf(f) \in Stacks
    BY <1>1, <1>8, StackKinds DEF ListsOK, Recycled, FrameTypeOK
<1>11. f # Cell(t)
    BY <1>10, CellIs
<1>12. ~Uses(t, StackOf(f))
    BY <1>8, Apart
<1>13. Recycled(f)'
    BY <1>7, <1>10, <1>12, RunnableKept
<1>14. Recycled(node[t])'
    BY <1>9, <1>13 DEF Recycled
<1>15. \A r \in FiberStacks, k \in {"run", "node", "deferred"} : Holds(k, t, r)' =>
          \/ Holds(k, t, r) /\ <<k, t>> # <<"disposed", f>>
          \/ <<k, t>> = <<"node", t>> /\ Holds("disposed", f, r)
    BY <1>5, <1>8, <1>9 DEF Holds
<1>16. \A r \in FiberStacks, k \in {"list", "disposed"}, g \in Nat : Holds(k, g, r)' =>
          \/ Holds(k, g, r) /\ <<k, g>> # <<"disposed", f>>
          \/ <<k, g>> = <<"node", t>> /\ Holds("disposed", f, r)
    BY <1>5, <1>8 DEF Holds
<1>17. Moves("disposed", f, "node", t)
    BY <1>7, <1>9, <1>15, <1>16, MovesBy DEF Kinds
<1>18. Once'
    BY <1>1, <1>5, <1>7, <1>8, <1>9, <1>17, OnceMoved DEF Kinds, Once
<1>19. InFiber(t, 0)'
    BY <1>2, <1>5, <1>7 DEF InFiber
<1>20. ThreadOK(t)'
    BY <1>9, <1>11, <1>14, <1>19 DEF ThreadOK
<1>21. FrameTypeOK'
    BY <1>1, <1>5, <1>7, <1>8, <1>9 DEF FrameTypeOK
<1>22. QED
    BY <1>5, <1>7, <1>8, <1>18, <1>20, <1>21, Assemble

(* fiber_load_entrance: the words of the first frame are popped and the    *)
(* entry function is called.                                               *)
LEMMA LoadEntranceStep ==
    ASSUME FrameInv, NEW t \in Threads, LoadEntrance(t)
    PROVE  FrameInv'
<1> DEFINE s == StackOf(sp[t])
<1>1. FrameTypeOK /\ ThreadOK(t) /\ pc[t] = "entrance" /\ sp[t] \in Nat
    BY DEF FrameInv, LoadEntrance, FrameTypeOK, Addr
<1>2. s \in Stacks /\ s \in Nat
    BY <1>1, RunsOn, StackKinds, RegionIs DEF FrameTypeOK
<1>3. PICK x : x = sp[t] - 1 /\ GoesOn(t, x) /\ mem[x] = Code("entrance")
    BY <1>1 DEF ThreadOK
<1>4. PICK l \in {"user", "loop"} :
         /\ Fresh(mem, s, x, l)
         /\ l = "user" => s \in FiberStacks
         /\ l = "loop" => s = LoopStack(t)
    BY <1>3, Words DEF GoesOn, FiberAt, LoopAt, Yielded, Looping, Frame
<1>5. s \in Blocks /\ x = Top(s) - 5
    BY <1>4 DEF Fresh
<1>6. /\ Top(s) = 30 * s + 28 /\ Base(s) = 30 * s + 22
      /\ x = 30 * s + 23 /\ sp[t] = 30 * s + 24
    BY <1>1, <1>2, <1>3, <1>5, BaseIs
<1>7. /\ mem[sp[t]] = Code(l) /\ mem[sp[t] + 1] = Local(s) /\ mem[Top(s) - 2] = Code("exit")
  <2>1. sp[t] = x + 1 /\ sp[t] + 1 = x + 2 /\ Top(s) - 2 = x + 3
    BY <1>6, <1>2
  <2>2. QED
    BY <1>4, <2>1 DEF Fresh
<1>8. PICK a \in Nat : a = sp[t] - 2 /\ a = Base(s)
    BY <1>1, <1>2, <1>6
<1>9. a \in Addr /\ a + 1 \in Addr /\ StackOf(a) = s /\ Top(s) - 5 = a + 1 /\ Top(s) - 2 \in Addr
  <2>1. a = 30 * s + 22 /\ a + 1 \in Nat /\ Top(s) - 2 \in Nat
    BY <1>2, <1>6, <1>8
  <2>2. \A y \in Nat : 30 * s <= y /\ y < 30 * s + 30 => y \in Addr /\ StackOf(y) = s
    BY <1>2, RegionIs
  <2>3. QED
    BY <1>2, <1>6, <2>1, <2>2
<1>10. PICK w : w = <<mem[sp[t] + 1], Code("entered")>>
    OBVIOUS
<1>11. Len(w) = 2 /\ w[1] = Local(s) /\ w[2] = Code("entered")
    BY <1>7, <1>10
<1>12. PICK m : m = Write(mem, a, w)
    OBVIOUS
<1>13. /\ m[a] = Local(s) /\ m[a + 1] = Code("entered")
       /\ \A y \in Addr : y < a \/ a + 2 <= y => m[y] = mem[y]
  <2>1. Len(w) \in Nat
    BY <1>11
  <2>2. /\ \A i \in 1..Len(w) : a + i - 1 \in Addr => m[a + i - 1] = w[i]
        /\ \A y \in Addr : y < a \/ a + Len(w) <= y => m[y] = mem[y]
    <3>1. \A n, v : Len(v) \in Nat =>
             /\ \A i \in 1..Len(v) :
                  a + i - 1 \in Addr => Write(n, a, v)[a + i - 1] = v[i]
             /\ \A y \in Addr : y < a \/ a + Len(v) <= y => Write(n, a, v)[y] = n[y]
        BY WriteAt
    <3>2. QED
        BY <1>12, <2>1, <3>1
  <2>3. 1 \in 1..Len(w) /\ 2 \in 1..Len(w) /\ a + 1 - 1 = a /\ a + 2 - 1 = a + 1
    BY <1>11
  <2>4. m[a + 1 - 1] = w[1] /\ m[a + 2 - 1] = w[2]
    BY <1>9, <2>2, <2>3
  <2>5. QED
    BY <1>11, <2>2, <2>3, <2>4
<1>14. /\ mem' = Scribble(m, a)
       /\ sp' = [sp EXCEPT ![t] = a]
       /\ regs' = [regs EXCEPT ![t] = Own(s)]
       /\ pc' = [pc EXCEPT ![t] = l]
       /\ UNCHANGED <<node, lists, fiber_pool>>
  <2>1. mem' = Scribble(m, a)
    BY <1>8, <1>10, <1>12 DEF LoadEntrance
  <2>2. sp' = [sp EXCEPT ![t] = a]
    BY <1>8 DEF LoadEntrance
  <2>3. pc' = [pc EXCEPT ![t] = l]
    BY <1>7, Words DEF LoadEntrance, GoTo
  <2>4. QED
    BY <2>1, <2>2, <2>3 DEF LoadEntrance
<1>15. /\ IsMemory(mem')
       /\ \A y \in Addr : StackOf(y) # s \/ a <= y => mem'[y] = m[y]
    BY <1>9, <1>14, MemoryStays, ScribbleAt
<1>16. \A y \in Addr : StackOf(y) # s \/ a + 2 <= y => mem'[y] = mem[y]
  <2>1. \A y \in Addr : y \in Nat /\ (StackOf(y) # s => y # a /\ y # a + 1)
    <3>1. StackOf(a + 1) = s
        BY <1>2, <1>6, <1>8, RegionIs, <1>9
    <3>2. QED
        BY <1>9, <3>1 DEF Addr
  <2>2. QED
    BY <1>13, <1>15, <2>1
<1>17. sp'[t] = a /\ pc'[t] = l /\ regs'[t] = Own(s) /\ OthersStay(t)
    BY <1>1, <1>14 DEF FrameTypeOK, OthersStay
<1>18. WritesBelow(t, a + 2)
    BY <1>9, <1>14, <1>15, <1>16, <1>17 DEF WritesBelow
<1>19. /\ StepOf(t) /\ CellOK(t)' /\ FiberStacks' = FiberStacks
       /\ \A b \in fiber_pool' : mem'[Top(b)] = <<"block", b>>
  <2>1. a + 2 \in Nat /\ a + 2 <= Top(s)
    BY <1>2, <1>6, <1>8
  <2>2. QED
    BY <1>18, <2>1, OwnWrite
<1>20. Called(mem', s)
  <2>1. mem'[a] = Local(s) /\ mem'[a + 1] = Code("entered")
    BY <1>9, <1>13, <1>15
  <2>2. mem'[Top(s) - 2] = Code("exit")
    <3>1. a + 2 <= Top(s) - 2
        BY <1>2, <1>6, <1>8
    <3>2. QED
        BY <1>7, <1>9, <1>16, <3>1
  <2>3. QED
    BY <1>8, <1>9, <2>1, <2>2 DEF Called
<1>21. ThreadOK(t)'
  <2>1. CASE l = "user"
    <3>1. InFiber(t, 0)'
        BY <1>4, <1>8, <1>9, <1>17, <1>19, <1>20, <2>1 DEF InFiber
    <3>2. QED
        BY <1>17, <2>1, <3>1 DEF ThreadOK
  <2>2. CASE l = "loop"
    <3>1. InLoop(t)'
        BY <1>4, <1>8, <1>17, <2>2 DEF InLoop
    <3>2. QED
        BY <1>17, <2>2, <3>1 DEF ThreadOK
  <2>3. QED
    BY <2>1, <2>2
<1>22. Once'
    BY <1>9, <1>14, <1>17, <1>19, StaysBy DEF Holds
<1>23. FrameTypeOK'
  <2>1. l \in Labels
    BY DEF Labels
  <2>2. QED
    BY <1>1, <1>9, <1>14, <1>15, <2>1 DEF FrameTypeOK, lists
<1>24. QED
    BY <1>14, <1>19, <1>21, <1>22, <1>23, Assemble DEF lists

(* fiber_load_unaryop: the struct is linked into a list from the stack of  *)
(* the fiber, or loop, that goes on next.                                  *)
LEMMA LoadUnaryopStep ==
    ASSUME FrameInv, NEW t \in Threads, LoadUnaryop(t)
    PROVE  FrameInv'
<1> DEFINE s == StackOf(sp[t])
<1>1. /\ FrameTypeOK /\ Once /\ ListsOK /\ Headers /\ ThreadOK(t) /\ CellOK(t)
      /\ pc[t] = "unaryop" /\ sp[t] \in Nat /\ t \in Nat
    BY DEF FrameInv, LoadUnaryop, FrameTypeOK, Addr, Threads
<1>2. PICK f : f = Data(t)
    OBVIOUS
<1>3. /\ GoesOn(t, sp[t] + 3)
      /\ \/ mem[sp[t]] = Code("enqueue") /\ Runnable(f)
         \/ mem[sp[t]] = Code("recycle") /\ Recycled(f)
    BY <1>1, <1>2 DEF ThreadOK
<1>4. /\ FiberStacks \subseteq Stacks /\ FiberBlocks \subseteq FiberStacks
      /\ LoopStack(t) \in Stacks /\ LoopStack(t) \notin FiberStacks
      /\ fiber_pool \subseteq Stacks
    BY <1>1, StackKinds DEF FrameTypeOK, FiberStacks
<1>5. s \in Stacks /\ s \in Nat /\ (s \in FiberStacks \/ s = LoopStack(t))
    BY <1>1, <1>4, RunsOn, RegionIs
<1>6. /\ StackOf(f) \in FiberStacks /\ StackOf(f) \in Stacks
      /\ Saved(mem, f) \/ Gone(mem, f)
    BY <1>3, <1>4 DEF Runnable, Recycled
<1>7. /\ f \in Nat /\ f \in Addr /\ f + 1 \in Nat
      /\ f + 1 \in Region(StackOf(f)) /\ f + 2 \in Region(StackOf(f))
      /\ f + 6 < 30 * StackOf(f) + 30
    BY <1>6, StructIs
<1>8. /\ f + 1 \in Addr /\ f + 2 \in Addr /\ f + 1 + 1 = f + 2
      /\ StackOf(f + 1) = StackOf(f) /\ StackOf(f + 2) = StackOf(f)
    BY <1>6, <1>7, RegionIs
<1>9. /\ Holds("deferred", t, StackOf(f)) /\ Uses(t, StackOf(f))
      /\ Holds("run", t, s) /\ Uses(t, s)
    BY <1>1, <1>2 DEF Holds, Uses
<1>10. StackOf(f) # s
    BY <1>1, <1>4, <1>5, <1>6, <1>9 DEF Once, Kinds
<1>11. PICK m : /\ m = Enlist(mem, f)
                /\ m[f + 1] = Linked /\ m[f + 2] = Linked
                /\ \A x \in Addr : x # f + 1 /\ x # f + 2 => m[x] = mem[x]
  <2>1. PICK a \in Addr : a = f + 1
    BY <1>8
  <2>2. PICK l : l = Linked
    OBVIOUS
  <2>3. PICK n : /\ n = Put2(mem, a, l, l)
                 /\ n[a] = l /\ n[a + 1] = l
                 /\ \A x \in Addr : x # a /\ x # a + 1 => n[x] = mem[x]
    <3>1. a + 1 \in Addr
        BY <1>8, <2>1
    <3>2. \A k : /\ Put2(k, a, l, l)[a] = l /\ Put2(k, a, l, l)[a + 1] = l
                 /\ \A x \in Addr : x # a /\ x # a + 1 => Put2(k, a, l, l)[x] = k[x]
        BY <3>1, Put2At
    <3>3. QED
        BY <3>2
  <2>4. QED
    BY <1>8, <2>1, <2>2, <2>3 DEF Enlist, Put2
<1>12. /\ mem' = Scribble(m, sp[t])
       /\ pc' = [pc EXCEPT ![t] = "unaryopreturn"]
       /\ UNCHANGED <<sp, regs, node, fiber_pool>>
    BY <1>2, <1>11 DEF LoadUnaryop, Data, GoTo
<1>13. /\ IsMemory(mem')
       /\ \A x \in Addr : StackOf(x) # s \/ sp[t] <= x => mem'[x] = m[x]
    BY <1>1, <1>12, MemoryStays, ScribbleAt
<1>14. /\ \A x \in Addr : StackOf(x) # s /\ x # f + 1 /\ x # f + 2 => mem'[x] = mem[x]
       /\ \A x \in Addr : StackOf(x) = s /\ sp[t] <= x => mem'[x] = mem[x]
       /\ mem'[f + 1] = Linked /\ mem'[f + 2] = Linked
    BY <1>8, <1>10, <1>11, <1>13
<1>15. pc'[t] = "unaryopreturn" /\ pc' \in [Threads -> Labels]
    BY <1>1, <1>12 DEF FrameTypeOK, Labels
<1>16. StepOf(t)
  <2>1. OthersStay(t)
    BY <1>1, <1>12 DEF OthersStay, FrameTypeOK
  <2>2. \A x \in Addr : mem'[x] = mem[x] \/ Uses(t, StackOf(x))
    BY <1>8, <1>9, <1>14
  <2>3. QED
    BY <1>1, <1>12, <2>1, <2>2 DEF StepOf, OthersStay, FrameTypeOK
<1>17. FiberStacks' = FiberStacks /\ FiberBlocks' = FiberBlocks
    BY <1>12 DEF FiberStacks, FiberBlocks
<1>18. \A x \in Region(StackOf(f)) : x # f + 1 /\ x # f + 2 => mem'[x] = mem[x]
    BY <1>6, <1>10, <1>14, RegionIs DEF Addr
<1>19. (Runnable(f) => Runnable(f)') /\ (Recycled(f) => Recycled(f)')
    BY <1>6, <1>17, <1>18, SameButLinks DEF Runnable, Recycled
<1>20. GoesOn(t, sp[t] + 3)'
  <2>1. PICK x \in Nat : x = sp[t] + 3
    BY <1>1
  <2>2. \A y \in Region(s) : x <= y => mem'[y] = mem[y]
    <3>1. \A y \in Region(s) : y \in Addr /\ y \in Nat /\ StackOf(y) = s
        BY <1>5, RegionIs DEF Addr
    <3>2. QED
        BY <1>1, <1>14, <2>1, <3>1
  <2>3. (FiberAt(mem, s, x) => FiberAt(mem', s, x)) /\ (LoopAt(mem, s, x) => LoopAt(mem', s, x))
    BY <1>5, <2>2, SameAbove
  <2>4. sp' = sp /\ GoesOn(t, x)
    BY <1>3, <1>12, <2>1
  <2>5. GoesOn(t, x)'
    BY <1>17, <2>3, <2>4 DEF GoesOn
  <2>6. QED
    BY <2>1, <2>4, <2>5
<1>21. ThreadOK(t)'
    BY <1>15, <1>20 DEF ThreadOK
<1>22. CellOK(t)'
  <2> SUFFICES ASSUME s # LoopStack(t)
               PROVE  \E x \in Addr : mem'[Cell(t)] = Ptr(x) /\ LoopAt(mem', LoopStack(t), x)
    BY <1>12 DEF CellOK
  <2>1. PICK x \in Addr : mem[Cell(t)] = Ptr(x) /\ LoopAt(mem, LoopStack(t), x)
    BY <1>1 DEF CellOK
  <2>2. mem'[Cell(t)] = mem[Cell(t)]
    <3>1. Cell(t) \in Addr /\ StackOf(Cell(t)) \notin Stacks
        BY CellIs
    <3>2. QED
        BY <1>5, <1>6, <1>8, <1>14, <3>1
  <2>3. \A y \in Region(LoopStack(t)) : mem'[y] = mem[y]
    <3>1. \A y \in Region(LoopStack(t)) : y \in Addr /\ StackOf(y) = LoopStack(t)
        BY <1>4, RegionIs DEF Addr
    <3>2. LoopStack(t) # StackOf(f)
        BY <1>4, <1>6
    <3>3. QED
        BY <1>8, <1>14, <3>1, <3>2
  <2>4. LoopAt(mem', LoopStack(t), x)
    BY <1>4, <2>1, <2>3, SameWords
  <2>5. QED
    BY <2>1, <2>2, <2>4
<1>23. ASSUME NEW b \in fiber_pool PROVE mem'[Top(b)] = <<"block", b>>
  <2>1. Top(b) = 30 * b + 28 /\ b \in Nat
    BY <1>4, BaseIs, RegionIs
  <2>2. Top(b) \in Addr /\ StackOf(Top(b)) = b
    BY <1>4, <2>1, RegionIs
  <2>3. b = s => sp[t] <= Top(b)
    <3>1. PICK x : x = sp[t] + 3 /\ GoesOn(t, x)
        BY <1>3
    <3>2. x \in Nat /\ x <= 30 * s + 23
        BY <1>5, <3>1, PopIs
    <3>3. QED
        BY <1>1, <2>1, <3>1, <3>2
  <2>4. Top(b) # f + 1 /\ Top(b) # f + 2
    <3>1. StackOf(f) = b => f + 6 < 30 * b + 30
        BY <1>7
    <3>2. QED
        BY <1>7, <1>8, <2>1, <2>2, <3>1
  <2>5. mem'[Top(b)] = mem[Top(b)]
    BY <1>14, <2>2, <2>3, <2>4
  <2>6. QED
    BY <1>1, <2>5 DEF Headers
<1>24. f \notin Range(fiber_list) /\ f \notin Range(disposed_fiber_list)
    BY <1>9, Apart
<1>25. \A r \in FiberStacks, k \in {"run", "node"} : Holds(k, t, r)' => Holds(k, t, r)
    BY <1>12, <1>15 DEF Holds
<1>26. \A r \in FiberStacks, k \in {"run", "node", "deferred"} : Holds(k, t, r)' =>
          Holds(k, t, r) /\ k # "deferred"
  <2>1. \A r \in FiberStacks : ~Holds("deferred", t, r)'
    BY <1>15 DEF Holds
  <2>2. QED
    BY <1>25, <2>1
<1>27. CASE Runnable(f) /\ fiber_list' = Append(fiber_list, f)
            /\ UNCHANGED disposed_fiber_list
  <2>1. /\ fiber_list' \in Seq(Addr) /\ IsInjective(fiber_list')
        /\ Range(fiber_list') = Range(fiber_list) \cup {f}
    BY <1>1, <1>7, <1>24, <1>27, PutLast DEF FrameTypeOK, Once
  <2>2. \A r \in FiberStacks, k \in {"list", "disposed"}, g \in Nat : Holds(k, g, r)' =>
          \/ Holds(k, g, r) /\ <<k, g>> # <<"deferred", t>>
          \/ <<k, g>> = <<"list", f>> /\ Holds("deferred", t, r)
    BY <1>9, <1>27, <2>1 DEF Holds
  <2>3. Moves("deferred", t, "list", f)
    <3>1. \A r \in FiberStacks, k \in {"run", "node", "deferred"} : Holds(k, t, r)' =>
            \/ Holds(k, t, r) /\ <<k, t>> # <<"deferred", t>>
            \/ <<k, t>> = <<"list", f>> /\ Holds("deferred", t, r)
        BY <1>26
    <3>2. QED
        BY <1>1, <1>7, <1>16, <2>2, <3>1, MovesBy DEF Kinds
  <2>4. Once'
    BY <1>1, <1>7, <1>17, <1>27, <2>1, <2>3, OnceMoved DEF Kinds, Once
  <2>5. FrameTypeOK'
    BY <1>1, <1>12, <1>13, <1>15, <1>27, <2>1 DEF FrameTypeOK
  <2>6. QED
    BY <1>12, <1>14, <1>16, <1>19, <1>21, <1>22, <1>23, <1>27, <2>1, <2>4, <2>5,
       Assemble DEF Links
<1>28. CASE Recycled(f) /\ disposed_fiber_list' = Append(disposed_fiber_list, f)
            /\ UNCHANGED fiber_list
  <2>1. /\ disposed_fiber_list' \in Seq(Addr) /\ IsInjective(disposed_fiber_list')
        /\ Range(disposed_fiber_list') = Range(disposed_fiber_list) \cup {f}
    BY <1>1, <1>7, <1>24, <1>28, PutLast DEF FrameTypeOK, Once
  <2>2. \A r \in FiberStacks, k \in {"list", "disposed"}, g \in Nat : Holds(k, g, r)' =>
          \/ Holds(k, g, r) /\ <<k, g>> # <<"deferred", t>>
          \/ <<k, g>> = <<"disposed", f>> /\ Holds("deferred", t, r)
    BY <1>9, <1>28, <2>1 DEF Holds
  <2>3. Moves("deferred", t, "disposed", f)
    <3>1. \A r \in FiberStacks, k \in {"run", "node", "deferred"} : Holds(k, t, r)' =>
            \/ Holds(k, t, r) /\ <<k, t>> # <<"deferred", t>>
            \/ <<k, t>> = <<"disposed", f>> /\ Holds("deferred", t, r)
        BY <1>26
    <3>2. QED
        BY <1>1, <1>7, <1>16, <2>2, <3>1, MovesBy DEF Kinds
  <2>4. Once'
    BY <1>1, <1>7, <1>17, <1>28, <2>1, <2>3, OnceMoved DEF Kinds, Once
  <2>5. FrameTypeOK'
    BY <1>1, <1>12, <1>13, <1>15, <1>28, <2>1 DEF FrameTypeOK
  <2>6. QED
    BY <1>12, <1>14, <1>16, <1>19, <1>21, <1>22, <1>23, <1>28, <2>1, <2>4, <2>5,
       Assemble DEF Links
<1>29. QED
  <2>1. Code("enqueue") # Code("recycle")
    BY Words
  <2>2. QED
    BY <1>2, <1>3, <1>27, <1>28, <2>1 DEF LoadUnaryop, Data

-----------------------------------------------------------------------------
(* The words that fiber_switch_impl pushes, and the stack pointer it saves *)
(* in the struct at f.                                                     *)
Pushes(r, return) == SavedWords(r) \o <<Code(return)>>

Push(m, z, r, return) == Write(m, z, Pushes(r, return))

Switched(m, z, f, r, return) == Put(Push(m, z, r, return), f, Ptr(z))

(* n is m with the words w at z and above, ...                             *)
HasPushed(n, m, z, w) ==
    \A x \in Addr : n[x] = IF z <= x /\ x <= z + 8 THEN w[x - z + 1] ELSE m[x]

(* ... and then with z in the struct at f.                                 *)
HasSwitched(n, m, z, f, r, return) ==
    /\ IsMemory(n)
    /\ n[f] = Ptr(z)
    /\ n[z] = Code("resume")
    /\ \A s : r = Own(s) => Frame(n, s, z, return)
    /\ \A x \in Addr : x # f /\ (x < z \/ z + 8 < x) => n[x] = m[x]

Room(z, f) ==
    /\ \A i \in 0..8 : z + i \in Addr
    /\ f < z \/ z + 8 < f

LEMMA PushAt ==
    ASSUME NEW m, NEW z \in Nat, NEW r, NEW return
    PROVE  HasPushed(Push(m, z, r, return), m, z, Pushes(r, return))
<1>1. PICK w : w = Pushes(r, return)
    OBVIOUS
<1>2. Len(w) = 9
    BY <1>1, FrameWords DEF Pushes
<1>3. PICK p : p = Write(m, z, w)
    OBVIOUS
<1>4. \A x \in Addr : p[x] = IF x \in z..(z + Len(w) - 1) THEN w[x - z + 1] ELSE m[x]
    BY <1>3 DEF Write
<1>5. \A x \in Addr : x \in z..(z + Len(w) - 1) <=> z <= x /\ x <= z + 8
    BY <1>2 DEF Addr
<1>6. p = Push(m, z, r, return)
    BY <1>1, <1>3 DEF Push
<1>7. QED
    BY <1>1, <1>4, <1>5, <1>6 DEF HasPushed

LEMMA Switching ==
    ASSUME NEW m, NEW z \in Nat, NEW f \in Addr, Room(z, f), NEW r, NEW return
    PROVE  HasSwitched(Switched(m, z, f, r, return), m, z, f, r, return)
<1>1. PICK w : w = Pushes(r, return)
    OBVIOUS
<1>2. /\ w[1] = Code("resume")
      /\ \A i \in 1..7 : w[i + 1] = r[Popped[i]]
      /\ w[9] = Code(return)
    BY <1>1, FrameWords DEF Pushes
<1>3. PICK p : p = Push(m, z, r, return)
    OBVIOUS
<1>4. /\ \A i \in 0..8 : p[z + i] = w[i + 1]
      /\ \A x \in Addr : x < z \/ z + 8 < x => p[x] = m[x]
  <2>1. \A x \in Addr : p[x] = IF z <= x /\ x <= z + 8 THEN w[x - z + 1] ELSE m[x]
    <3>1. HasPushed(p, m, z, w)
        BY <1>1, <1>3, PushAt
    <3>2. QED
        BY <3>1 DEF HasPushed
  <2>2. \A i \in 0..8 : z <= z + i /\ z + i <= z + 8 /\ (z + i) - z + 1 = i + 1
    OBVIOUS
  <2>3. \A i \in 0..8 : p[z + i] = w[i + 1]
    BY <2>1, <2>2 DEF Room
  <2>4. QED
    BY <2>1, <2>3 DEF Addr
<1>5. PICK n : n = Switched(m, z, f, r, return)
    OBVIOUS
<1>6. n = Put(p, f, Ptr(z))
    BY <1>3, <1>5 DEF Switched
<1>7. /\ IsMemory(n) /\ n[f] = Ptr(z)
      /\ \A x \in Addr : x # f => n[x] = p[x]
  <2>1. PICK h \in Addr : h = f
    OBVIOUS
  <2>2. PICK v : v = Ptr(z)
    OBVIOUS
  <2>3. n = Put(p, h, v)
    BY <1>6, <2>1, <2>2
  <2>4. /\ IsMemory(n) /\ n[h] = v
        /\ \A x \in Addr : x # h => n[x] = p[x]
    BY <2>3, PutAt
  <2>5. QED
    BY <2>1, <2>2, <2>4
<1>8. \A i \in 0..8 : n[z + i] = w[i + 1]
  <2>1. \A i \in 0..8 : z + i # f /\ z + i \in Addr
    BY DEF Addr, Room
  <2>2. QED
    BY <1>4, <1>7, <2>1
<1>9. n[z] = Code("resume") /\ n[z + 8] = Code(return)
  <2>1. z + 0 = z /\ 0 \in 0..8 /\ 8 \in 0..8 /\ 0 + 1 = 1 /\ 8 + 1 = 9
    OBVIOUS
  <2>2. QED
    BY <1>2, <1>8, <2>1
<1>10. ASSUME NEW s, r = Own(s) PROVE Frame(n, s, z, return)
  <2>1. \A i \in 1..7 : n[z + i] = r[Popped[i]]
    BY <1>2, <1>8
  <2>2. \A i \in 1..7 : Popped[i] \in Range(Pushed)
    <3>1. DOMAIN Popped = 1..7
        BY DEF Popped
    <3>2. QED
        BY <3>1, Registers DEF Range
  <2>3. \A i \in 1..7 : r[Popped[i]] = <<Popped[i], s>>
    BY <1>10, <2>2 DEF Own
  <2>4. QED
    BY <1>9, <2>1, <2>3 DEF Frame
<1>11. \A x \in Addr : x # f /\ (x < z \/ z + 8 < x) => n[x] = m[x]
    BY <1>4, <1>7
<1>12. QED
    BY <1>5, <1>7, <1>9, <1>10, <1>11 DEF HasSwitched

(* work_thread_loop switches to the fiber that it has taken.               *)
LEMMA DispatchStep ==
    ASSUME FrameInv, NEW t \in Threads, Dispatch(t)
    PROVE  FrameInv'
<1>1. /\ FrameTypeOK /\ Once /\ Headers /\ ThreadOK(t) /\ pc[t] = "dispatch" /\ t \in Nat
      /\ InLoop(t) /\ Runnable(node[t]) /\ node[t] # Cell(t)
    BY DEF FrameInv, Dispatch, ThreadOK, Threads
<1>2. PICK g : g = node[t]
    OBVIOUS
<1>3. /\ FiberStacks \subseteq Stacks /\ fiber_pool \subseteq Stacks
      /\ LoopStack(t) \in Stacks /\ LoopStack(t) \notin FiberStacks
    BY <1>1, StackKinds DEF FrameTypeOK
<1>4. PICK s : s = LoopStack(t)
    OBVIOUS
<1>5. /\ s \in Nat /\ Base(s) \in Nat /\ 30 * s + 22 <= Base(s) /\ Base(s) <= 30 * s + 28
      /\ sp[t] = Base(s) /\ regs[t] = Own(s)
    BY <1>1, <1>3, <1>4, BaseIs, RegionIs DEF InLoop
<1>6. \A y \in Nat : 30 * s <= y /\ y < 30 * s + 30 => y \in Addr /\ StackOf(y) = s
    BY <1>3, <1>4, RegionIs
<1>7. StackOf(sp[t]) = s
    BY <1>5, <1>6
<1>8. PICK q : q = StackOf(g)
    OBVIOUS
<1>9. q \in FiberStacks /\ q \in Stacks /\ q # s /\ q \in Nat /\ Saved(mem, g)
    BY <1>1, <1>2, <1>3, <1>4, <1>8, RegionIs DEF Runnable
<1>10. PICK x : mem[g] = Ptr(x) /\ FiberAt(mem, q, x) /\ (x = g + 5 \/ x = g - 9)
    BY <1>8, <1>9 DEF Saved, FiberAt
<1>11. /\ g \in Addr /\ g \in Nat /\ g \in Region(q)
       /\ 30 * q + 9 <= g /\ g + 6 < 30 * q + 30
    BY <1>8, <1>9, StructIs
<1>12. /\ x \in Nat /\ x \in Addr /\ x + 1 \in Addr
       /\ StackOf(x) = q /\ StackOf(x + 1) = q /\ x \in Region(q)
  <2>1. x \in Nat /\ 30 * q <= x /\ x + 1 < 30 * q + 30
    BY <1>9, <1>10, <1>11
  <2>2. x \in Region(q) /\ x + 1 \in Region(q)
    BY <1>9, <2>1, RegionIs
  <2>3. QED
    BY <1>9, <2>1, <2>2, RegionIs
<1>13. PICK c \in Addr : /\ c = Cell(t) /\ StackOf(c) \notin Stacks
                         /\ \A y \in Stacks : c \notin Region(y)
    BY CellIs
<1>14. c # s /\ c \in Nat /\ 30 * s + 30 <= c
  <2>1. c \notin Region(s) /\ c \in Nat /\ c >= 30 * (NBlocks + NWorkers + 1)
    BY <1>1, <1>3, <1>4, <1>13, Sizes DEF Addr, Cell, Size
  <2>2. s <= NBlocks + NWorkers
    BY <1>3, <1>4, Sizes DEF Stacks
  <2>3. QED
    BY <1>5, <2>1, <2>2, Sizes
<1>15. PICK z \in Nat : z = Base(s) - 9
    BY <1>5
<1>16. /\ \A i \in 0..8 : z + i \in Addr
       /\ Room(z, c)
       /\ 30 * s + 13 <= z /\ z + 8 < 30 * s + 28
       /\ \A y \in Nat : z <= y /\ y <= z + 8 => StackOf(y) = s
    BY <1>5, <1>6, <1>14, <1>15 DEF Room
<1>17. PICK v : v = mem[g]
    OBVIOUS
<1>18. PICK m : /\ m = Put(mem, c, v)
                /\ m[c] = v
                /\ \A y \in Addr : y # c => m[y] = mem[y]
    BY PutAt
<1>19. PICK n : /\ n = Switched(m, z, c, regs[t], "loop")
                /\ HasSwitched(n, m, z, c, regs[t], "loop")
    BY <1>16, Switching
<1>20. \A y \in Addr : y # c /\ (y < z \/ z + 8 < y) => n[y] = mem[y]
    BY <1>18, <1>19 DEF HasSwitched
<1>21. m = Write(mem, Cell(t), <<mem[node[t]]>>) /\ m[Cell(t)][2] = x
    BY <1>2, <1>10, <1>13, <1>17, <1>18, Words DEF Put
<1>22. mem' = n /\ Ret(t, n, x) /\ UNCHANGED <<regs, node, lists, fiber_pool>>
  <2>1. sp[t] - 9 = z
    BY <1>5, <1>15
  <2>2. Switch(t, m, c, sp[t], "loop") /\ UNCHANGED <<regs, node, lists, fiber_pool>>
    BY <1>13, <1>21 DEF Dispatch
  <2>3. mem' = n
    BY <1>19, <2>1, <2>2 DEF Switch, Switched, Push, Pushes, Put
  <2>4. m[c][2] = x
    BY <1>13, <1>21
  <2>5. Ret(t, mem', x)
    BY <2>2, <2>4 DEF Switch
  <2>6. QED
    BY <2>2, <2>3, <2>5
<1>23. \A y \in Region(q) : y \in Addr /\ n[y] = mem[y]
  <2>1. \A y \in Region(q) : y \in Addr /\ y \in Nat /\ StackOf(y) = q /\ y # c
    BY <1>9, <1>13, RegionIs DEF Addr
  <2>2. QED
    BY <1>9, <1>16, <1>20, <2>1
<1>24. FiberAt(n, q, x) /\ n[x] = mem[x]
    BY <1>9, <1>10, <1>12, <1>23, SameWords
<1>25. PICK l \in {"resume", "entrance"} : n[x] = Code(l)
    BY <1>24 DEF FiberAt, Fresh, Yielded, Frame
<1>26. sp' = [sp EXCEPT ![t] = x + 1] /\ pc' = [pc EXCEPT ![t] = l]
    BY <1>22, <1>25, Words DEF Ret, GoTo
<1>27. /\ sp'[t] = x + 1 /\ pc'[t] = l /\ sp'[t] - 1 = x /\ StackOf(sp'[t]) = q
       /\ sp' \in [Threads -> Addr] /\ pc' \in [Threads -> Labels]
  <2>1. l \in Labels
    BY DEF Labels
  <2>2. x + 1 - 1 = x
    BY <1>12
  <2>3. /\ sp'[t] = x + 1 /\ pc'[t] = l
        /\ sp' \in [Threads -> Addr] /\ pc' \in [Threads -> Labels]
    BY <1>1, <1>12, <1>26, <2>1 DEF FrameTypeOK
  <2>4. QED
    BY <1>12, <2>2, <2>3
<1>28. FiberStacks' = FiberStacks /\ fiber_pool' = fiber_pool
    BY <1>22 DEF FiberStacks, FiberBlocks
<1>29. StepOf(t)
  <2>1. OthersStay(t)
    BY <1>1, <1>22, <1>26 DEF OthersStay, FrameTypeOK
  <2>2. Uses(t, s)
    BY <1>4 DEF Uses
  <2>3. \A y \in Addr : n[y] = mem[y] \/ y = Cell(t) \/ Uses(t, StackOf(y))
    <3>1. \A y \in Addr : y \in Nat
        BY DEF Addr
    <3>2. QED
        BY <1>13, <1>16, <1>20, <2>2, <3>1
  <2>4. QED
    BY <1>1, <1>22, <1>28, <2>1, <2>3 DEF StepOf, OthersStay, FrameTypeOK
<1>30. CellOK(t)'
  <2>1. Looping(n, s, z)
    BY <1>5, <1>15, <1>19 DEF Looping, HasSwitched
  <2>2. z \in Addr
    <3>1. z + 0 = z
        OBVIOUS
    <3>2. QED
        BY <1>16, <3>1
  <2>3. n[Cell(t)] = Ptr(z) /\ LoopAt(n, LoopStack(t), z)
    BY <1>4, <1>13, <1>19, <2>1 DEF LoopAt, HasSwitched
  <2>4. QED
    BY <1>22, <2>2, <2>3 DEF CellOK
<1>31. GoesOn(t, x)'
    BY <1>9, <1>22, <1>24, <1>27, <1>28 DEF GoesOn
<1>32. ThreadOK(t)'
    BY <1>22, <1>25, <1>27, <1>31 DEF ThreadOK
<1>33. ASSUME NEW b \in fiber_pool PROVE mem'[Top(b)] = <<"block", b>>
  <2>1. Top(b) = 30 * b + 28 /\ b \in Nat /\ b \in Stacks
    BY <1>3, BaseIs, RegionIs
  <2>2. Top(b) \in Addr /\ StackOf(Top(b)) = b /\ Top(b) \in Region(b)
    BY <2>1, RegionIs
  <2>3. Top(b) # c
    BY <1>13, <2>1, <2>2
  <2>4. Top(b) < z \/ z + 8 < Top(b)
    BY <1>16, <2>1, <2>2
  <2>5. n[Top(b)] = mem[Top(b)]
    BY <1>20, <2>2, <2>3, <2>4
  <2>6. QED
    BY <1>1, <1>22, <2>5 DEF Headers
<1>34. Once'
  <2>1. \A r \in FiberStacks, k \in {"run", "node", "deferred"} : Holds(k, t, r)' =>
           k = "run" /\ r = q
    BY <1>27 DEF Holds
  <2>2. Holds("node", t, q)
    BY <1>1, <1>2, <1>8 DEF Holds
  <2>3. \A r \in FiberStacks, k \in {"run", "node", "deferred"} : Holds(k, t, r)' =>
           \/ Holds(k, t, r) /\ <<k, t>> # <<"node", t>>
           \/ <<k, t>> = <<"run", t>> /\ Holds("node", t, r)
    BY <2>1, <2>2
  <2>4. \A r \in FiberStacks, k \in {"list", "disposed"}, h \in Nat : Holds(k, h, r)' =>
           \/ Holds(k, h, r) /\ <<k, h>> # <<"node", t>>
           \/ <<k, h>> = <<"run", t>> /\ Holds("node", t, r)
    BY <1>22 DEF Holds, lists
  <2>5. Moves("node", t, "run", t)
    BY <1>1, <1>29, <2>3, <2>4, MovesBy DEF Kinds
  <2>6. QED
    BY <1>1, <1>22, <1>28, <2>5, OnceMoved DEF Kinds, Once, lists
<1>35. FrameTypeOK'
    BY <1>1, <1>19, <1>22, <1>27 DEF FrameTypeOK, HasSwitched, lists
<1>36. QED
    BY <1>22, <1>28, <1>29, <1>30, <1>32, <1>33, <1>34, <1>35, Assemble DEF lists

-----------------------------------------------------------------------------
(* The struct fjx_fiber and the pair that a fiber fills in before it       *)
(* leaves, and the frame of the deferred call.                             *)
HasStruct(n, m, f, x, p) ==
    /\ n[f] = x /\ n[f + 4] = p
    /\ \A y \in Addr : y < f \/ f + 4 < y => n[y] = m[y]

LEMMA StructAt ==
    ASSUME NEW m, NEW f \in Nat, f + 4 \in Addr, NEW x, NEW j, NEW d, NEW p
    PROVE  HasStruct(Write(m, f, <<x, j, j, d, p>>), m, f, x, p)
<1>1. PICK w : w = <<x, j, j, d, p>>
    OBVIOUS
<1>2. Len(w) = 5 /\ w[1] = x /\ w[5] = p
    BY <1>1
<1>3. PICK n : n = Write(m, f, w)
    OBVIOUS
<1>4. \A y \in Addr : n[y] = IF y \in f..(f + Len(w) - 1) THEN w[y - f + 1] ELSE m[y]
    BY <1>3 DEF Write
<1>5. \A y \in Addr : y \in f..(f + Len(w) - 1) <=> f <= y /\ y <= f + 4
    BY <1>2 DEF Addr
<1>6. f \in Addr /\ f - f + 1 = 1 /\ (f + 4) - f + 1 = 5
    BY Sizes DEF Addr, Cell, Size
<1>7. n[f] = x
  <2>1. f \in f..(f + Len(w) - 1)
    BY <1>5, <1>6
  <2>2. n[f] = w[f - f + 1]
    BY <1>4, <1>6, <2>1
  <2>3. QED
    BY <1>2, <1>6, <2>2
<1>8. n[f + 4] = p
  <2>1. f + 4 \in f..(f + Len(w) - 1)
    BY <1>5
  <2>2. n[f + 4] = w[(f + 4) - f + 1]
    BY <1>4, <2>1
  <2>3. QED
    BY <1>2, <1>6, <2>2
<1>9. \A y \in Addr : y < f \/ f + 4 < y => n[y] = m[y]
  <2>1. \A y \in Addr : y < f \/ f + 4 < y => y \notin f..(f + Len(w) - 1)
    BY <1>5 DEF Addr
  <2>2. QED
    BY <1>4, <2>1
<1>10. QED
    BY <1>1, <1>3, <1>7, <1>8, <1>9 DEF HasStruct

HasDeferred(n, m, b, c, p) ==
    /\ n[b] = Code("unaryop") /\ n[b + 1] = Code(c) /\ n[b + 2] = Ptr(p)
    /\ \A y \in Addr : y < b \/ b + 3 < y => n[y] = m[y]

LEMMA DeferredAt ==
    ASSUME NEW m, NEW b \in Nat, b + 2 \in Addr, NEW c, NEW p
    PROVE  \E n : n = AddDeferred(m, b + 4, c, p) /\ HasDeferred(n, m, b, c, p)
<1>1. PICK w : w = <<Code("unaryop"), Code(c), Ptr(p), <<"null", 0>>>>
    OBVIOUS
<1>2. Len(w) = 4 /\ w[1] = Code("unaryop") /\ w[2] = Code(c) /\ w[3] = Ptr(p)
    BY <1>1
<1>3. PICK n : n = Write(m, b, w)
    OBVIOUS
<1>4. \A y \in Addr : n[y] = IF y \in b..(b + Len(w) - 1) THEN w[y - b + 1] ELSE m[y]
    BY <1>3 DEF Write
<1>5. \A y \in Addr : y \in b..(b + Len(w) - 1) <=> b <= y /\ y <= b + 3
    BY <1>2 DEF Addr
<1>6. b \in Addr /\ b + 1 \in Addr /\ b - b + 1 = 1 /\ (b + 1) - b + 1 = 2 /\ (b + 2) - b + 1 = 3
    BY Sizes DEF Addr, Cell, Size
<1>7. n[b] = w[1] /\ n[b + 1] = w[2] /\ n[b + 2] = w[3]
  <2>1. /\ b \in b..(b + Len(w) - 1) /\ b + 1 \in b..(b + Len(w) - 1)
        /\ b + 2 \in b..(b + Len(w) - 1)
    BY <1>5, <1>6
  <2>2. /\ n[b] = w[b - b + 1] /\ n[b + 1] = w[(b + 1) - b + 1]
        /\ n[b + 2] = w[(b + 2) - b + 1]
    BY <1>4, <1>6, <2>1
  <2>3. QED
    BY <1>6, <2>2
<1>8. \A y \in Addr : y < b \/ b + 3 < y => n[y] = m[y]
  <2>1. \A y \in Addr : y < b \/ b + 3 < y => y \notin b..(b + Len(w) - 1)
    BY <1>5 DEF Addr
  <2>2. QED
    BY <1>4, <2>1
<1>9. n = AddDeferred(m, b + 4, c, p)
  <2>1. b + 4 - 4 = b
    OBVIOUS
  <2>2. QED
    BY <1>1, <1>3, <2>1 DEF AddDeferred
<1>10. HasDeferred(n, m, b, c, p)
    BY <1>2, <1>7, <1>8 DEF HasDeferred
<1>11. QED
    BY <1>9, <1>10

(* The memory n after fiber s has left with its struct at f for stack q,   *)
(* where the deferred call is popped at b.                                 *)
HasLeft(n, m, s, q, f, b, c, r) ==
    /\ IsMemory(n)
    /\ n[f] = Ptr(f - 9) /\ n[f - 9] = Code("resume") /\ n[f + 4] = Ptr(f)
    /\ r = Own(s) => Frame(n, s, f - 9, "yielded")
    /\ n[b] = Code("unaryop") /\ n[b + 1] = Code(c) /\ n[b + 2] = Ptr(f + 3)
    /\ \A y \in Addr :
          \/ StackOf(y) \notin {s, q}
          \/ StackOf(y) = s /\ f + 4 < y
          \/ StackOf(y) = q /\ b + 3 < y
          => n[y] = m[y]

Inside(s, a, k) == 30 * s + 9 <= a /\ a + k < 30 * s + 30

LEMMA Leaving ==
    ASSUME NEW s \in Stacks, NEW q \in Stacks, s # q,
           NEW f \in Nat, Inside(s, f, 4), NEW b \in Nat, 30 * q <= b, b + 3 < 30 * q + 30,
           NEW m, NEW c, NEW r
    PROVE  \E m1, m2 :
              /\ m1 = Write(m, f, <<Ptr(b), Junk, Junk, <<"sched", 0>>, Ptr(f)>>)
              /\ m2 = AddDeferred(m1, b + 4, c, f + 3)
              /\ m2[f] = Ptr(b)
              /\ HasLeft(Switched(m2, f - 9, f, r, "yielded"), m, s, q, f, b, c, r)
<1>1. s \in Nat /\ q \in Nat /\ 30 * s + 9 <= f /\ f + 4 < 30 * s + 30
    BY RegionIs DEF Inside
<1>2. \A y \in Nat : 30 * s <= y /\ y < 30 * s + 30 => y \in Addr /\ StackOf(y) = s
    BY RegionIs
<1>3. \A y \in Nat : 30 * q <= y /\ y < 30 * q + 30 => y \in Addr /\ StackOf(y) = q
    BY RegionIs
<1>4. f + 4 \in Addr /\ f \in Addr /\ \A y \in Nat : f <= y /\ y <= f + 4 => StackOf(y) = s
    BY <1>1, <1>2
<1>5. /\ b + 2 \in Addr /\ b \in Addr /\ b + 1 \in Addr
      /\ \A y \in Nat : b <= y /\ y <= b + 3 => StackOf(y) = q
    BY <1>1, <1>3
<1>6. PICK z \in Nat : z = f - 9
    BY <1>1
<1>7. Room(z, f) /\ z \in Addr /\ \A y \in Nat : z <= y /\ y <= z + 8 => StackOf(y) = s
    BY <1>1, <1>2, <1>6 DEF Room
<1>8. \A y \in Addr : y \in Nat
    BY DEF Addr
<1>9. PICK m1 : /\ m1 = Write(m, f, <<Ptr(b), Junk, Junk, <<"sched", 0>>, Ptr(f)>>)
                /\ HasStruct(m1, m, f, Ptr(b), Ptr(f))
  <2>1. PICK x : x = Ptr(b)
    OBVIOUS
  <2>2. PICK p : p = Ptr(f)
    OBVIOUS
  <2>3. PICK j : j = Junk
    OBVIOUS
  <2>4. PICK d : d = <<"sched", 0>>
    OBVIOUS
  <2>5. HasStruct(Write(m, f, <<x, j, j, d, p>>), m, f, x, p)
    BY <1>4, StructAt
  <2>6. QED
    BY <2>1, <2>2, <2>3, <2>4, <2>5
<1>10. PICK m2 : m2 = AddDeferred(m1, b + 4, c, f + 3) /\ HasDeferred(m2, m1, b, c, f + 3)
  <2>1. PICK p : p = f + 3
    OBVIOUS
  <2>2. \E n : n = AddDeferred(m1, b + 4, c, p) /\ HasDeferred(n, m1, b, c, p)
    BY <1>5, DeferredAt
  <2>3. QED
    BY <2>1, <2>2
<1>11. PICK n : n = Switched(m2, z, f, r, "yielded") /\ HasSwitched(n, m2, z, f, r, "yielded")
    BY <1>4, <1>7, Switching
<1>12. /\ \A y \in Addr : y < f \/ f + 4 < y => m1[y] = m[y]
       /\ m1[f] = Ptr(b) /\ m1[f + 4] = Ptr(f)
    BY <1>9 DEF HasStruct
<1>13. /\ \A y \in Addr : y < b \/ b + 3 < y => m2[y] = m1[y]
       /\ m2[b] = Code("unaryop") /\ m2[b + 1] = Code(c) /\ m2[b + 2] = Ptr(f + 3)
    BY <1>10 DEF HasDeferred
<1>14. /\ \A y \in Addr : y # f /\ (y < z \/ z + 8 < y) => n[y] = m2[y]
       /\ IsMemory(n) /\ n[f] = Ptr(z) /\ n[z] = Code("resume")
       /\ r = Own(s) => Frame(n, s, z, "yielded")
    BY <1>11 DEF HasSwitched
<1>15. ASSUME NEW y \in Addr, StackOf(y) = s PROVE m2[y] = m1[y]
  <2>1. StackOf(y) # q /\ y \in Nat
    BY <1>8, <1>15
  <2>2. y < b \/ b + 3 < y
    BY <1>5, <2>1
  <2>3. QED
    BY <1>13, <2>2
<1>16. \A y \in Addr : StackOf(y) # s => n[y] = m2[y]
    BY <1>4, <1>7, <1>8, <1>14
<1>17. m2[f] = Ptr(b)
    BY <1>4, <1>12, <1>15
<1>18. n[f + 4] = Ptr(f)
  <2>1. f + 4 # f /\ z + 8 < f + 4 /\ StackOf(f + 4) = s
    BY <1>4, <1>6
  <2>2. QED
    BY <1>4, <1>12, <1>14, <1>15, <2>1
<1>19. n[b] = Code("unaryop") /\ n[b + 1] = Code(c) /\ n[b + 2] = Ptr(f + 3)
  <2>1. StackOf(b) # s /\ StackOf(b + 1) # s /\ StackOf(b + 2) # s
    BY <1>5
  <2>2. QED
    BY <1>5, <1>13, <1>16, <2>1
<1>20. ASSUME NEW y \in Addr,
              \/ StackOf(y) \notin {s, q}
              \/ StackOf(y) = s /\ f + 4 < y
              \/ StackOf(y) = q /\ b + 3 < y
       PROVE  n[y] = m[y]
  <2>1. CASE StackOf(y) \notin {s, q}
    <3>1. n[y] = m2[y]
        BY <1>16, <2>1
    <3>2. m2[y] = m1[y]
      <4>1. StackOf(y) # q /\ y \in Nat
        BY <1>8, <2>1
      <4>2. y < b \/ b + 3 < y
        BY <1>5, <4>1
      <4>3. QED
        BY <1>13, <4>2
    <3>3. m1[y] = m[y]
        BY <1>4, <1>8, <1>12, <2>1
    <3>4. QED
        BY <3>1, <3>2, <3>3
  <2>2. CASE StackOf(y) = s /\ f + 4 < y
    <3>1. y # f /\ z + 8 < y
        BY <1>6, <1>8, <2>2
    <3>2. QED
        BY <1>12, <1>14, <1>15, <2>2, <3>1
  <2>3. CASE StackOf(y) = q /\ b + 3 < y
    <3>1. n[y] = m2[y] /\ m2[y] = m1[y]
        BY <1>13, <1>16, <2>3
    <3>2. m1[y] = m[y]
        BY <1>4, <1>8, <1>12, <2>3
    <3>3. QED
        BY <3>1, <3>2
  <2>4. QED
    BY <1>20, <2>1, <2>2, <2>3
<1>21. HasLeft(n, m, s, q, f, b, c, r)
    BY <1>6, <1>14, <1>18, <1>19, <1>20 DEF HasLeft
<1>22. QED
    BY <1>6, <1>9, <1>10, <1>11, <1>17, <1>21

(* Where a fiber that leaves goes: to the fiber that it has taken out of   *)
(* fiber_list, or to the loop of its thread.                               *)
LEMMA Destination ==
    ASSUME FrameInv, NEW t \in Threads, pc[t] \in {"enqueue", "recycle"}
    PROVE  \E q \in Stacks, x \in Nat :
              /\ mem[node[t]] = Ptr(x)
              /\ q # StackOf(sp[t]) /\ Uses(t, q)
              /\ 30 * q + 7 <= x /\ x <= 30 * q + 23
              /\ \/ q \in FiberStacks /\ FiberAt(mem, q, x) /\ Holds("node", t, q)
                 \/ q = LoopStack(t) /\ LoopAt(mem, q, x)
<1> DEFINE s == StackOf(sp[t])
<1>1. /\ FrameTypeOK /\ Once /\ ThreadOK(t) /\ CellOK(t) /\ t \in Nat
    BY DEF FrameInv, Threads
<1>2. /\ FiberStacks \subseteq Stacks /\ FiberBlocks \subseteq FiberStacks
      /\ LoopStack(t) \in Stacks /\ LoopStack(t) \notin FiberStacks
    BY <1>1, StackKinds DEF FrameTypeOK, FiberStacks
<1>3. s \in FiberStacks /\ Chosen(t)
    BY <1>1, <1>2 DEF ThreadOK, InFiber
<1>4. CASE node[t] = Cell(t)
  <2>1. PICK x \in Addr : mem[Cell(t)] = Ptr(x) /\ LoopAt(mem, LoopStack(t), x)
    BY <1>1, <1>2, <1>3 DEF CellOK
  <2>2. PICK q \in Stacks : q = LoopStack(t)
    BY <1>2
  <2>3. x = Top(q) - 5 \/ x = Base(q) - 9
    BY <2>1, <2>2 DEF LoopAt, Fresh, Looping
  <2>4. x \in Nat /\ 30 * q + 7 <= x /\ x <= 30 * q + 23
    BY <2>3, BaseIs, RegionIs
  <2>5. q # s /\ Uses(t, q)
    BY <1>2, <1>3, <2>2 DEF Uses
  <2>6. QED
    BY <1>4, <2>1, <2>2, <2>4, <2>5
<1>5. CASE node[t] # Cell(t)
  <2>1. PICK g : g = node[t]
    OBVIOUS
  <2>2. PICK q : q = StackOf(g)
    OBVIOUS
  <2>3. q \in FiberStacks /\ q \in Stacks /\ Saved(mem, g)
    BY <1>2, <1>3, <1>5, <2>1, <2>2 DEF Chosen, Runnable
  <2>4. PICK x : mem[g] = Ptr(x) /\ FiberAt(mem, q, x)
    BY <2>2, <2>3 DEF Saved, FiberAt
  <2>5. x = Top(q) - 5 \/ x = Base(q) - 15
    BY <2>4 DEF FiberAt, Fresh, Yielded
  <2>6. x \in Nat /\ 30 * q + 7 <= x /\ x <= 30 * q + 23
    BY <2>3, <2>5, BaseIs, RegionIs
  <2>7. Holds("node", t, q) /\ Holds("run", t, s)
    BY <1>5, <2>1, <2>2 DEF Holds
  <2>8. q # s
    BY <1>1, <2>3, <2>7 DEF Once, Kinds
  <2>9. Uses(t, q)
    BY <2>7 DEF Uses
  <2>10. QED
    BY <2>1, <2>3, <2>4, <2>6, <2>7, <2>8, <2>9
<1>6. QED
    BY <1>4, <1>5

(* Where t was running and what it had taken become the fiber of its       *)
(* deferred call and where it is running.                                  *)
LEMMA OnceLeft ==
    ASSUME FrameInv, NEW t \in Threads, StepOf(t), FiberStacks' = FiberStacks,
           UNCHANGED lists, pc'[t] = "unaryop",
           NEW q, NEW s, StackOf(sp'[t]) = q, StackOf(Data(t))' = s,
           q \in FiberStacks => Holds("node", t, q),
           Holds("run", t, s)
    PROVE  Once'
<1>1. Once /\ t \in Nat
    BY DEF FrameInv, Threads
<1>2. \A r \in FiberStacks, k \in {"run", "node", "deferred"} : Holds(k, t, r)' =>
         \/ k = "run" /\ Holds("node", t, r)
         \/ k = "deferred" /\ Holds("run", t, r)
    BY DEF Holds
<1>3. \A r \in FiberStacks, k \in Kinds, h \in Nat : Holds(k, h, r)' =>
         \/ Holds(k, h, r) /\ (k \in {"list", "disposed"} \/ h # t)
         \/ k \in {"run", "node", "deferred"} /\ h = t
  <2> SUFFICES ASSUME NEW r \in FiberStacks, NEW k \in Kinds, NEW h \in Nat, Holds(k, h, r)'
               PROVE  \/ Holds(k, h, r) /\ (k \in {"list", "disposed"} \/ h # t)
                      \/ k \in {"run", "node", "deferred"} /\ h = t
    OBVIOUS
  <2>1. CASE k \in {"list", "disposed"}
    BY <2>1 DEF Holds, lists
  <2>2. CASE k \in {"run", "node", "deferred"} /\ h # t
    <3>1. h \in Threads \ {t}
        BY <2>2 DEF Holds
    <3>2. QED
        BY <2>2, <3>1, HoldsKept
  <2>3. QED
    BY <2>1, <2>2 DEF Kinds
<1>4. ASSUME NEW r \in FiberStacks, NEW k1 \in Kinds, NEW k2 \in Kinds,
             NEW h1 \in Nat, NEW h2 \in Nat, Holds(k1, h1, r)', Holds(k2, h2, r)'
      PROVE  k1 = k2 /\ h1 = h2
  <2>1. \A ka, kb \in Kinds, ha, hb \in Nat :
           Holds(ka, ha, r) /\ Holds(kb, hb, r) => ka = kb /\ ha = hb
    BY <1>1 DEF Once
  <2>2. /\ \/ Holds(k1, h1, r) /\ (k1 \in {"list", "disposed"} \/ h1 # t)
           \/ k1 = "run" /\ h1 = t /\ Holds("node", t, r)
           \/ k1 = "deferred" /\ h1 = t /\ Holds("run", t, r)
        /\ \/ Holds(k2, h2, r) /\ (k2 \in {"list", "disposed"} \/ h2 # t)
           \/ k2 = "run" /\ h2 = t /\ Holds("node", t, r)
           \/ k2 = "deferred" /\ h2 = t /\ Holds("run", t, r)
    BY <1>2, <1>3, <1>4
  <2>3. "run" \in Kinds /\ "node" \in Kinds
    BY DEF Kinds
  <2>4. QED
    BY <1>1, <2>1, <2>2, <2>3
<1>5. QED
    BY <1>1, <1>4 DEF Once, lists

LEMMA LeaveDeferringStep ==
    ASSUME FrameInv, NEW t \in Threads, LeaveDeferring(t)
    PROVE  FrameInv'
<1>1. /\ FrameTypeOK /\ Headers /\ ThreadOK(t) /\ CellOK(t)
      /\ pc[t] \in {"enqueue", "recycle"}
    BY DEF FrameInv, LeaveDeferring
<1>2. PICK f : f = sp[t]
    OBVIOUS
<1>3. PICK s : s = StackOf(f)
    OBVIOUS
<1>4. /\ FiberStacks \subseteq Stacks /\ FiberBlocks \subseteq FiberStacks
      /\ fiber_pool \subseteq Stacks /\ FiberBlocks \subseteq Blocks
      /\ LoopStack(t) \in Stacks /\ LoopStack(t) \notin FiberStacks
    BY <1>1, StackKinds DEF FrameTypeOK, FiberStacks
<1>5. /\ s \in FiberStacks /\ s \in Stacks /\ s \in Nat
      /\ pc[t] = "enqueue" => /\ f = Base(s) - 6 /\ regs[t] = Own(s)
                              /\ Called(mem, s) /\ mem[Base(s) - 1] = Code("user")
      /\ pc[t] = "recycle" => s \in FiberBlocks /\ f = Top(s) - 10
    BY <1>1, <1>2, <1>3, <1>4, RegionIs DEF ThreadOK, InFiber
<1>6. /\ f \in Nat /\ Inside(s, f, 4) /\ Top(s) = 30 * s + 28
      /\ f + 6 <= Top(s)
  <2>1. f = Base(s) - 6 \/ f = Top(s) - 10
    BY <1>1, <1>5
  <2>2. QED
    BY <1>5, <2>1, BaseIs DEF Inside
<1>7. PICK q \in Stacks, x \in Nat :
         /\ mem[node[t]] = Ptr(x)
         /\ q # s /\ Uses(t, q)
         /\ 30 * q + 7 <= x /\ x <= 30 * q + 23
         /\ \/ q \in FiberStacks /\ FiberAt(mem, q, x) /\ Holds("node", t, q)
            \/ q = LoopStack(t) /\ LoopAt(mem, q, x)
    BY <1>1, <1>2, <1>3, Destination
<1>8. PICK b \in Nat : b = x - 4 /\ x = b + 4
    BY <1>7, RegionIs
<1>9. /\ q \in Nat /\ 30 * q <= b /\ b + 3 < 30 * q + 30
      /\ \A y \in Nat : 30 * q <= y /\ y < 30 * q + 30 => y \in Addr /\ StackOf(y) = q
    BY <1>7, <1>8, RegionIs
<1>10. PICK c : c = pc[t]
    OBVIOUS
<1>11. PICK r : r = regs[t]
    OBVIOUS
<1>12. PICK m1, m2 :
          /\ m1 = Write(mem, f, <<Ptr(b), Junk, Junk, <<"sched", 0>>, Ptr(f)>>)
          /\ m2 = AddDeferred(m1, b + 4, c, f + 3)
          /\ m2[f] = Ptr(b)
          /\ HasLeft(Switched(m2, f - 9, f, r, "yielded"), mem, s, q, f, b, c, r)
  <2>1. s # q
    BY <1>7
  <2>2. QED
    BY <1>5, <1>6, <1>9, <2>1, Leaving
<1>13. PICK n : /\ n = Switched(m2, f - 9, f, r, "yielded")
                /\ HasLeft(n, mem, s, q, f, b, c, r)
    BY <1>12
<1>14. mem' = n /\ Ret(t, n, b) /\ UNCHANGED <<regs, node, lists, fiber_pool>>
  <2>1. mem[node[t]][2] = x /\ x - 4 = b /\ m2[f][2] = b
    BY <1>7, <1>8, <1>12, Words
  <2>2. /\ Switch(t, m2, f, f, "yielded")
        /\ UNCHANGED <<regs, node, lists, fiber_pool>>
    BY <1>2, <1>8, <1>10, <1>12, <2>1 DEF LeaveDeferring
  <2>3. mem' = n
    BY <1>11, <1>13, <2>2 DEF Switch, Switched, Push, Pushes, Put
  <2>4. Ret(t, mem', b)
    BY <2>1, <2>2 DEF Switch
  <2>5. QED
    BY <2>2, <2>3, <2>4
<1>15. /\ IsMemory(n)
       /\ n[f] = Ptr(f - 9) /\ n[f - 9] = Code("resume") /\ n[f + 4] = Ptr(f)
       /\ r = Own(s) => Frame(n, s, f - 9, "yielded")
       /\ n[b] = Code("unaryop") /\ n[b + 1] = Code(c) /\ n[b + 2] = Ptr(f + 3)
       /\ \A y \in Addr : StackOf(y) \notin {s, q} => n[y] = mem[y]
       /\ \A y \in Addr : StackOf(y) = s /\ f + 4 < y => n[y] = mem[y]
       /\ \A y \in Addr : StackOf(y) = q /\ b + 3 < y => n[y] = mem[y]
    BY <1>13 DEF HasLeft
<1>16. sp' = [sp EXCEPT ![t] = b + 1] /\ pc' = [pc EXCEPT ![t] = "unaryop"]
    BY <1>14, <1>15, Words DEF Ret, GoTo
<1>17. /\ sp'[t] = b + 1 /\ pc'[t] = "unaryop"
       /\ sp' \in [Threads -> Addr] /\ pc' \in [Threads -> Labels]
       /\ StackOf(b + 1) = q
  <2>1. b + 1 \in Addr /\ StackOf(b + 1) = q
    BY <1>9
  <2>2. "unaryop" \in Labels
    BY DEF Labels
  <2>3. QED
    BY <1>1, <1>16, <2>1, <2>2 DEF FrameTypeOK
<1>18. Data(t)' = f /\ mem'[sp'[t] + 1] = Ptr(f + 3) /\ mem'[sp'[t]] = Code(c)
       /\ mem'[f + 4] = Ptr(f)
  <2>1. sp'[t] + 1 = b + 2
    BY <1>8, <1>17
  <2>2. mem'[sp'[t] + 1] = Ptr(f + 3)
    BY <1>14, <1>15, <2>1
  <2>3. mem'[sp'[t] + 1][2] + 1 = f + 4
    BY <1>6, <2>2, Words
  <2>4. mem'[f + 4] = Ptr(f)
    BY <1>14, <1>15
  <2>5. mem'[mem'[sp'[t] + 1][2] + 1][2] = f
    BY <2>3, <2>4, Words
  <2>6. mem'[sp'[t]] = Code(c)
    BY <1>14, <1>15, <1>17
  <2>7. QED
    BY <2>2, <2>4, <2>5, <2>6 DEF Data
<1>19. /\ FiberStacks' = FiberStacks /\ FiberBlocks' = FiberBlocks
       /\ fiber_pool' = fiber_pool
    BY <1>14 DEF FiberStacks, FiberBlocks
<1>20. Holds("run", t, s) /\ Uses(t, s)
    BY <1>2, <1>3 DEF Holds, Uses
<1>21. StepOf(t)
  <2>1. OthersStay(t)
    BY <1>1, <1>14, <1>16 DEF OthersStay, FrameTypeOK
  <2>2. \A y \in Addr : n[y] = mem[y] \/ Uses(t, StackOf(y))
    BY <1>7, <1>15, <1>20
  <2>3. QED
    BY <1>1, <1>14, <1>19, <2>1, <2>2 DEF StepOf, OthersStay, FrameTypeOK
<1>22. \A y \in Nat : 30 * s <= y /\ y < 30 * s + 30 => y \in Addr /\ StackOf(y) = s
    BY <1>5, RegionIs
<1>23. ASSUME c = "enqueue" PROVE Runnable(f)'
  <2>1. /\ f = Base(s) - 6 /\ r = Own(s) /\ Called(mem, s) /\ mem[Base(s) - 1] = Code("user")
        /\ Base(s) \in Nat /\ 30 * s + 22 <= Base(s) /\ Base(s) <= 30 * s + 28
        /\ s \in Blocks => Base(s) = 30 * s + 22
    BY <1>5, <1>10, <1>11, <1>23, BaseIs
  <2>2. \A y \in Nat : f + 4 < y /\ y < 30 * s + 30 => n[y] = mem[y]
    BY <1>5, <1>6, <1>15, <1>22 DEF Inside
  <2>3. n[f - 9 + 14] = Code("user")
    <3>1. Base(s) - 1 = f - 9 + 14 /\ Base(s) - 1 \in Nat /\ f + 4 < Base(s) - 1
          /\ Base(s) - 1 < 30 * s + 30
        BY <1>5, <2>1
    <3>2. n[Base(s) - 1] = mem[Base(s) - 1]
        BY <2>2, <3>1
    <3>3. QED
        BY <2>1, <3>1, <3>2
  <2>4. Called(n, s)
    <3>1. n[Base(s)] = mem[Base(s)]
        BY <1>5, <2>1, <2>2
    <3>2. s \in Blocks => n[Top(s) - 5] = mem[Top(s) - 5] /\ n[Top(s) - 2] = mem[Top(s) - 2]
        BY <1>5, <1>6, <2>1, <2>2
    <3>3. QED
        BY <2>1, <3>1, <3>2 DEF Called
  <2>5. f - 9 = Base(s) - 15
    BY <2>1
  <2>6. Yielded(n, s, f - 9)
    BY <1>15, <2>1, <2>3, <2>4, <2>5 DEF Yielded
  <2>7. Saved(n, f)
    BY <1>3, <1>15, <2>1, <2>6 DEF Saved
  <2>8. QED
    BY <1>3, <1>5, <1>14, <1>19, <2>7 DEF Runnable
<1>24. ASSUME c = "recycle" PROVE Recycled(f)'
  <2>1. s \in FiberBlocks /\ f = FirstStruct(s)
    BY <1>5, <1>10, <1>24 DEF FirstStruct
  <2>2. Gone(n, f)
    BY <1>3, <1>15, <2>1 DEF Gone
  <2>3. QED
    BY <1>3, <1>14, <1>19, <2>1, <2>2 DEF Recycled
<1>25. GoesOn(t, sp[t] + 3)'
  <2>1. sp'[t] + 3 = x
    BY <1>8, <1>17
  <2>2. \A y \in Region(q) : x <= y => n[y] = mem[y]
    <3>1. \A y \in Region(q) : y \in Addr /\ y \in Nat /\ StackOf(y) = q
        BY <1>9, RegionIs DEF Addr
    <3>2. QED
        BY <1>8, <1>15, <3>1
  <2>3. (FiberAt(mem, q, x) => FiberAt(n, q, x)) /\ (LoopAt(mem, q, x) => LoopAt(n, q, x))
    BY <2>2, SameAbove
  <2>4. GoesOn(t, x)'
    BY <1>7, <1>14, <1>17, <1>19, <2>3 DEF GoesOn
  <2>5. QED
    BY <2>1, <2>4
<1>26. ThreadOK(t)'
  <2>1. c = "enqueue" \/ c = "recycle"
    BY <1>1, <1>10
  <2>2. \/ mem'[sp'[t]] = Code("enqueue") /\ Runnable(Data(t))'
        \/ mem'[sp'[t]] = Code("recycle") /\ Recycled(Data(t))'
    <3>1. (Runnable(f)' => Runnable(Data(t))') /\ (Recycled(f)' => Recycled(Data(t))')
        BY <1>18 DEF Runnable, Recycled
    <3>2. QED
        BY <1>18, <1>23, <1>24, <2>1, <3>1
  <2>3. mem'[sp'[t] + 1] = Ptr(Data(t)' + 3) /\ mem'[Data(t)' + 4] = Ptr(Data(t)')
    BY <1>18
  <2>4. QED
    BY <1>17, <1>25, <2>2, <2>3 DEF ThreadOK
<1>27. CellOK(t)'
  <2> SUFFICES ASSUME q # LoopStack(t)
               PROVE  \E y \in Addr : n[Cell(t)] = Ptr(y) /\ LoopAt(n, LoopStack(t), y)
    BY <1>14, <1>17 DEF CellOK
  <2>1. LoopStack(t) # s
    BY <1>4, <1>5
  <2>2. PICK y \in Addr : mem[Cell(t)] = Ptr(y) /\ LoopAt(mem, LoopStack(t), y)
    BY <1>1, <1>2, <1>3, <2>1 DEF CellOK
  <2>3. n[Cell(t)] = mem[Cell(t)]
    <3>1. Cell(t) \in Addr /\ StackOf(Cell(t)) \notin Stacks
        BY CellIs
    <3>2. StackOf(Cell(t)) \notin {s, q}
        BY <1>5, <3>1
    <3>3. QED
        BY <1>15, <3>1, <3>2
  <2>4. \A a \in Region(LoopStack(t)) : n[a] = mem[a]
    <3>1. \A a \in Region(LoopStack(t)) : a \in Addr /\ StackOf(a) = LoopStack(t)
        BY <1>4, RegionIs DEF Addr
    <3>2. LoopStack(t) \notin {s, q}
        BY <2>1
    <3>3. QED
        BY <1>15, <3>1, <3>2
  <2>5. LoopAt(n, LoopStack(t), y)
    BY <1>4, <2>2, <2>4, SameWords
  <2>6. QED
    BY <2>2, <2>3, <2>5
<1>28. ASSUME NEW h \in fiber_pool PROVE mem'[Top(h)] = <<"block", h>>
  <2>1. h \in Stacks /\ Top(h) = 30 * h + 28 /\ h \in Nat
    BY <1>4, BaseIs, RegionIs
  <2>2. Top(h) \in Addr /\ StackOf(Top(h)) = h
    BY <2>1, RegionIs
  <2>3. n[Top(h)] = mem[Top(h)]
    <3>1. CASE h = s
        <4>1. f + 4 < Top(h)
            BY <1>6, <2>1, <3>1
        <4>2. QED
            BY <1>15, <2>2, <3>1, <4>1
    <3>2. CASE h = q
        <4>1. b + 3 < Top(h)
            BY <1>7, <1>8, <1>9, <2>1, <3>2
        <4>2. QED
            BY <1>15, <2>2, <3>2, <4>1
    <3>3. CASE h \notin {s, q}
        BY <1>15, <2>2, <3>3
    <3>4. QED
        BY <3>1, <3>2, <3>3
  <2>4. QED
    BY <1>1, <1>14, <2>3 DEF Headers
<1>29. Once'
  <2>1. StackOf(sp'[t]) = q /\ StackOf(Data(t))' = s
    BY <1>3, <1>17, <1>18
  <2>2. q \in FiberStacks => Holds("node", t, q)
    BY <1>4, <1>7
  <2>3. UNCHANGED lists
    BY <1>14
  <2>4. QED
    BY <1>17, <1>19, <1>20, <1>21, <2>1, <2>2, <2>3, OnceLeft
<1>30. FrameTypeOK'
    BY <1>1, <1>14, <1>15, <1>17 DEF FrameTypeOK, lists
<1>31. UNCHANGED <<fiber_list, disposed_fiber_list>>
    BY <1>14 DEF lists
<1>32. QED
    BY <1>19, <1>21, <1>26, <1>27, <1>28, <1>29, <1>30, <1>31, Assemble

-----------------------------------------------------------------------------
(* The words that fiber_spawn_stack_top writes.                            *)
HasFrame(n, m, b, l) ==
    /\ Fresh(n, b, Top(b) - 5, l)
    /\ \A y \in Addr : y < Top(b) - 5 \/ Top(b) <= y => n[y] = m[y]

LEMMA SpawnFrameAt ==
    ASSUME NEW m, NEW b \in Blocks, b \in Stacks, NEW l
    PROVE  HasFrame(SpawnFrame(m, b, l), m, b, l)
<1>1. PICK a \in Nat : a = Top(b) - 5 /\ a + 4 < 30 * b + 30 /\ 30 * b <= a /\ a + 5 = Top(b)
    BY BaseIs, RegionIs
<1>2. a \in Addr /\ a + 1 \in Addr /\ a + 2 \in Addr /\ a + 3 \in Addr
  <2>1. \A y \in Nat : 30 * b <= y /\ y < 30 * b + 30 => y \in Addr
    BY RegionIs
  <2>2. b \in Nat
    BY RegionIs
  <2>3. QED
    BY <1>1, <2>1, <2>2
<1>3. PICK w : w = <<Code("entrance"), Code(l), Local(b), Code("exit"), <<"sched", 0>>>>
    OBVIOUS
<1>4. /\ Len(w) = 5 /\ w[1] = Code("entrance") /\ w[2] = Code(l) /\ w[3] = Local(b)
      /\ w[4] = Code("exit")
    BY <1>3
<1>5. PICK n : n = Write(m, a, w)
    OBVIOUS
<1>6. \A y \in Addr : n[y] = IF y \in a..(a + Len(w) - 1) THEN w[y - a + 1] ELSE m[y]
    BY <1>5 DEF Write
<1>7. \A y \in Addr : y \in a..(a + Len(w) - 1) <=> a <= y /\ y <= a + 4
    BY <1>4 DEF Addr
<1>8. n[a] = w[1] /\ n[a + 1] = w[2] /\ n[a + 2] = w[3] /\ n[a + 3] = w[4]
  <2>1. /\ a \in a..(a + Len(w) - 1) /\ a + 1 \in a..(a + Len(w) - 1)
        /\ a + 2 \in a..(a + Len(w) - 1) /\ a + 3 \in a..(a + Len(w) - 1)
    BY <1>2, <1>7
  <2>2. /\ n[a] = w[a - a + 1] /\ n[a + 1] = w[(a + 1) - a + 1]
        /\ n[a + 2] = w[(a + 2) - a + 1] /\ n[a + 3] = w[(a + 3) - a + 1]
    BY <1>2, <1>6, <2>1
  <2>3. /\ a - a + 1 = 1 /\ (a + 1) - a + 1 = 2 /\ (a + 2) - a + 1 = 3
        /\ (a + 3) - a + 1 = 4
    BY <1>1
  <2>4. QED
    BY <2>2, <2>3
<1>9. \A y \in Addr : y < a \/ a + 5 <= y => n[y] = m[y]
  <2>1. \A y \in Addr : y < a \/ a + 5 <= y => y \notin a..(a + Len(w) - 1)
    BY <1>7 DEF Addr
  <2>2. QED
    BY <1>6, <2>1
<1>10. n = SpawnFrame(m, b, l)
    BY <1>1, <1>3, <1>5 DEF SpawnFrame
<1>11. Fresh(n, b, a, l)
    BY <1>1, <1>4, <1>8 DEF Fresh
<1>12. HasFrame(n, m, b, l)
    BY <1>1, <1>9, <1>11 DEF HasFrame
<1>13. QED
    BY <1>10, <1>12

(* The memory n after fiber_spawn_impl, called with the stack pointer a,   *)
(* has queued block b.                                                     *)
HasQueued(n, m, b, a) ==
    /\ IsMemory(n)
    /\ Saved(n, FirstStruct(b)) /\ Links(n, FirstStruct(b))
    /\ \A y \in Addr :
          \/ StackOf(y) \notin {StackOf(a), b}
          \/ StackOf(y) = StackOf(a) /\ a <= y
          \/ StackOf(y) = b /\ Top(b) <= y
          => n[y] = m[y]

LEMMA QueuedAt ==
    ASSUME NEW t, NEW m, NEW b \in Blocks, b \in Stacks, sp[t] \in Nat,
           StackOf(sp[t]) # b, Queue(t, m, b)
    PROVE  /\ HasQueued(mem', m, b, sp[t])
           /\ fiber_list' = Append(fiber_list, FirstStruct(b))
<1>1. b \in Nat /\ \A y \in Nat : 30 * b <= y /\ y < 30 * b + 30 => y \in Addr /\ StackOf(y) = b
    BY RegionIs
<1>2. PICK f \in Nat : /\ f = FirstStruct(b) /\ f = 30 * b + 18
                       /\ Top(b) - 5 = f + 5 /\ Top(b) = f + 10
    BY <1>1, BaseIs
<1>3. f \in Addr /\ f + 1 \in Addr /\ f + 1 + 1 = f + 2 /\ f + 2 \in Addr /\ StackOf(f) = b
    BY <1>1, <1>2
<1>4. PICK m1 : m1 = SpawnFrame(m, b, "user") /\ HasFrame(m1, m, b, "user")
    BY SpawnFrameAt
<1>5. PICK v : v = Ptr(f + 5)
    OBVIOUS
<1>6. PICK m2 : /\ m2 = Put(m1, f, v)
                /\ m2[f] = v
                /\ \A y \in Addr : y # f => m2[y] = m1[y]
    BY <1>3, PutAt
<1>7. PICK m3 : /\ m3 = Enlist(m2, f)
                /\ m3[f + 1] = Linked /\ m3[f + 2] = Linked
                /\ \A y \in Addr : y # f + 1 /\ y # f + 2 => m3[y] = m2[y]
  <2>1. PICK a \in Addr : a = f + 1
    BY <1>3
  <2>2. PICK l : l = Linked
    OBVIOUS
  <2>3. PICK n : /\ n = Put2(m2, a, l, l)
                 /\ n[a] = l /\ n[a + 1] = l
                 /\ \A x \in Addr : x # a /\ x # a + 1 => n[x] = m2[x]
    <3>1. a + 1 \in Addr
        BY <1>3, <2>1
    <3>2. QED
        BY <3>1, Put2At
  <2>4. QED
    BY <1>3, <2>1, <2>2, <2>3 DEF Enlist, Put2
<1>8. mem' = Scribble(m3, sp[t]) /\ fiber_list' = Append(fiber_list, f)
  <2>1. v = Ptr(Top(b) - 5)
    BY <1>2, <1>5
  <2>2. QED
    BY <1>2, <1>4, <1>6, <1>7, <2>1 DEF Queue, Put
<1>9. PICK n : n = mem'
    OBVIOUS
<1>10. /\ IsMemory(n)
       /\ \A y \in Addr : StackOf(y) # StackOf(sp[t]) \/ sp[t] <= y => n[y] = m3[y]
    BY <1>8, <1>9, MemoryStays, ScribbleAt
<1>11. \A y \in Addr : StackOf(y) = b => n[y] = m3[y]
    BY <1>10
<1>12. Links(n, f)
  <2>1. StackOf(f + 1) = b /\ StackOf(f + 2) = b
    BY <1>1, <1>2
  <2>2. QED
    BY <1>3, <1>7, <1>11, <2>1 DEF Links
<1>13. n[f] = Ptr(f + 5)
    BY <1>2, <1>3, <1>5, <1>6, <1>7, <1>11
<1>14. Fresh(n, b, f + 5, "user")
  <2>1. Fresh(m1, b, f + 5, "user")
    BY <1>2, <1>4 DEF HasFrame
  <2>2. \A y \in Nat : f + 5 <= y /\ y < f + 10 => y \in Addr /\ StackOf(y) = b
    BY <1>1, <1>2
  <2>3. \A y \in Nat : f + 5 <= y /\ y < f + 10 => n[y] = m1[y]
    BY <1>2, <1>6, <1>7, <1>11, <2>2
  <2>4. QED
    BY <1>2, <2>1, <2>3 DEF Fresh
<1>15. Saved(n, f)
    BY <1>2, <1>3, <1>13, <1>14 DEF Saved
<1>16. ASSUME NEW y \in Addr,
              \/ StackOf(y) \notin {StackOf(sp[t]), b}
              \/ StackOf(y) = StackOf(sp[t]) /\ sp[t] <= y
              \/ StackOf(y) = b /\ Top(b) <= y
       PROVE  n[y] = m[y]
  <2>1. n[y] = m3[y]
    BY <1>10, <1>11, <1>16
  <2>2. StackOf(y) # b \/ Top(b) <= y
    BY <1>16
  <2>3. y \in Nat
    BY DEF Addr
  <2>4. y < f \/ f + 10 <= y
    BY <1>1, <1>2, <2>2, <2>3
  <2>5. y # f /\ y # f + 1 /\ y # f + 2
    BY <1>2, <2>3, <2>4
  <2>6. m3[y] = m1[y]
    BY <1>6, <1>7, <2>5
  <2>7. m1[y] = m[y]
    <3>1. y < Top(b) - 5 \/ Top(b) <= y
        BY <1>2, <2>3, <2>4
    <3>2. QED
        BY <1>4, <3>1 DEF HasFrame
  <2>8. QED
    BY <2>1, <2>6, <2>7
<1>17. HasQueued(n, m, b, sp[t])
    BY <1>2, <1>10, <1>12, <1>15, <1>16 DEF HasQueued
<1>18. QED
    BY <1>2, <1>8, <1>9, <1>17

(* What the two ways to spawn a fiber have in common: the block b is t's   *)
(* or nobody's, and m is the memory with the header of the block.          *)
LEMMA Spawning ==
    ASSUME FrameInv, NEW t \in Threads, InFiber(t, 0), pc[t] \in {"user", "spawn"},
           NEW b \in Blocks, b # 0, b # StackOf(sp[t]), Uses(t, b) \/ b \notin fiber_pool,
           NEW m, \A y \in Addr : StackOf(y) # b => m[y] = mem[y],
           m[Top(b)] = <<"block", b>>,
           Queue(t, m, b), fiber_pool' = fiber_pool \cup {b}, pc'[t] = "user",
           pc' = [pc EXCEPT ![t] = "user"],
           UNCHANGED <<sp, regs, node, disposed_fiber_list>>
    PROVE  /\ StepOf(t) /\ ThreadOK(t)' /\ CellOK(t)' /\ IsMemory(mem')
           /\ \A h \in fiber_pool' : mem'[Top(h)] = <<"block", h>>
           /\ Runnable(FirstStruct(b))' /\ Links(mem', FirstStruct(b))
           /\ FirstStruct(b) \in Addr /\ StackOf(FirstStruct(b)) = b
           /\ fiber_list' = Append(fiber_list, FirstStruct(b))
<1>1. FrameTypeOK /\ Headers /\ CellOK(t)
    BY DEF FrameInv
<1>2. /\ FiberStacks \subseteq Stacks /\ fiber_pool \subseteq Stacks /\ Blocks \subseteq Stacks
      /\ LoopStack(t) \in Stacks /\ LoopStack(t) \notin FiberStacks
      /\ LoopStack(t) \in Blocks => t = 0
    BY <1>1, StackKinds DEF FrameTypeOK
<1>3. PICK s : s = StackOf(sp[t])
    OBVIOUS
<1>4. /\ s \in FiberStacks /\ s \in Stacks /\ s \in Nat /\ s # b
      /\ sp[t] = Base(s) - 0 /\ regs[t] = Own(s) /\ Called(mem, s)
    BY <1>2, <1>3, RegionIs DEF InFiber
<1>5. /\ sp[t] \in Nat /\ sp[t] = Base(s) /\ 30 * s + 22 <= sp[t]
      /\ Top(s) = 30 * s + 28 /\ sp[t] <= Top(s)
      /\ s \in Blocks => Top(s) - 5 = sp[t] + 1 /\ Top(s) - 2 = sp[t] + 4
    BY <1>4, BaseIs
<1>6. b \in Stacks /\ b \in Nat /\ b # LoopStack(t)
    BY <1>2, RegionIs DEF LoopStack
<1>7. PICK f : f = FirstStruct(b)
    OBVIOUS
<1>8. f \in Addr /\ StackOf(f) = b
  <2>1. f = 30 * b + 18 /\ f \in Nat
    BY <1>6, <1>7, BaseIs
  <2>2. QED
    BY <1>6, <2>1, RegionIs
<1>9. HasQueued(mem', m, b, sp[t]) /\ fiber_list' = Append(fiber_list, f)
  <2>1. StackOf(sp[t]) # b
    BY <1>3, <1>4
  <2>2. QED
    BY <1>5, <1>6, <1>7, <2>1, QueuedAt
<1>10. /\ IsMemory(mem') /\ Saved(mem', f) /\ Links(mem', f)
       /\ \A y \in Addr : StackOf(y) \notin {s, b} => mem'[y] = mem[y]
       /\ \A y \in Addr : StackOf(y) = s /\ sp[t] <= y => mem'[y] = mem[y]
       /\ \A y \in Addr : StackOf(y) = b /\ Top(b) <= y => mem'[y] = m[y]
    BY <1>3, <1>4, <1>7, <1>9 DEF HasQueued
<1>11. /\ FiberStacks \subseteq FiberStacks' /\ FiberBlocks \subseteq FiberBlocks'
       /\ b \in FiberStacks'
    BY DEF FiberStacks, FiberBlocks
<1>12. StepOf(t)
  <2>1. OthersStay(t)
    BY <1>1 DEF OthersStay, FrameTypeOK
  <2>2. Uses(t, s)
    BY <1>3 DEF Uses, Holds
  <2>3. \A y \in Addr :
           \/ mem'[y] = mem[y]
           \/ Uses(t, StackOf(y))
           \/ StackOf(y) \in Blocks \ fiber_pool
    BY <1>10, <2>2
  <2>4. fiber_pool' \subseteq Blocks
    BY <1>1 DEF FrameTypeOK
  <2>5. QED
    BY <2>1, <2>3, <2>4 DEF StepOf, OthersStay
<1>13. Called(mem', s)
  <2>1. \A y \in Nat : 30 * s <= y /\ y < 30 * s + 30 => y \in Addr /\ StackOf(y) = s
    BY <1>4, RegionIs
  <2>2. \A y \in Nat : sp[t] <= y /\ y < 30 * s + 30 => mem'[y] = mem[y]
    BY <1>4, <1>5, <1>10, <2>1
  <2>3. mem'[Base(s)] = mem[Base(s)]
    BY <1>4, <1>5, <2>2
  <2>4. s \in Blocks => mem'[Top(s) - 5] = mem[Top(s) - 5] /\ mem'[Top(s) - 2] = mem[Top(s) - 2]
    BY <1>4, <1>5, <2>2
  <2>5. QED
    BY <1>4, <2>3, <2>4 DEF Called
<1>14. InFiber(t, 0)'
    BY <1>3, <1>4, <1>11, <1>13 DEF InFiber
<1>15. ThreadOK(t)'
    BY <1>14 DEF ThreadOK
<1>16. CellOK(t)'
  <2> SUFFICES ASSUME s # LoopStack(t)
               PROVE  \E y \in Addr : mem'[Cell(t)] = Ptr(y) /\ LoopAt(mem', LoopStack(t), y)
    BY <1>3 DEF CellOK
  <2>1. PICK y \in Addr : mem[Cell(t)] = Ptr(y) /\ LoopAt(mem, LoopStack(t), y)
    BY <1>1, <1>3 DEF CellOK
  <2>2. mem'[Cell(t)] = mem[Cell(t)]
    <3>1. Cell(t) \in Addr /\ StackOf(Cell(t)) \notin Stacks
        BY CellIs
    <3>2. StackOf(Cell(t)) \notin {s, b}
        BY <1>4, <1>6, <3>1
    <3>3. QED
        BY <1>10, <3>1, <3>2
  <2>3. \A a \in Region(LoopStack(t)) : mem'[a] = mem[a]
    <3>1. \A a \in Region(LoopStack(t)) : a \in Addr /\ StackOf(a) = LoopStack(t)
        BY <1>2, RegionIs DEF Addr
    <3>2. LoopStack(t) \notin {s, b}
        BY <1>6
    <3>3. QED
        BY <1>10, <3>1, <3>2
  <2>4. LoopAt(mem', LoopStack(t), y)
    BY <1>2, <2>1, <2>3, SameWords
  <2>5. QED
    BY <2>1, <2>2, <2>4
<1>17. ASSUME NEW h \in fiber_pool' PROVE mem'[Top(h)] = <<"block", h>>
  <2>1. h \in Stacks
    BY <1>2, <1>6
  <2>2. Top(h) = 30 * h + 28 /\ h \in Nat
    BY <2>1, BaseIs, RegionIs
  <2>3. Top(h) \in Addr /\ StackOf(Top(h)) = h
    BY <2>1, <2>2, RegionIs
  <2>4. CASE h = b
    <3>1. Top(b) <= Top(h)
        BY <2>2, <2>4
    <3>2. mem'[Top(h)] = m[Top(h)]
        BY <1>10, <2>3, <2>4, <3>1
    <3>3. QED
        BY <2>4, <3>2
  <2>5. CASE h # b
    <3>1. mem'[Top(h)] = mem[Top(h)]
        BY <1>5, <1>10, <2>3, <2>5
    <3>2. mem[Top(h)] = <<"block", h>>
        BY <1>1, <2>5 DEF Headers
    <3>3. QED
        BY <3>1, <3>2
  <2>6. QED
    BY <2>4, <2>5
<1>18. Runnable(f)'
    BY <1>8, <1>10, <1>11 DEF Runnable
<1>19. QED
    BY <1>7, <1>8, <1>9, <1>10, <1>12, <1>15, <1>16, <1>17, <1>18

LEMMA SpawnReuseStep ==
    ASSUME FrameInv, NEW t \in Threads, SpawnReuse(t)
    PROVE  FrameInv'
<1>1. /\ FrameTypeOK /\ Once /\ Headers /\ ThreadOK(t) /\ pc[t] = "spawn" /\ t \in Nat
    BY DEF FrameInv, SpawnReuse, Threads
<1>2. PICK g : g = node[t]
    OBVIOUS
<1>3. InFiber(t, 0) /\ Recycled(g) /\ g # Cell(t)
    BY <1>1, <1>2 DEF ThreadOK
<1>4. PICK q : q = StackOf(g)
    OBVIOUS
<1>5. /\ FiberBlocks \subseteq Blocks /\ Blocks \subseteq Stacks /\ FiberBlocks \subseteq FiberStacks
    BY <1>1, StackKinds DEF FrameTypeOK, FiberStacks
<1>6. /\ q \in FiberBlocks /\ q \in Stacks /\ q \in Nat /\ q \in fiber_pool /\ q # 0 /\ q \in Blocks
      /\ g = FirstStruct(q) /\ mem[g] = Ptr(g - 9)
    BY <1>3, <1>4, <1>5, RegionIs DEF Recycled, Gone, FiberBlocks
<1>7. Query(fiber_pool, mem[g][2]) = {q}
  <2>1. PICK a \in Nat : a = g - 9 /\ a = 30 * q + 9
    BY <1>6, BaseIs
  <2>2. InRange(q, a)
    BY <1>6, <2>1, BaseIs DEF InRange, Size
  <2>3. fiber_pool \in SUBSET Blocks
    BY <1>1 DEF FrameTypeOK
  <2>4. Query(fiber_pool, a) = {q}
    BY <1>6, <2>2, <2>3, QueryFinds
  <2>5. mem[g][2] = a
    BY <1>6, <2>1, Words
  <2>6. QED
    BY <2>4, <2>5
<1>8. /\ Queue(t, mem, q)
      /\ pc' = [pc EXCEPT ![t] = "user"]
      /\ UNCHANGED <<sp, regs, node, disposed_fiber_list, fiber_pool>>
    BY <1>2, <1>7 DEF SpawnReuse, GoTo
<1>9. pc'[t] = "user" /\ pc' \in [Threads -> Labels]
    BY <1>1, <1>8 DEF FrameTypeOK, Labels
<1>10. Holds("node", t, q) /\ Uses(t, q)
    BY <1>1, <1>2, <1>3, <1>4 DEF Holds, Uses
<1>11. q # StackOf(sp[t])
  <2>1. Holds("run", t, StackOf(sp[t]))
    BY DEF Holds
  <2>2. q \in FiberStacks
    BY <1>5, <1>6
  <2>3. QED
    BY <1>1, <1>10, <2>1, <2>2 DEF Once, Kinds
<1>12. /\ StepOf(t) /\ ThreadOK(t)' /\ CellOK(t)' /\ IsMemory(mem')
       /\ \A h \in fiber_pool' : mem'[Top(h)] = <<"block", h>>
       /\ Runnable(g)' /\ Links(mem', g)
       /\ g \in Addr /\ StackOf(g) = q
       /\ fiber_list' = Append(fiber_list, g)
  <2>1. mem[Top(q)] = <<"block", q>>
    BY <1>1, <1>6 DEF Headers
  <2>2. fiber_pool' = fiber_pool \cup {q}
    BY <1>6, <1>8
  <2>3. PICK m : m = mem
    OBVIOUS
  <2>4. /\ \A y \in Addr : StackOf(y) # q => m[y] = mem[y]
        /\ m[Top(q)] = <<"block", q>> /\ Queue(t, m, q)
    BY <1>8, <2>1, <2>3
  <2>5. UNCHANGED <<sp, regs, node, disposed_fiber_list>>
    BY <1>8
  <2>6. /\ StepOf(t) /\ ThreadOK(t)' /\ CellOK(t)' /\ IsMemory(mem')
        /\ \A h \in fiber_pool' : mem'[Top(h)] = <<"block", h>>
        /\ Runnable(FirstStruct(q))' /\ Links(mem', FirstStruct(q))
        /\ FirstStruct(q) \in Addr /\ StackOf(FirstStruct(q)) = q
        /\ fiber_list' = Append(fiber_list, FirstStruct(q))
    BY <1>1, <1>3, <1>6, <1>8, <1>9, <1>10, <1>11, <2>2, <2>4, <2>5, Spawning
  <2>7. Runnable(FirstStruct(q))' => Runnable(g)'
    BY <1>6 DEF Runnable
  <2>8. QED
    BY <1>6, <2>6, <2>7
<1>13. g \notin Range(fiber_list) /\ g \in Nat
    BY <1>4, <1>10, <1>12, Apart DEF Addr
<1>14. /\ fiber_list' \in Seq(Addr) /\ IsInjective(fiber_list')
       /\ Range(fiber_list') = Range(fiber_list) \cup {g}
    BY <1>1, <1>12, <1>13, PutLast DEF FrameTypeOK, Once
<1>15. FiberStacks' = FiberStacks
    BY <1>8 DEF FiberStacks, FiberBlocks
<1>16. Once'
  <2>1. \A r \in FiberStacks, k \in {"run", "node", "deferred"} : Holds(k, t, r)' =>
           Holds(k, t, r) /\ k # "node"
    BY <1>8, <1>9 DEF Holds
  <2>2. \A r \in FiberStacks, k \in {"run", "node", "deferred"} : Holds(k, t, r)' =>
           \/ Holds(k, t, r) /\ <<k, t>> # <<"node", t>>
           \/ <<k, t>> = <<"list", g>> /\ Holds("node", t, r)
    BY <2>1
  <2>3. \A r \in FiberStacks, k \in {"list", "disposed"}, h \in Nat : Holds(k, h, r)' =>
           \/ Holds(k, h, r) /\ <<k, h>> # <<"node", t>>
           \/ <<k, h>> = <<"list", g>> /\ Holds("node", t, r)
    BY <1>4, <1>8, <1>10, <1>14 DEF Holds
  <2>4. Moves("node", t, "list", g)
    BY <1>1, <1>12, <1>13, <2>2, <2>3, MovesBy DEF Kinds
  <2>5. QED
    BY <1>1, <1>8, <1>13, <1>14, <1>15, <2>4, OnceMoved DEF Kinds, Once
<1>17. FrameTypeOK'
    BY <1>1, <1>8, <1>9, <1>12, <1>14 DEF FrameTypeOK
<1>18. QED
    BY <1>8, <1>12, <1>14, <1>16, <1>17, Assemble

(* A fresh block is nobody's.                                              *)
LEMMA FreshBlock ==
    ASSUME FrameInv, NEW b \in Blocks \ fiber_pool
    PROVE  /\ b # 0 /\ b \notin FiberStacks
           /\ \A k \in Kinds, h \in Nat : ~Holds(k, h, b)
<1>1. FrameTypeOK /\ ListsOK
    BY DEF FrameInv
<1>2. OwnStack(0) \notin Blocks /\ b # 0
  <2>1. 0 \in Threads
    BY Sizes DEF Threads
  <2>2. QED
    BY <1>1, <2>1, StackKinds DEF FrameTypeOK
<1>3. b \notin FiberStacks /\ FiberBlocks \subseteq FiberStacks
    BY <1>2 DEF FiberStacks, FiberBlocks
<1>4. ASSUME NEW h \in Threads PROVE b # LoopStack(h)
    BY <1>1, <1>2, StackKinds DEF FrameTypeOK, LoopStack
<1>5. ASSUME NEW k \in Kinds, NEW h \in Nat, Holds(k, h, b) PROVE FALSE
  <2>1. CASE k \in {"run", "node", "deferred"}
    <3>1. h \in Threads /\ Uses(h, b)
        BY <1>5, <2>1 DEF Holds, Uses
    <3>2. QED
        BY <1>3, <1>4, <3>1, UsedStacks
  <2>2. CASE k \in {"list", "disposed"}
    BY <1>1, <1>3, <1>5, <2>2 DEF Holds, ListsOK, Runnable, Recycled
  <2>3. QED
    BY <2>1, <2>2 DEF Kinds
<1>6. QED
    BY <1>2, <1>3, <1>5

LEMMA MapBlockAt ==
    ASSUME NEW m, NEW b \in Blocks, b \in Stacks
    PROVE  /\ MapBlock(m, b)[Top(b)] = <<"block", b>>
           /\ \A y \in Addr : y < Top(b) \/ Top(b) + 2 <= y => MapBlock(m, b)[y] = m[y]
           /\ \A y \in Addr : StackOf(y) # b => MapBlock(m, b)[y] = m[y]
<1>1. PICK a \in Nat : a = Top(b) /\ a = 30 * b + 28
    BY BaseIs, RegionIs
<1>2. a \in Addr /\ a + 1 \in Addr /\ StackOf(a) = b /\ StackOf(a + 1) = b
  <2>1. \A y \in Nat : 30 * b <= y /\ y < 30 * b + 30 => y \in Addr /\ StackOf(y) = b
    BY RegionIs
  <2>2. b \in Nat
    BY RegionIs
  <2>3. QED
    BY <1>1, <2>1, <2>2
<1>3. PICK v : v = <<"block", b>>
    OBVIOUS
<1>4. PICK n : /\ n = Put2(m, a, v, v)
               /\ n[a] = v
               /\ \A x \in Addr : x # a /\ x # a + 1 => n[x] = m[x]
    BY <1>2, Put2At
<1>5. n = MapBlock(m, b)
    BY <1>1, <1>3, <1>4 DEF MapBlock, Put2
<1>6. \A y \in Addr : y < a \/ a + 2 <= y => y # a /\ y # a + 1
    BY DEF Addr
<1>7. QED
    BY <1>1, <1>2, <1>3, <1>4, <1>5, <1>6

LEMMA SpawnNewStep ==
    ASSUME FrameInv, NEW t \in Threads, SpawnNew(t)
    PROVE  FrameInv'
<1>1. /\ FrameTypeOK /\ Once /\ ListsOK /\ ThreadOK(t) /\ pc[t] = "user" /\ InFiber(t, 0)
    BY DEF FrameInv, SpawnNew, ThreadOK
<1>2. PICK b \in Blocks \ fiber_pool :
         fiber_pool' = fiber_pool \cup {b} /\ Queue(t, MapBlock(mem, b), b)
    BY DEF SpawnNew
<1>3. UNCHANGED <<sp, regs, pc, node, disposed_fiber_list>>
    BY DEF SpawnNew
<1>4. /\ b # 0 /\ b \notin FiberStacks
      /\ \A k \in Kinds, h \in Nat : ~Holds(k, h, b)
    BY FreshBlock
<1>5. Blocks \subseteq Stacks /\ b \in Blocks /\ b \in Stacks /\ b \notin fiber_pool
    BY <1>1, StackKinds DEF FrameTypeOK
<1>6. b # StackOf(sp[t])
    BY <1>1, <1>4 DEF InFiber
<1>7. PICK m : m = MapBlock(mem, b)
    OBVIOUS
<1>8. PICK f : f = FirstStruct(b)
    OBVIOUS
<1>9. /\ StepOf(t) /\ ThreadOK(t)' /\ CellOK(t)' /\ IsMemory(mem')
      /\ \A h \in fiber_pool' : mem'[Top(h)] = <<"block", h>>
      /\ Runnable(f)' /\ Links(mem', f)
      /\ f \in Addr /\ StackOf(f) = b
      /\ fiber_list' = Append(fiber_list, f)
  <2>1. m[Top(b)] = <<"block", b>> /\ \A y \in Addr : StackOf(y) # b => m[y] = mem[y]
    BY <1>5, <1>7, MapBlockAt
  <2>2. Queue(t, m, b)
    BY <1>2, <1>7
  <2>3. pc'[t] = "user" /\ pc' = [pc EXCEPT ![t] = "user"]
    BY <1>1, <1>3 DEF FrameTypeOK
  <2>4. UNCHANGED <<sp, regs, node, disposed_fiber_list>>
    BY <1>3
  <2>5. /\ StepOf(t) /\ ThreadOK(t)' /\ CellOK(t)' /\ IsMemory(mem')
        /\ \A h \in fiber_pool' : mem'[Top(h)] = <<"block", h>>
        /\ Runnable(FirstStruct(b))' /\ Links(mem', FirstStruct(b))
        /\ FirstStruct(b) \in Addr /\ StackOf(FirstStruct(b)) = b
        /\ fiber_list' = Append(fiber_list, FirstStruct(b))
    BY <1>1, <1>2, <1>4, <1>5, <1>6, <2>1, <2>2, <2>3, <2>4, Spawning
  <2>6. Runnable(FirstStruct(b))' => Runnable(f)'
    BY <1>8 DEF Runnable
  <2>7. QED
    BY <1>8, <2>5, <2>6
<1>10. f \in Nat /\ f \notin Range(fiber_list)
  <2>1. f \in Nat
    BY <1>9 DEF Addr
  <2>2. f \in Range(fiber_list) => Holds("list", f, b)
    BY <1>9 DEF Holds
  <2>3. QED
    BY <1>4, <2>1, <2>2 DEF Kinds
<1>11. /\ fiber_list' \in Seq(Addr) /\ IsInjective(fiber_list')
       /\ Range(fiber_list') = Range(fiber_list) \cup {f}
    BY <1>1, <1>9, <1>10, PutLast DEF FrameTypeOK, Once
<1>12. ASSUME NEW r, NEW k \in Kinds, NEW h \in Nat, Holds(k, h, r)'
       PROVE  Holds(k, h, r) \/ (k = "list" /\ h = f /\ r = b)
  <2>1. CASE k \in {"run", "node", "deferred"} /\ h = t
    BY <1>1, <1>3, <1>12, <2>1 DEF Holds
  <2>2. CASE k \in {"run", "node", "deferred"} /\ h # t
    <3>1. h \in Threads \ {t}
        BY <1>12, <2>2 DEF Holds
    <3>2. QED
        BY <1>9, <1>12, <2>2, <3>1, HoldsKept
  <2>3. CASE k = "list"
    <3>1. h \in Range(fiber_list') /\ StackOf(h) = r
        BY <1>12, <2>3 DEF Holds
    <3>2. CASE h = f
        BY <1>9, <2>3, <3>1, <3>2
    <3>3. CASE h \in Range(fiber_list)
        BY <2>3, <3>1, <3>3 DEF Holds
    <3>4. QED
        BY <1>11, <3>1, <3>2, <3>3
  <2>4. CASE k = "disposed"
    BY <1>3, <1>12, <2>4 DEF Holds
  <2>5. QED
    BY <2>1, <2>2, <2>3, <2>4 DEF Kinds
<1>13. FiberStacks' = FiberStacks \cup {b}
    BY <1>2, <1>4 DEF FiberStacks, FiberBlocks
<1>14. Once'
  <2>1. ASSUME NEW r \in FiberStacks', NEW k1 \in Kinds, NEW k2 \in Kinds,
               NEW h1 \in Nat, NEW h2 \in Nat, Holds(k1, h1, r)', Holds(k2, h2, r)'
        PROVE  k1 = k2 /\ h1 = h2
    <3>1. CASE r = b
        BY <1>4, <1>12, <2>1, <3>1
    <3>2. CASE r # b
        <4>1. r \in FiberStacks
            BY <1>13, <3>2
        <4>2. Holds(k1, h1, r) /\ Holds(k2, h2, r)
            BY <1>12, <2>1, <3>2
        <4>3. QED
            BY <1>1, <4>1, <4>2 DEF Once
    <3>3. QED
        BY <3>1, <3>2
  <2>2. QED
    BY <1>1, <1>3, <1>11, <2>1 DEF Once
<1>15. FrameTypeOK'
    BY <1>1, <1>2, <1>3, <1>9, <1>11 DEF FrameTypeOK
<1>16. QED
    BY <1>3, <1>9, <1>11, <1>14, <1>15, Assemble

-----------------------------------------------------------------------------
LEMMA InitFrameInv == Init => FrameInv
<1> SUFFICES ASSUME Init PROVE FrameInv
    OBVIOUS
<1>1. /\ sp = [t \in Threads |-> Top(OwnStack(t))]
      /\ regs = [t \in Threads |-> Own(OwnStack(t))]
      /\ pc = [t \in Threads |-> IF t = 0 THEN "user" ELSE "loop"]
      /\ node = [t \in Threads |-> Cell(t)]
      /\ fiber_list = <<>> /\ disposed_fiber_list = <<>>
      /\ fiber_pool = {0}
    BY DEF Init
<1>2. 0 \in Blocks /\ fiber_pool \in SUBSET Blocks /\ 0 \in Threads
    BY <1>1, Sizes DEF Blocks, Threads
<1>3. /\ FiberStacks = {OwnStack(0)}
      /\ 0 \in Stacks /\ OwnStack(0) \in Stacks /\ OwnStack(0) \notin Blocks
      /\ OwnStack(0) \in Nat /\ OwnStack(0) # 0
    BY <1>1, <1>2, StackKinds, RegionIs DEF FiberStacks, FiberBlocks
<1>4. ASSUME NEW t \in Threads
      PROVE  /\ OwnStack(t) \in Stacks /\ OwnStack(t) \notin Blocks /\ OwnStack(t) \in Nat
             /\ Top(OwnStack(t)) \in Addr /\ Top(OwnStack(t)) = Base(OwnStack(t))
             /\ StackOf(Top(OwnStack(t))) = OwnStack(t)
             /\ OwnStack(t) = OwnStack(0) => t = 0
  <2>1. /\ OwnStack(t) \in Stacks /\ OwnStack(t) \notin Blocks
        /\ OwnStack(t) = OwnStack(0) => t = 0
    BY Sizes DEF OwnStack, Stacks, Blocks, Threads
  <2>2. /\ Top(OwnStack(t)) = 30 * OwnStack(t) + 28 /\ OwnStack(t) \in Nat
        /\ Base(OwnStack(t)) = 30 * OwnStack(t) + 28
    BY <2>1, BaseIs, RegionIs
  <2>3. Top(OwnStack(t)) \in Nat /\ Top(OwnStack(t)) \in Addr
        /\ StackOf(Top(OwnStack(t))) = OwnStack(t)
    BY <2>1, <2>2, RegionIs
  <2>4. QED
    BY <2>1, <2>2, <2>3
<1>5. /\ IsMemory(mem) /\ mem[Cell(0)] = Ptr(Top(0) - 5) /\ Fresh(mem, 0, Top(0) - 5, "loop")
      /\ mem[Top(0)] = <<"block", 0>> /\ mem[Top(OwnStack(0))] = Local(OwnStack(0))
  <2>1. PICK a \in Addr : a = Top(OwnStack(0)) /\ StackOf(a) = OwnStack(0)
    BY <1>2, <1>4
  <2>2. PICK c \in Addr : c = Cell(0) /\ StackOf(c) \notin Stacks
    BY <1>2, CellIs
  <2>3. PICK v : v = Local(OwnStack(0))
    OBVIOUS
  <2>4. PICK p : p = Ptr(Top(0) - 5)
    OBVIOUS
  <2>5. PICK m1 : m1 = [x \in Addr |-> Junk]
    OBVIOUS
  <2>6. PICK m2 : /\ m2 = Put(m1, a, v) /\ IsMemory(m2) /\ m2[a] = v
                  /\ \A y \in Addr : y # a => m2[y] = m1[y]
    BY PutAt
  <2>7. PICK m3 : /\ m3 = MapBlock(m2, 0) /\ m3[Top(0)] = <<"block", 0>>
                  /\ \A y \in Addr : StackOf(y) # 0 => m3[y] = m2[y]
    BY <1>2, <1>3, MapBlockAt
  <2>8. PICK m4 : m4 = SpawnFrame(m3, 0, "loop") /\ HasFrame(m4, m3, 0, "loop")
    BY <1>2, <1>3, SpawnFrameAt
  <2>9. PICK m5 : /\ m5 = Put(m4, c, p) /\ IsMemory(m5) /\ m5[c] = p
                  /\ \A y \in Addr : y # c => m5[y] = m4[y]
    BY PutAt
  <2>10. mem = m5
    BY <2>1, <2>2, <2>3, <2>4, <2>5, <2>6, <2>7, <2>8, <2>9 DEF Init, Put
  <2>11. /\ Top(0) = 28 /\ \A y \in Nat : y < 30 => y \in Addr /\ StackOf(y) = 0
    BY <1>3, BaseIs, RegionIs
  <2>12. \A y \in Nat : y < 30 => m5[y] = m4[y]
    BY <1>3, <2>2, <2>9, <2>11
  <2>13. Fresh(m5, 0, Top(0) - 5, "loop")
    BY <2>8, <2>11, <2>12 DEF HasFrame, Fresh
  <2>14. m5[Top(0)] = <<"block", 0>>
    BY <2>7, <2>8, <2>11, <2>12 DEF HasFrame
  <2>15. m5[a] = v
    <3>1. a # c /\ StackOf(a) # 0 /\ a \in Nat
        BY <1>3, <2>1, <2>2 DEF Addr
    <3>2. a < Top(0) - 5 \/ Top(0) <= a
        BY <2>11, <3>1
    <3>3. QED
        BY <2>6, <2>7, <2>8, <2>9, <3>1, <3>2 DEF HasFrame
  <2>16. QED
    BY <2>1, <2>2, <2>3, <2>4, <2>9, <2>10, <2>13, <2>14, <2>15
<1>6. FrameTypeOK
  <2>1. \A t \in Threads : Cell(t) \in Addr
    BY CellIs
  <2>2. <<>> \in Seq(Addr)
    OBVIOUS
  <2>3. sp \in [Threads -> Addr]
    BY <1>1, <1>4
  <2>4. pc \in [Threads -> Labels]
    BY <1>1 DEF Labels
  <2>5. regs = [t \in Threads |-> regs[t]] /\ node \in [Threads -> Addr]
    BY <1>1, <2>1
  <2>6. 0 \in fiber_pool
    BY <1>1
  <2>7. QED
    BY <1>1, <1>2, <1>5, <2>2, <2>3, <2>4, <2>5, <2>6 DEF FrameTypeOK
<1>7. \A t \in Threads : /\ sp[t] = Base(OwnStack(t)) /\ StackOf(sp[t]) = OwnStack(t)
                         /\ regs[t] = Own(OwnStack(t))
                         /\ pc[t] = IF t = 0 THEN "user" ELSE "loop"
    BY <1>1, <1>4
<1>8. ASSUME NEW t \in Threads PROVE ThreadOK(t) /\ CellOK(t)
  <2>1. CASE t = 0
    <3>1. InFiber(t, 0)
      <4>1. Base(OwnStack(0)) - 0 = Base(OwnStack(0))
        BY <1>3, BaseIs
      <4>2. Called(mem, OwnStack(0))
        BY <1>2, <1>3, <1>4, <1>5 DEF Called
      <4>3. QED
        BY <1>3, <1>7, <2>1, <4>1, <4>2 DEF InFiber
    <3>2. CellOK(t)
      <4>1. Top(0) - 5 \in Addr
        <5>1. Top(0) = 28 /\ \A y \in Nat : y < 30 => y \in Addr
            BY <1>3, BaseIs, RegionIs
        <5>2. QED
            BY <5>1
      <4>2. LoopAt(mem, LoopStack(t), Top(0) - 5)
        BY <1>5, <2>1 DEF LoopAt, LoopStack
      <4>3. QED
        BY <1>5, <2>1, <4>1, <4>2 DEF CellOK
    <3>3. QED
        BY <1>7, <2>1, <3>1, <3>2 DEF ThreadOK
  <2>2. CASE t # 0
    <3>1. LoopStack(t) = OwnStack(t)
        BY <2>2 DEF LoopStack
    <3>2. InLoop(t)
        BY <1>7, <3>1 DEF InLoop
    <3>3. CellOK(t)
        BY <1>7, <3>1 DEF CellOK
    <3>4. QED
        BY <1>7, <2>2, <3>2, <3>3 DEF ThreadOK
  <2>3. QED
    BY <2>1, <2>2
<1>9. Range(fiber_list) = {} /\ Range(disposed_fiber_list) = {}
    BY <1>1 DEF Range
<1>10. ListsOK
    BY <1>9 DEF ListsOK
<1>11. Once
  <2>1. \A k \in Kinds, h \in Nat : Holds(k, h, OwnStack(0)) => k = "run" /\ h = 0
    BY <1>4, <1>7, <1>9 DEF Holds, Kinds
  <2>2. IsInjective(fiber_list) /\ IsInjective(disposed_fiber_list)
    BY <1>1 DEF IsInjective
  <2>3. \A s \in FiberStacks : s = OwnStack(0)
    BY <1>3
  <2>4. QED
    BY <2>1, <2>2, <2>3 DEF Once
<1>12. Headers
    BY <1>1, <1>5 DEF Headers
<1>13. QED
    BY <1>6, <1>8, <1>10, <1>11, <1>12 DEF FrameInv

LEMMA NextFrameInv == FrameInv /\ [Next]_vars => FrameInv'
<1> SUFFICES ASSUME FrameInv, [Next]_vars PROVE FrameInv'
    OBVIOUS
<1>1. CASE UNCHANGED vars
  <2>1. /\ UNCHANGED <<mem, sp, regs, pc, node, fiber_pool>>
        /\ UNCHANGED <<fiber_list, disposed_fiber_list>>
    BY <1>1 DEF vars, lists
  <2>2. \A t : Data(t)' = Data(t)
    BY <2>1 DEF Data
  <2>3. \A k, h, s : Holds(k, h, s)' <=> Holds(k, h, s)
    BY <2>1, <2>2 DEF Holds
  <2>4. FiberStacks' = FiberStacks /\ FiberBlocks' = FiberBlocks
    BY <2>1 DEF FiberStacks, FiberBlocks
  <2>5. Once'
    BY <2>1, <2>3, <2>4 DEF FrameInv, Once
  <2>6. \A f : (Runnable(f)' <=> Runnable(f)) /\ (Recycled(f)' <=> Recycled(f))
    BY <2>1, <2>4 DEF Runnable, Recycled
  <2>7. ListsOK'
    BY <2>1, <2>6 DEF FrameInv, ListsOK
  <2>8. Headers' /\ FrameTypeOK'
    BY <2>1 DEF FrameInv, Headers, FrameTypeOK
  <2>9. ASSUME NEW t \in Threads PROVE ThreadOK(t)' /\ CellOK(t)'
    <3>1. ThreadOK(t) /\ CellOK(t)
        BY DEF FrameInv
    <3>2. /\ \A x : GoesOn(t, x)' <=> GoesOn(t, x)
          /\ \A n : InFiber(t, n)' <=> InFiber(t, n)
          /\ InLoop(t)' <=> InLoop(t)
        BY <2>1, <2>4 DEF GoesOn, InFiber, InLoop
    <3>3. Chosen(t)' <=> Chosen(t)
        BY <2>1, <2>6 DEF Chosen, Runnable
    <3>4. /\ Runnable(node[t])' <=> Runnable(node[t])
          /\ Recycled(node[t])' <=> Recycled(node[t])
          /\ Runnable(Data(t))' <=> Runnable(Data(t))
          /\ Recycled(Data(t))' <=> Recycled(Data(t))
        BY <2>1, <2>2, <2>4 DEF Runnable, Recycled
    <3>5. ThreadOK(t)'
        BY <2>1, <2>2, <2>4, <3>1, <3>2, <3>3, <3>4 DEF ThreadOK
    <3>6. CellOK(t)'
        BY <2>1, <3>1 DEF CellOK
    <3>7. QED
        BY <3>5, <3>6
  <2>10. QED
    BY <2>5, <2>7, <2>8, <2>9 DEF FrameInv
<1>2. CASE Next
  <2>1. PICK t \in Threads :
           \/ Yield(t) \/ EntryReturn(t) \/ Exit(t) \/ LeaveDeferring(t)
           \/ LoopTake(t) \/ Dispatch(t)
           \/ LoadUnaryop(t) \/ UnaryopReturn(t) \/ SwitchReturn(t)
           \/ LoadEntrance(t)
           \/ SpawnTake(t) \/ SpawnReuse(t) \/ SpawnNew(t)
    BY <1>2 DEF Next
  <2>2. CASE Yield(t)
    BY <2>2, YieldStep
  <2>3. CASE EntryReturn(t)
    BY <2>3, EntryReturnStep
  <2>4. CASE Exit(t)
    BY <2>4, ExitStep
  <2>5. CASE LeaveDeferring(t)
    BY <2>5, LeaveDeferringStep
  <2>6. CASE LoopTake(t)
    BY <2>6, LoopTakeStep
  <2>7. CASE Dispatch(t)
    BY <2>7, DispatchStep
  <2>8. CASE LoadUnaryop(t)
    BY <2>8, LoadUnaryopStep
  <2>9. CASE UnaryopReturn(t)
    BY <2>9, UnaryopReturnStep
  <2>10. CASE SwitchReturn(t)
    BY <2>10, SwitchReturnStep
  <2>11. CASE LoadEntrance(t)
    BY <2>11, LoadEntranceStep
  <2>12. CASE SpawnTake(t)
    BY <2>12, SpawnTakeStep
  <2>13. CASE SpawnReuse(t)
    BY <2>13, SpawnReuseStep
  <2>14. CASE SpawnNew(t)
    BY <2>14, SpawnNewStep
  <2>15. QED
    BY <2>1, <2>2, <2>3, <2>4, <2>5, <2>6, <2>7, <2>8, <2>9, <2>10, <2>11, <2>12, <2>13,
       <2>14
<1>3. QED
    BY <1>1, <1>2

LEMMA AlwaysFrameInv == Spec => []FrameInv
BY InitFrameInv, NextFrameInv, PTL DEF Spec

-----------------------------------------------------------------------------
(* Whatever ran in between, C code finds its registers and its innermost   *)
(* frame as it left them, and nothing but the code of the frames is ever   *)
(* jumped to.                                                              *)
THEOREM KeepsFrames == Spec => []FramesKept
<1>1. FrameInv => FramesKept
  <2> SUFFICES ASSUME FrameInv, NEW t \in Threads
               PROVE  /\ pc[t] \notin {"lost", "exited"}
                      /\ pc[t] \in {"user", "loop"} => regs[t] = Own(StackOf(sp[t]))
                      /\ pc[t] = "user" => mem[sp[t]] = Local(StackOf(sp[t]))
                      /\ pc[t] = "unaryop" =>
                            mem[sp[t]] \in {Code("enqueue"), Code("recycle")}
                      /\ pc[t] = "entered" => mem[sp[t] + 2] = Code("exit")
                      /\ pc[t] \in {"user", "loop", "unaryop", "entrance", "entered"} =>
                            sp[t] % 2 = 0
    BY DEF FramesKept
  <2> DEFINE s == StackOf(sp[t])
  <2>1. FrameTypeOK /\ ThreadOK(t)
    BY DEF FrameInv
  <2>2. pc[t] \notin {"lost", "exited"} /\ sp[t] \in Nat
    <3>1. pc[t] \in Labels /\ sp[t] \in Addr
        BY <2>1 DEF FrameTypeOK
    <3>2. pc[t] \notin {"lost", "exited"}
        BY <3>1 DEF Labels
    <3>3. QED
        BY <3>1, <3>2 DEF Addr
  <2>3. /\ s \in Stacks /\ s \in Nat /\ LoopStack(t) \in Stacks
        /\ FiberStacks \subseteq Stacks /\ FiberBlocks \subseteq Stacks
    BY <2>1, RunsOn, StackKinds, RegionIs DEF FrameTypeOK, FiberStacks
  <2>4. /\ Base(s) \in Nat /\ Top(s) = 30 * s + 28
        /\ Base(s) = 30 * s + 22 \/ Base(s) = 30 * s + 28
    BY <2>3, BaseIs
  <2>5. \A e : e \in Nat /\ (e = 30 * s + 22 \/ e = 30 * s + 24 \/ e = 30 * s + 28
                   \/ e = 30 * s + 10 \/ e = 30 * s + 20 \/ e = 30 * s + 16
                   \/ e = 30 * s + 4) => e % 2 = 0
    BY <2>3
  <2>6. InFiber(t, 0) => sp[t] = Base(s) /\ regs[t] = Own(s) /\ mem[Base(s)] = Local(s)
    BY <2>4 DEF InFiber, Called
  <2>7. InLoop(t) => sp[t] = Base(s) /\ regs[t] = Own(s)
    <3>1. Base(LoopStack(t)) \in Nat /\ StackOf(Base(LoopStack(t))) = LoopStack(t)
        BY <2>3, BaseIs, RegionIs
    <3>2. QED
        BY <3>1 DEF InLoop
  <2>8. pc[t] = "entered" => sp[t] = 30 * s + 24 /\ mem[sp[t] + 2] = Code("exit")
    <3>1. pc[t] = "entered" => sp[t] = Top(s) - 4 /\ mem[Top(s) - 2] = Code("exit")
        BY <2>1 DEF ThreadOK
    <3>2. sp[t] = Top(s) - 4 => sp[t] + 2 = Top(s) - 2 /\ sp[t] = 30 * s + 24
        BY <2>3, <2>4
    <3>3. QED
        BY <3>1, <3>2
  <2>9. \A x : GoesOn(t, x) =>
           /\ x \in Nat
           /\ x = Top(s) - 5 \/ x = Base(s) - 15 \/ x = Base(s) - 9
           /\ mem[x] = Code("entrance") => x = Top(s) - 5
    <3>1. \A x : GoesOn(t, x) => x \in Nat
        BY <2>3, PopIs
    <3>2. \A x, l : Frame(mem, s, x, l) => mem[x] # Code("entrance")
        BY Words DEF Frame
    <3>3. QED
        BY <3>1, <3>2 DEF GoesOn, FiberAt, LoopAt, Fresh, Yielded, Looping
  <2>10. pc[t] = "unaryop" => sp[t] % 2 = 0
    <3>1. pc[t] = "unaryop" => GoesOn(t, sp[t] + 3)
        BY <2>1 DEF ThreadOK
    <3>2. pc[t] = "unaryop" =>
             \/ sp[t] + 3 = Top(s) - 5 \/ sp[t] + 3 = Base(s) - 15 \/ sp[t] + 3 = Base(s) - 9
        BY <2>9, <3>1
    <3>3. pc[t] = "unaryop" =>
             \/ sp[t] = 30 * s + 20 \/ sp[t] = 30 * s + 4 \/ sp[t] = 30 * s + 10
             \/ sp[t] = 30 * s + 16
        BY <2>2, <2>3, <2>4, <3>2
    <3>4. QED
        BY <2>2, <2>5, <3>3
  <2>11. pc[t] = "entrance" => sp[t] % 2 = 0
    <3>1. pc[t] = "entrance" => sp[t] - 1 = Top(s) - 5
        BY <2>1, <2>9 DEF ThreadOK
    <3>2. pc[t] = "entrance" => sp[t] = 30 * s + 24
        BY <2>2, <2>3, <2>4, <3>1
    <3>3. QED
        BY <2>2, <2>5, <3>2
  <2>12. pc[t] \in {"user", "loop"} => sp[t] % 2 = 0
    BY <2>1, <2>2, <2>4, <2>5, <2>6, <2>7 DEF ThreadOK
  <2>13. pc[t] = "entered" => sp[t] % 2 = 0
    BY <2>2, <2>5, <2>8
  <2>14. pc[t] \in {"user", "loop"} => regs[t] = Own(s)
    BY <2>1, <2>6, <2>7 DEF ThreadOK
  <2>15. pc[t] = "user" => mem[sp[t]] = Local(s)
    BY <2>1, <2>6 DEF ThreadOK
  <2>16. pc[t] = "unaryop" => mem[sp[t]] \in {Code("enqueue"), Code("recycle")}
    BY <2>1 DEF ThreadOK
  <2>17. QED
    BY <2>2, <2>8, <2>10, <2>11, <2>12, <2>13, <2>14, <2>15, <2>16
<1>2. QED
    BY <1>1, AlwaysFrameInv, PTL

(* The structs in fiber_list and disposed_fiber_list keep their links and  *)
(* the saved stack pointer, which lies on their own stack.                 *)
THEOREM KeepsStructs == Spec => []StructsIntact
<1>1. FrameInv => StructsIntact
  <2> SUFFICES ASSUME FrameInv, NEW f \in Range(fiber_list) \cup Range(disposed_fiber_list)
               PROVE  /\ mem[f + 1] = Linked /\ mem[f + 2] = Linked
                      /\ mem[f][1] = "pointer"
                      /\ StackOf(mem[f][2]) = StackOf(f)
                      /\ mem[mem[f][2]] \in {Code("resume"), Code("entrance")}
    BY DEF StructsIntact
  <2>1. FrameTypeOK /\ ListsOK
    BY DEF FrameInv
  <2>2. PICK s : s = StackOf(f)
    OBVIOUS
  <2>3. Links(mem, f) /\ s \in Stacks /\ (Saved(mem, f) \/ Gone(mem, f))
    <3>1. Runnable(f) \/ Recycled(f)
        BY <2>1 DEF ListsOK
    <3>2. Links(mem, f)
        BY <2>1 DEF ListsOK
    <3>3. FiberBlocks \subseteq FiberStacks /\ FiberStacks \subseteq Stacks
      <4>1. 0 \in Threads
        BY Sizes DEF Threads
      <4>2. QED
        BY <2>1, <4>1, StackKinds DEF FrameTypeOK, FiberStacks
    <3>4. QED
        BY <2>2, <3>1, <3>2, <3>3 DEF Runnable, Recycled
  <2>4. f \in Nat /\ 30 * s + 9 <= f /\ f + 6 < 30 * s + 30 /\ s \in Nat
    BY <2>2, <2>3, StructIs, RegionIs
  <2>5. /\ f + 5 \in Nat /\ StackOf(f + 5) = s
        /\ f - 9 \in Nat /\ StackOf(f - 9) = s
    BY <2>3, <2>4, RegionIs
  <2>6. \/ mem[f] = Ptr(f + 5) /\ mem[f + 5] = Code("entrance")
        \/ mem[f] = Ptr(f - 9) /\ mem[f - 9] = Code("resume")
    BY <2>3 DEF Saved, Gone, Fresh, Yielded, Frame
  <2>7. QED
    BY <2>2, <2>3, <2>5, <2>6, Words DEF Links
<1>2. QED
    BY <1>1, AlwaysFrameInv, PTL

(* The headers of the blocks are never overwritten, and query_memory finds *)
(* the block of an exited fiber from the stack pointer in its struct.      *)
THEOREM FindsBlock == Spec => []BlockFound
<1>1. FrameInv => BlockFound
  <2> SUFFICES ASSUME FrameInv PROVE BlockFound
    OBVIOUS
  <2>1. FrameTypeOK /\ Headers
    BY DEF FrameInv
  <2>2. ASSUME NEW t \in Threads, pc[t] = "spawn"
        PROVE  Query(fiber_pool, mem[node[t]][2]) = {StackOf(node[t])}
    <3>1. Recycled(node[t])
        BY <2>2 DEF FrameInv, ThreadOK
    <3>2. PICK g : g = node[t]
        OBVIOUS
    <3>3. PICK q : q = StackOf(g)
        OBVIOUS
    <3>4. /\ q \in fiber_pool /\ q \in Stacks /\ q \in Nat
          /\ g = FirstStruct(q) /\ mem[g] = Ptr(g - 9)
        BY <2>1, <3>1, <3>2, <3>3, StackKinds, RegionIs
           DEF Recycled, Gone, FiberBlocks, FrameTypeOK
    <3>5. PICK a \in Nat : a = g - 9 /\ a = 30 * q + 9
        BY <3>4, BaseIs
    <3>6. InRange(q, a)
        BY <3>4, <3>5, BaseIs DEF InRange, Size
    <3>7. fiber_pool \in SUBSET Blocks
        BY <2>1 DEF FrameTypeOK
    <3>8. Query(fiber_pool, a) = {q}
        BY <3>4, <3>6, <3>7, QueryFinds
    <3>9. mem[g][2] = a
        BY <3>4, <3>5, Words
    <3>10. QED
        BY <3>2, <3>3, <3>8, <3>9
  <2>3. QED
    BY <2>1, <2>2 DEF BlockFound, Headers
<1>2. QED
    BY <1>1, AlwaysFrameInv, PTL
=============================================================================
