-------------------------- MODULE KernelSetupProofs --------------------------
(***************************************************************************)
(* What KernelSetup promises, for any number of system call tables and any *)
(* addresses whose cache lines are apart; then, of the two other sides     *)
(* KernelCode has, that the stub is transparent to the core that runs into *)
(* it, and that the patch functions leave their patches where every core   *)
(* fetches them.                                                           *)
(***************************************************************************)
EXTENDS KernelCode, SequenceTheorems, TLAPS

StubLine == LineOf(HookAddr)

\* The lines are four.
LEMMA FourLines ==
    /\ Lines = {StubLine, BranchLine, PageLine, MainLine}
    /\ StubLines = {StubLine, BranchLine}
    /\ StubLine # BranchLine /\ StubLine # PageLine /\ StubLine # MainLine
    /\ BranchLine # PageLine /\ BranchLine # MainLine /\ PageLine # MainLine
BY LinesAssumption DEF Lines, StubLine

(***************************************************************************)
(* The flushes and what is left of them.                                   *)
(***************************************************************************)
Flushed(l)     == [op |-> "dcbf", line |-> l]
Invalidated(l) == [op |-> "icbi", line |-> l]

I4 == <<Flushed(StubLine), Invalidated(StubLine), Flushed(BranchLine), Invalidated(BranchLine)>>
I3 == <<Invalidated(StubLine), Flushed(BranchLine), Invalidated(BranchLine)>>
I2 == <<Flushed(BranchLine), Invalidated(BranchLine)>>
I1 == <<Invalidated(BranchLine)>>
P2 == <<Invalidated(PageLine), Flushed(PageLine)>>
P1 == <<Flushed(PageLine)>>
M2 == <<Flushed(MainLine), Invalidated(MainLine)>>
M1 == <<Invalidated(MainLine)>>

\* The flushes of each patch, one after the other.
LEMMA Flushes ==
    /\ FlushInterim = I4 /\ Head(I4) = Flushed(StubLine) /\ Tail(I4) = I3 /\ Len(I4) = 4
    /\ Head(I3) = Invalidated(StubLine) /\ Tail(I3) = I2 /\ Len(I3) = 3
    /\ Head(I2) = Flushed(BranchLine) /\ Tail(I2) = I1 /\ Len(I2) = 2
    /\ Head(I1) = Invalidated(BranchLine) /\ Tail(I1) = <<>> /\ Len(I1) = 1
    /\ FlushPage = P2 /\ Head(P2) = Invalidated(PageLine) /\ Tail(P2) = P1 /\ Len(P2) = 2
    /\ Head(P1) = Flushed(PageLine) /\ Tail(P1) = <<>> /\ Len(P1) = 1
    /\ FlushMain = M2 /\ Head(M2) = Flushed(MainLine) /\ Tail(M2) = M1 /\ Len(M2) = 2
    /\ Head(M1) = Invalidated(MainLine) /\ Tail(M1) = <<>> /\ Len(M1) = 1
<1>1. BranchLine = LineOf(HookAddr + 32)
  BY LinesAssumption
<1>2. FlushInterim = I4
  <2>1. Ops(HookAddr) = <<Flushed(StubLine), Invalidated(StubLine)>>
    BY DEF Ops, Flushed, Invalidated, StubLine
  <2>2. Ops(HookAddr + 32) = <<Flushed(BranchLine), Invalidated(BranchLine)>>
    BY <1>1 DEF Ops, Flushed, Invalidated
  <2>3. ASSUME NEW a, NEW b, NEW c, NEW d
        PROVE  <<a, b>> \o <<c, d>> = <<a, b, c, d>>
    <3> DEFINE S == {a, b, c, d}
               s == <<a, b>> \o <<c, d>>
               u == <<a, b, c, d>>
    <3>1. <<a, b>> \in Seq(S) /\ <<c, d>> \in Seq(S) /\ u \in Seq(S)
      OBVIOUS
    <3>2. s \in Seq(S) /\ Len(s) = 4 /\ Len(u) = 4
      BY <3>1
    <3>3. s[1] = a /\ s[2] = b /\ s[3] = c /\ s[4] = d
      BY <3>1
    <3>4. \A i \in 1 .. 4 : s[i] = u[i]
      BY <3>3
    <3> HIDE DEF S, s, u
    <3> QED
      BY <3>1, <3>2, <3>4, SeqEqual DEF s, u
  <2> QED
    BY <2>1, <2>2, <2>3 DEF FlushInterim, I4
<1>3. FlushPage = P2 /\ FlushMain = M2
  BY DEF FlushPage, P2, FlushMain, M2, Ops, Flushed, Invalidated, MainLine
<1> QED
  BY <1>2, <1>3 DEF I4, I3, I2, I1, P2, P1, M2, M1

\* What is left of them tells how far the setup has come.
LEMMA Different ==
    /\ I4 # I3 /\ I4 # I2 /\ I4 # I1 /\ I4 # <<>>
    /\ I3 # I2 /\ I3 # I1 /\ I3 # <<>> /\ I2 # I1 /\ I2 # <<>> /\ I1 # <<>>
    /\ P2 # P1 /\ P2 # <<>> /\ P1 # <<>>
    /\ M2 # M1 /\ M2 # <<>> /\ M1 # <<>>
BY DEF I4, I3, I2, I1, P2, P1, M2, M1

(***************************************************************************)
(* A line holds c: that is what a load reads.  Memory has it or something  *)
(* else of rams, and a core may have fetched any of insts.                 *)
(***************************************************************************)
Holds(r, d, i, c, rams, insts) ==
    /\ r \in rams
    /\ d \in {Clean, c}
    /\ d = Clean => r = c
    /\ i \in {Absent} \cup insts

Line(l, c, rams, insts) == Holds(ram[l], dcache[l], icache[l], c, rams, insts)
LineNext(l, c, rams, insts) == Holds(ram'[l], dcache'[l], icache'[l], c, rams, insts)

Settled(l, c) == Line(l, c, {c}, {c})

Memory ==
    /\ ram \in [Lines -> Contents]
    /\ dcache \in [Lines -> Contents \cup {Clean}]
    /\ icache \in [Lines -> Contents \cup {Absent}]

\* Where the tables are,
TablesInv ==
    /\ pc \notin {"tables1", "tables2", "tables3"} => t = 1
    /\ pc = "tables1" => \A i \in 1 .. (t - 1) : syscall36[i] = "KernelPatches"
    /\ pc = "syscall1" => \A i \in Tables : syscall36[i] = "KernelPatches"
    /\ pc = "tables2" => \A i \in 1 .. (t - 1) : syscall36[i] = "KernelPatchesFinal"
    /\ pc = "syscall2" => \A i \in Tables : syscall36[i] = "KernelPatchesFinal"
    /\ pc = "tables3" => \A i \in 1 .. (t - 1) : syscall25[i] = "SCKernelCopyData"
    /\ pc \in {"ready", "entered", "reverted"} =>
         \A i \in Tables : syscall25[i] = "SCKernelCopyData"

\* what is left to flush,
TodoInv ==
    /\ pc \in {"tables1", "syscall1", "syscall2", "ready", "entered"} => todo = <<>>
    /\ pc = "setup2" => todo = I4 \/ todo = I3 \/ todo = I2 \/ todo = I1 \/ todo = <<>>
    /\ pc = "tables2" => todo = P2 \/ todo = P1 \/ todo = <<>>
    /\ pc = "reverted" => todo = M2 \/ todo = M1 \/ todo = <<>>

\* and what each line holds by then.
StubInv ==
    /\ pc \in {"tables1", "syscall1"} => Settled(StubLine, "kernel")
    /\ pc = "setup2" /\ todo = I4 => Line(StubLine, "bat", {"kernel", "bat"}, {"kernel", "bat"})
    /\ pc = "setup2" /\ todo = I3 => Line(StubLine, "bat", {"bat"}, {"kernel", "bat"})
    /\ pc = "setup2" /\ todo # I4 /\ todo # I3 => Settled(StubLine, "bat")
    /\ pc \notin {"tables1", "syscall1", "setup2"} => Settled(StubLine, "bat")

BranchInv ==
    /\ pc \in {"tables1", "syscall1"} => Settled(BranchLine, "kernel")
    /\ pc = "setup2" => Line(BranchLine, "interim", {"kernel", "interim"}, {"kernel", "interim"})
    /\ pc = "setup2" /\ todo = I1 => Line(BranchLine, "interim", {"interim"}, {"kernel", "interim"})
    /\ pc = "setup2" /\ todo = <<>> => Settled(BranchLine, "interim")
    /\ pc \in {"tables2", "syscall2"} => Settled(BranchLine, "interim")
    /\ pc \in {"tables3", "ready", "entered", "reverted"} =>
         Line(BranchLine, "final", {"interim", "final"}, {"interim", "final"})

PageInv ==
    /\ pc \in {"tables1", "syscall1", "setup2"} => Settled(PageLine, "other")
    /\ pc = "tables2" /\ todo = P2 => Line(PageLine, "hook", {"other", "hook"}, {"other", "hook"})
    /\ pc = "tables2" /\ todo = P1 => Line(PageLine, "hook", {"other", "hook"}, {})
    /\ pc = "tables2" /\ todo = <<>> => Settled(PageLine, "hook")
    /\ pc \in {"syscall2", "tables3", "ready", "entered", "reverted"} => Settled(PageLine, "hook")

MainInv ==
    /\ pc # "reverted" => Settled(MainLine, "hooked")
    /\ pc = "reverted" /\ todo = M2 => Line(MainLine, "plain", {"hooked", "plain"}, {"hooked", "plain"})
    /\ pc = "reverted" /\ todo = M1 => Line(MainLine, "plain", {"plain"}, {"hooked", "plain"})
    /\ pc = "reverted" /\ todo = <<>> => Settled(MainLine, "plain")

LinesInv == StubInv /\ BranchInv /\ PageInv /\ MainInv
SetupInv == TypeOK /\ TablesInv /\ TodoInv /\ LinesInv

-----------------------------------------------------------------------------
(***************************************************************************)
(* What the caches and the flushes do to a line.                           *)
(***************************************************************************)
\* A line keeps what it holds while nobody stores to it; only executing it can
\* bring into the instruction cache what memory has.
LEMMA HardwareKeepsLine ==
    ASSUME Memory, NEW l \in Lines, NEW c \in Contents, NEW rams, NEW insts,
           c \in rams, Line(l, c, rams, insts),
           NEW m \in Lines, Evict(m) \/ Execute(m) \/ Drop(m),
           rams \subseteq insts \/ ~(m = l /\ Execute(m))
    PROVE  LineNext(l, c, rams, insts)
<1>1. CASE Evict(m)
  BY <1>1 DEF Memory, Line, LineNext, Holds, Evict, Clean, Absent, Contents
<1>2. CASE Drop(m)
  BY <1>2 DEF Memory, Line, LineNext, Holds, Drop
<1>3. CASE Execute(m)
  BY <1>3 DEF Memory, Line, LineNext, Holds, Execute
<1> QED
  BY <1>1, <1>2, <1>3

\* So do the cache instructions, whichever line they name.
LEMMA CacheOpKeepsLine ==
    ASSUME Memory, NEW l \in Lines, NEW c \in Contents, NEW rams, NEW insts,
           c \in rams, Line(l, c, rams, insts), CacheOp
    PROVE  LineNext(l, c, rams, insts)
<1> DEFINE m == Head(todo).line
<1>1. CASE m \notin Lines
  BY <1>1 DEF CacheOp, memory, Line, LineNext
<1>2. CASE m \in Lines /\ Head(todo).op = "dcbf"
  <2>1. /\ ram' = [ram EXCEPT ![m] = Latest(m)]
        /\ dcache' = [dcache EXCEPT ![m] = Clean] /\ icache' = icache
    BY <1>2 DEF CacheOp
  <2>2. Latest(l) = c
    BY DEF Latest, Line, Holds, Contents, Clean
  <2> QED
    BY <2>1, <2>2 DEF Memory, Line, LineNext, Holds
<1>3. CASE m \in Lines /\ Head(todo).op # "dcbf"
  <2>1. icache' = [icache EXCEPT ![m] = Absent] /\ ram' = ram /\ dcache' = dcache
    BY <1>3 DEF CacheOp
  <2> QED
    BY <2>1 DEF Memory, Line, LineNext, Holds
<1> QED
  BY <1>1, <1>2, <1>3

\* dcbf makes memory hold what the line holds,
LEMMA FlushWrites ==
    ASSUME Memory, NEW l \in Lines, NEW c \in Contents, NEW rams, NEW insts,
           c \in rams, Line(l, c, rams, insts), CacheOp, Head(todo) = Flushed(l)
    PROVE  LineNext(l, c, {c}, insts)
<1>1. /\ ram' = [ram EXCEPT ![l] = Latest(l)]
      /\ dcache' = [dcache EXCEPT ![l] = Clean] /\ icache' = icache
  BY DEF CacheOp, Flushed
<1>2. Latest(l) = c
  BY DEF Latest, Line, Holds, Contents, Clean
<1> QED
  BY <1>1, <1>2 DEF Memory, Line, LineNext, Holds

\* and icbi empties the instruction cache.
LEMMA InvalidateDrops ==
    ASSUME Memory, NEW l \in Lines, NEW c \in Contents, NEW rams, NEW insts,
           c \in rams, Line(l, c, rams, insts), CacheOp, Head(todo) = Invalidated(l)
    PROVE  LineNext(l, c, rams, {})
<1>1. icache' = [icache EXCEPT ![l] = Absent] /\ ram' = ram /\ dcache' = dcache
  BY DEF CacheOp, Invalidated
<1> QED
  BY <1>1 DEF Memory, Line, LineNext, Holds

\* A store is what the line holds from then on.
LEMMA StoreHolds ==
    ASSUME Memory, NEW l \in Lines, NEW old, NEW contents, Settled(l, old), Store(contents),
           l \in DOMAIN contents, contents[l] \in Contents
    PROVE  LineNext(l, contents[l], {old, contents[l]}, {old, contents[l]})
BY DEF Memory, Settled, Line, LineNext, Holds, Store, Contents, Clean

\* A store leaves the other lines alone.
LEMMA StoreElsewhere ==
    ASSUME Memory, NEW l \in Lines, NEW c, NEW rams, NEW insts, Line(l, c, rams, insts),
           NEW contents, Store(contents), l \notin DOMAIN contents
    PROVE  LineNext(l, c, rams, insts)
BY DEF Memory, Line, LineNext, Holds, Store

\* So does a step that does not touch the memory.
LEMMA UnchangedLine ==
    ASSUME UNCHANGED memory
    PROVE  \A l, c, rams, insts : Line(l, c, rams, insts) => LineNext(l, c, rams, insts)
BY DEF memory, Line, LineNext

(***************************************************************************)
(* Every step keeps the invariant.                                         *)
(***************************************************************************)
\* The contents that are named, and the flushes, have the types they need.
LEMMA Types ==
    /\ {"kernel", "bat", "interim", "final", "other", "hook", "hooked", "plain"} = Contents
    /\ StubLine \in Lines /\ BranchLine \in Lines /\ PageLine \in Lines /\ MainLine \in Lines
BY FourLines DEF Contents

\* With the same control and handlers only the lines are to be looked at.
LEMMA FromLines ==
    ASSUME SetupInv, UNCHANGED <<control, handlers>>, Memory', LinesInv'
    PROVE  SetupInv'
<1>1. /\ pc' = pc /\ t' = t /\ todo' = todo
      /\ syscall36' = syscall36 /\ syscall25' = syscall25 /\ active' = active
  BY DEF control, handlers
<1>2. TypeOK'
  BY <1>1 DEF SetupInv, TypeOK, Memory
<1>3. TablesInv' /\ TodoInv'
  BY <1>1 DEF SetupInv, TablesInv, TodoInv
<1> QED
  BY <1>2, <1>3 DEF SetupInv

\* Lines that stay, with the same control, keep LinesInv.
LEMMA LinesFrom ==
    ASSUME LinesInv, pc' = pc, todo' = todo,
           \A l \in Lines, c \in Contents : \A rams, insts :
              c \in rams /\ rams \subseteq insts /\ Line(l, c, rams, insts) => LineNext(l, c, rams, insts),
           pc = "tables2" /\ todo = P1 =>
              LineNext(PageLine, "hook", {"other", "hook"}, {})
    PROVE  LinesInv'
<1>1. StubInv'
  BY Types DEF LinesInv, StubInv, Settled, Line, LineNext, Contents
<1>2. BranchInv'
  BY Types DEF LinesInv, BranchInv, Settled, Line, LineNext, Contents
<1>3. PageInv'
  BY Types DEF LinesInv, PageInv, Settled, Line, LineNext, Contents
<1>4. MainInv'
  BY Types DEF LinesInv, MainInv, Settled, Line, LineNext, Contents
<1> QED
  BY <1>1, <1>2, <1>3, <1>4 DEF LinesInv

-----------------------------------------------------------------------------
\* The setup begins with nothing stored and nothing cached.
LEMMA InitSetupInv == Init => SetupInv
<1> SUFFICES ASSUME Init PROVE SetupInv
  OBVIOUS
<1>1. /\ pc = "tables1" /\ t = 1 /\ todo = <<>> /\ active \in Tables
      /\ syscall36 = [i \in Tables |-> "original"]
      /\ syscall25 = [i \in Tables |-> "original"]
  BY DEF Init
<1>2. \A l \in Lines : ram[l] = Original(l) /\ dcache[l] = Clean /\ icache[l] \in {Absent, Original(l)}
  BY DEF Init
<1>3. Memory
  BY Types DEF Init, Memory, Original
<1>4. TypeOK
  BY <1>1, <1>3, SetupAssumption DEF TypeOK, Memory, PCs, Tables
<1>5. TablesInv /\ TodoInv
  BY <1>1 DEF TablesInv, TodoInv
<1>6. /\ Settled(StubLine, "kernel") /\ Settled(BranchLine, "kernel")
      /\ Settled(PageLine, "other") /\ Settled(MainLine, "hooked")
  BY <1>2, FourLines DEF Settled, Line, Holds, Original
<1>7. LinesInv
  BY <1>1, <1>6 DEF LinesInv, StubInv, BranchInv, PageInv, MainInv
<1> QED
  BY <1>4, <1>5, <1>7 DEF SetupInv

\* The caches do what they like; the hook's page cannot be executed while it
\* waits for its flush, as the branch does not go there yet.
LEMMA HardwareStep == SetupInv /\ Hardware => SetupInv'
<1> SUFFICES ASSUME SetupInv, Hardware PROVE SetupInv'
  OBVIOUS
<1>1. PICK m \in Lines : Evict(m) \/ Execute(m) \/ Drop(m)
  BY DEF Hardware
<1>2. Memory
  BY DEF SetupInv, TypeOK, Memory
<1>3. UNCHANGED <<control, handlers>>
  BY <1>1 DEF Evict, Execute, Drop
<1>4. Memory'
  BY <1>1, <1>2 DEF Memory, Evict, Execute, Drop, Clean, Absent
<1>5. \A l \in Lines, c \in Contents : \A rams, insts :
        c \in rams /\ rams \subseteq insts /\ Line(l, c, rams, insts) => LineNext(l, c, rams, insts)
  BY <1>1, <1>2, HardwareKeepsLine
<1>6. ASSUME pc = "tables2", todo = P1
      PROVE  LineNext(PageLine, "hook", {"other", "hook"}, {})
  <2>1. Settled(BranchLine, "interim")
    BY <1>6 DEF SetupInv, LinesInv, BranchInv
  <2>2. Fetch(BranchLine) = "interim"
    BY <2>1 DEF Settled, Line, Holds, Fetch, Absent, Clean
  <2>3. ~(m = PageLine /\ Execute(m))
    BY <2>2 DEF Execute, Executable
  <2>4. Line(PageLine, "hook", {"other", "hook"}, {})
    BY <1>6 DEF SetupInv, LinesInv, PageInv
  <2>5. "hook" \in Contents /\ PageLine \in Lines
    BY Types
  <2> QED
    BY <1>1, <1>2, <2>3, <2>4, <2>5, HardwareKeepsLine
<1>7. LinesInv'
  BY <1>3, <1>5, <1>6, LinesFrom DEF SetupInv, control
<1> QED
  BY <1>3, <1>4, <1>7, FromLines

\* A cache instruction changes the lines and what is left of the flush only.
LEMMA FromFlush ==
    ASSUME SetupInv, CacheOp, LinesInv', TodoInv'
    PROVE  SetupInv'
<1>1. /\ pc' = pc /\ t' = t /\ todo # <<>> /\ todo' = Tail(todo)
      /\ syscall36' = syscall36 /\ syscall25' = syscall25 /\ active' = active
  BY DEF CacheOp, handlers
<1>2. Memory
  BY DEF SetupInv, TypeOK, Memory
<1>3. Memory'
  <2>1. \A l \in Lines : Latest(l) \in Contents
    BY <1>2 DEF Memory, Latest
  <2>2. CASE Head(todo).line \notin Lines
    BY <2>2, <1>2 DEF CacheOp, memory, Memory
  <2>3. CASE Head(todo).line \in Lines /\ Head(todo).op = "dcbf"
    <3>1. /\ ram' = [ram EXCEPT ![Head(todo).line] = Latest(Head(todo).line)]
          /\ dcache' = [dcache EXCEPT ![Head(todo).line] = Clean] /\ icache' = icache
      BY <2>3 DEF CacheOp
    <3> QED
      BY <3>1, <2>1, <2>3, <1>2 DEF Memory
  <2>4. CASE Head(todo).line \in Lines /\ Head(todo).op # "dcbf"
    <3>1. icache' = [icache EXCEPT ![Head(todo).line] = Absent] /\ ram' = ram /\ dcache' = dcache
      BY <2>4 DEF CacheOp
    <3> QED
      BY <3>1, <1>2 DEF Memory
  <2> QED
    BY <2>2, <2>3, <2>4
<1>4. todo' \in Seq(CacheOps)
  <2>1. todo \in Seq(CacheOps)
    BY DEF SetupInv, TypeOK
  <2> QED
    BY <2>1, <1>1
<1>5. TypeOK'
  BY <1>1, <1>3, <1>4 DEF SetupInv, TypeOK, Memory
<1>6. TablesInv'
  BY <1>1 DEF SetupInv, TablesInv
<1> QED
  BY <1>5, <1>6 DEF SetupInv

\* A flush or an invalidation moves the patch under way towards every core.
LEMMA CacheOpStep == SetupInv /\ CacheOp => SetupInv'
<1> SUFFICES ASSUME SetupInv, CacheOp PROVE SetupInv'
  OBVIOUS
<1>1. pc' = pc /\ todo # <<>> /\ todo' = Tail(todo)
  BY DEF CacheOp
<1>2. Memory
  BY DEF SetupInv, TypeOK, Memory
<1>3. \A l \in Lines, c \in Contents : \A rams, insts :
        c \in rams /\ Line(l, c, rams, insts) => LineNext(l, c, rams, insts)
  BY <1>2, CacheOpKeepsLine
<1>4. \A l \in Lines, c \in Contents : \A rams, insts :
        c \in rams /\ Line(l, c, rams, insts) /\ Head(todo) = Flushed(l) => LineNext(l, c, {c}, insts)
  BY <1>2, FlushWrites
<1>5. \A l \in Lines, c \in Contents : \A rams, insts :
        c \in rams /\ Line(l, c, rams, insts) /\ Head(todo) = Invalidated(l) => LineNext(l, c, rams, {})
  BY <1>2, InvalidateDrops
<1>6. pc \in {"setup2", "tables2", "tables3", "reverted"}
  BY <1>1 DEF SetupInv, TypeOK, TodoInv, PCs
<1>7. CASE pc = "setup2"
  <2>1. todo = I4 \/ todo = I3 \/ todo = I2 \/ todo = I1
    BY <1>1, <1>7 DEF SetupInv, TodoInv
  <2>2. /\ todo = I4 => todo' = I3 /\ Head(todo) = Flushed(StubLine)
        /\ todo = I3 => todo' = I2 /\ Head(todo) = Invalidated(StubLine)
        /\ todo = I2 => todo' = I1 /\ Head(todo) = Flushed(BranchLine)
        /\ todo = I1 => todo' = <<>> /\ Head(todo) = Invalidated(BranchLine)
    BY <1>1, Flushes
  <2>3. TodoInv'
    BY <1>1, <1>7, <2>1, <2>2 DEF TodoInv
  <2>4. StubInv'
    <3>1. "bat" \in Contents /\ StubLine \in Lines
      BY Types
    <3>2. StubInv
      BY DEF SetupInv, LinesInv
    <3>3. CASE todo = I4
      <4>1. LineNext(StubLine, "bat", {"bat"}, {"kernel", "bat"})
        BY <1>4, <1>7, <2>2, <3>1, <3>2, <3>3 DEF StubInv
      <4> QED
        BY <1>1, <1>7, <2>2, <3>1, <3>3, <4>1, Different DEF StubInv, Line, LineNext
    <3>4. CASE todo = I3
      <4>1. LineNext(StubLine, "bat", {"bat"}, {})
        BY <1>5, <1>7, <2>2, <3>1, <3>2, <3>4 DEF StubInv
      <4>2. LineNext(StubLine, "bat", {"bat"}, {"bat"})
        BY <4>1 DEF LineNext, Holds
      <4> QED
        BY <1>1, <1>7, <2>2, <3>1, <3>4, <4>2, Different DEF StubInv, Settled, Line, LineNext
    <3>5. CASE todo = I2 \/ todo = I1
      <4>1. Settled(StubLine, "bat")
        BY <1>7, <3>1, <3>2, <3>5, Different DEF StubInv
      <4>2. LineNext(StubLine, "bat", {"bat"}, {"bat"})
        BY <1>3, <3>1, <4>1 DEF Settled
      <4>3. todo' = I1 \/ todo' = <<>>
        BY <2>2, <3>5
      <4> QED
        BY <1>1, <1>7, <3>1, <4>2, <4>3, Different DEF StubInv, Settled, Line, LineNext
    <3> QED
      BY <2>1, <3>3, <3>4, <3>5
  <2>5. BranchInv'
    <3>1. "interim" \in Contents /\ BranchLine \in Lines
      BY Types
    <3>2. BranchInv
      BY DEF SetupInv, LinesInv
    <3>3. LineNext(BranchLine, "interim", {"kernel", "interim"}, {"kernel", "interim"})
      BY <1>3, <1>7, <3>1, <3>2 DEF BranchInv
    <3>4. CASE todo = I4 \/ todo = I3
      BY <1>1, <1>7, <2>2, <3>1, <3>3, <3>4, Different DEF BranchInv, Line, LineNext
    <3>5. CASE todo = I2
      <4>1. LineNext(BranchLine, "interim", {"interim"}, {"kernel", "interim"})
        BY <1>4, <1>7, <2>2, <3>1, <3>2, <3>5 DEF BranchInv
      <4> QED
        BY <1>1, <1>7, <2>2, <3>1, <3>3, <3>5, <4>1, Different DEF BranchInv, Line, LineNext
    <3>6. CASE todo = I1
      <4>1. LineNext(BranchLine, "interim", {"interim"}, {})
        BY <1>5, <1>7, <2>2, <3>1, <3>2, <3>6 DEF BranchInv
      <4>2. LineNext(BranchLine, "interim", {"interim"}, {"interim"})
        BY <4>1 DEF LineNext, Holds
      <4> QED
        BY <1>1, <1>7, <2>2, <3>1, <3>3, <3>6, <4>2, Different DEF BranchInv, Settled, Line, LineNext
    <3> QED
      BY <2>1, <3>4, <3>5, <3>6
  <2>6. PageInv' /\ MainInv'
    BY <1>1, <1>3, <1>7, Types
    DEF SetupInv, LinesInv, PageInv, MainInv, Settled, Line, LineNext
  <2> QED
    BY <2>3, <2>4, <2>5, <2>6, FromFlush DEF LinesInv
<1>8. CASE pc = "tables2"
  <2>1. todo = P2 \/ todo = P1
    BY <1>1, <1>8 DEF SetupInv, TodoInv
  <2>2. /\ todo = P2 => todo' = P1 /\ Head(todo) = Invalidated(PageLine)
        /\ todo = P1 => todo' = <<>> /\ Head(todo) = Flushed(PageLine)
    BY <1>1, Flushes
  <2>3. TodoInv'
    BY <1>1, <1>8, <2>1, <2>2 DEF TodoInv
  <2>4. PageInv'
    <3>1. "hook" \in Contents /\ PageLine \in Lines
      BY Types
    <3>2. PageInv
      BY DEF SetupInv, LinesInv
    <3>3. CASE todo = P2
      <4>1. LineNext(PageLine, "hook", {"other", "hook"}, {})
        BY <1>5, <1>8, <2>2, <3>1, <3>2, <3>3 DEF PageInv
      <4> QED
        BY <1>1, <1>8, <2>2, <3>1, <3>3, <4>1, Different DEF PageInv, Line, LineNext
    <3>4. CASE todo = P1
      <4>1. LineNext(PageLine, "hook", {"hook"}, {})
        BY <1>4, <1>8, <2>2, <3>1, <3>2, <3>4 DEF PageInv
      <4>2. LineNext(PageLine, "hook", {"hook"}, {"hook"})
        BY <4>1 DEF LineNext, Holds
      <4> QED
        BY <1>1, <1>8, <2>2, <3>1, <3>4, <4>2, Different DEF PageInv, Settled, Line, LineNext
    <3> QED
      BY <2>1, <3>3, <3>4
  <2>5. StubInv' /\ BranchInv' /\ MainInv'
    BY <1>1, <1>3, <1>8, Types
    DEF SetupInv, LinesInv, StubInv, BranchInv, MainInv, Settled, Line, LineNext
  <2> QED
    BY <2>3, <2>4, <2>5, FromFlush DEF LinesInv
<1>9. CASE pc = "tables3"
  <2>1. TodoInv'
    BY <1>1, <1>9 DEF TodoInv
  <2>2. StubInv' /\ BranchInv' /\ PageInv' /\ MainInv'
    BY <1>1, <1>3, <1>9, Types
    DEF SetupInv, LinesInv, StubInv, BranchInv, PageInv, MainInv, Settled, Line, LineNext
  <2> QED
    BY <2>1, <2>2, FromFlush DEF LinesInv
<1>10. CASE pc = "reverted"
  <2>1. todo = M2 \/ todo = M1
    BY <1>1, <1>10 DEF SetupInv, TodoInv
  <2>2. /\ todo = M2 => todo' = M1 /\ Head(todo) = Flushed(MainLine)
        /\ todo = M1 => todo' = <<>> /\ Head(todo) = Invalidated(MainLine)
    BY <1>1, Flushes
  <2>3. TodoInv'
    BY <1>1, <1>10, <2>1, <2>2 DEF TodoInv
  <2>4. MainInv'
    <3>1. "plain" \in Contents /\ MainLine \in Lines
      BY Types
    <3>2. MainInv
      BY DEF SetupInv, LinesInv
    <3>3. CASE todo = M2
      <4>1. LineNext(MainLine, "plain", {"plain"}, {"hooked", "plain"})
        BY <1>4, <1>10, <2>2, <3>1, <3>2, <3>3 DEF MainInv
      <4> QED
        BY <1>1, <1>10, <2>2, <3>1, <3>3, <4>1, Different DEF MainInv, Line, LineNext
    <3>4. CASE todo = M1
      <4>1. LineNext(MainLine, "plain", {"plain"}, {})
        BY <1>5, <1>10, <2>2, <3>1, <3>2, <3>4 DEF MainInv
      <4>2. LineNext(MainLine, "plain", {"plain"}, {"plain"})
        BY <4>1 DEF LineNext, Holds
      <4> QED
        BY <1>1, <1>10, <2>2, <3>1, <3>4, <4>2, Different DEF MainInv, Settled, Line, LineNext
    <3> QED
      BY <2>1, <3>3, <3>4
  <2>5. StubInv' /\ BranchInv' /\ PageInv'
    BY <1>1, <1>3, <1>10, Types
    DEF SetupInv, LinesInv, StubInv, BranchInv, PageInv, Settled, Line, LineNext
  <2> QED
    BY <2>3, <2>4, <2>5, FromFlush DEF LinesInv
<1> QED
  BY <1>6, <1>7, <1>8, <1>9, <1>10

\* kern_write has patched the tables before t; after the last it goes on.
LEMMA WritePatchesStep == SetupInv /\ WritePatches => SetupInv'
<1> SUFFICES ASSUME SetupInv, WritePatches PROVE SetupInv'
  OBVIOUS
<1>1. /\ pc = "tables1" /\ todo = <<>> /\ todo' = todo
      /\ active' = active /\ syscall25' = syscall25 /\ memory' = memory
      /\ syscall36' = [syscall36 EXCEPT ![t] = "KernelPatches"]
      /\ \/ t < TableCount /\ t' = t + 1 /\ pc' = pc
         \/ ~(t < TableCount) /\ t' = 1 /\ pc' = "syscall1"
  BY DEF WritePatches, WriteTable, At, LastTable
<1>2. TypeOK
  BY DEF SetupInv
<1>3. TypeOK'
  BY <1>1, <1>2, SetupAssumption DEF TypeOK, memory, Tables, PCs
<1>4. TablesInv'
  BY <1>1, <1>2, SetupAssumption DEF SetupInv, TablesInv, TypeOK, Tables
<1>5. TodoInv'
  BY <1>1 DEF TodoInv
<1>6. LinesInv'
  BY <1>1, UnchangedLine
  DEF SetupInv, LinesInv, StubInv, BranchInv, PageInv, MainInv, Settled, Line, LineNext
<1> QED
  BY <1>3, <1>4, <1>5, <1>6 DEF SetupInv

\* The second round over the tables installs KernelPatchesFinal.
LEMMA WriteFinalStep == SetupInv /\ WriteFinal => SetupInv'
<1> SUFFICES ASSUME SetupInv, WriteFinal PROVE SetupInv'
  OBVIOUS
<1>1. /\ pc = "tables2" /\ todo = <<>> /\ todo' = todo
      /\ active' = active /\ syscall25' = syscall25 /\ memory' = memory
      /\ syscall36' = [syscall36 EXCEPT ![t] = "KernelPatchesFinal"]
      /\ \/ t < TableCount /\ t' = t + 1 /\ pc' = pc
         \/ ~(t < TableCount) /\ t' = 1 /\ pc' = "syscall2"
  BY DEF WriteFinal, WriteTable, At, LastTable
<1>2. TypeOK
  BY DEF SetupInv
<1>3. TypeOK'
  BY <1>1, <1>2, SetupAssumption DEF TypeOK, memory, Tables, PCs
<1>4. TablesInv'
  BY <1>1, <1>2, SetupAssumption DEF SetupInv, TablesInv, TypeOK, Tables
<1>5. TodoInv'
  BY <1>1 DEF TodoInv
<1>6. LinesInv'
  BY <1>1, UnchangedLine
  DEF SetupInv, LinesInv, StubInv, BranchInv, PageInv, MainInv, Settled, Line, LineNext
<1> QED
  BY <1>3, <1>4, <1>5, <1>6 DEF SetupInv

\* The third round installs the copy system call.
LEMMA WriteCopyStep == SetupInv /\ WriteCopy => SetupInv'
<1> SUFFICES ASSUME SetupInv, WriteCopy PROVE SetupInv'
  OBVIOUS
<1>1. /\ pc = "tables3" /\ todo = <<>> /\ todo' = todo
      /\ active' = active /\ syscall36' = syscall36 /\ memory' = memory
      /\ syscall25' = [syscall25 EXCEPT ![t] = "SCKernelCopyData"]
      /\ \/ t < TableCount /\ t' = t + 1 /\ pc' = pc
         \/ ~(t < TableCount) /\ t' = 1 /\ pc' = "ready"
  BY DEF WriteCopy, WriteTable, At, LastTable
<1>2. TypeOK
  BY DEF SetupInv
<1>3. TypeOK'
  BY <1>1, <1>2, SetupAssumption DEF TypeOK, memory, Tables, PCs
<1>4. TablesInv'
  BY <1>1, <1>2, SetupAssumption DEF SetupInv, TablesInv, TypeOK, Tables
<1>5. TodoInv'
  BY <1>1 DEF TodoInv
<1>6. LinesInv'
  BY <1>1, UnchangedLine
  DEF SetupInv, LinesInv, StubInv, BranchInv, PageInv, MainInv, Settled, Line, LineNext
<1> QED
  BY <1>3, <1>4, <1>5, <1>6 DEF SetupInv

\* The flushes are sequences of cache instructions.
LEMMA FlushTypes ==
    FlushInterim \in Seq(CacheOps) /\ FlushFinal \in Seq(CacheOps)
    /\ FlushPage \in Seq(CacheOps) /\ FlushMain \in Seq(CacheOps)
<1>1. \A a \in Nat : LineOf(a) \in Nat
  BY DEF LineOf
<1>2. \A a \in Nat : Ops(a) \in Seq(CacheOps)
  BY <1>1 DEF Ops, CacheOps
<1>3. {HookAddr, HookAddr + 32, HookAddr + 64, FinalEntry, MainHook} \subseteq Nat
  BY SetupAssumption
<1>4. PageLine \in Nat
  BY <1>1, <1>3 DEF PageLine
<1> QED
  BY <1>2, <1>3, <1>4 DEF FlushInterim, FlushFinal, FlushPage, FlushMain, CacheOps

\* A store has the type of the memory.
LEMMA StoreTypes ==
    ASSUME Memory, NEW contents, Store(contents),
           \A l \in DOMAIN contents : contents[l] \in Contents
    PROVE  Memory'
BY DEF Memory, Store

\* Every table has the handler, so the active one has: the stub is stored.
LEMMA CallPatchesStep == SetupInv /\ CallPatches => SetupInv'
<1> SUFFICES ASSUME SetupInv, CallPatches PROVE SetupInv'
  OBVIOUS
<1> DEFINE contents == [l \in StubLines |-> IF l = BranchLine THEN "interim" ELSE "bat"]
<1>1. /\ pc = "syscall1" /\ todo = <<>> /\ t' = t
      /\ syscall36' = syscall36 /\ syscall25' = syscall25 /\ active' = active
  BY DEF CallPatches, At, GoTo, handlers
<1>2. TypeOK /\ Memory
  BY DEF SetupInv, TypeOK, Memory
<1>3. syscall36[active] = "KernelPatches"
  BY <1>1, <1>2 DEF SetupInv, TablesInv, TypeOK
<1>4. Store(contents) /\ pc' = "setup2" /\ todo' = I4
  BY <1>3, Flushes DEF CallPatches, GoTo
<1>5. /\ DOMAIN contents = {StubLine, BranchLine}
      /\ contents[StubLine] = "bat" /\ contents[BranchLine] = "interim"
      /\ \A l \in DOMAIN contents : contents[l] \in Contents
  BY FourLines, Types
<1> HIDE DEF contents
<1>6. Memory'
  BY <1>2, <1>4, <1>5, StoreTypes
<1>7. TypeOK'
  BY <1>1, <1>2, <1>4, <1>6, Flushes, FlushTypes DEF TypeOK, Memory, PCs
<1>8. TablesInv' /\ TodoInv'
  BY <1>1, <1>4 DEF SetupInv, TablesInv, TodoInv
<1>9. /\ Settled(StubLine, "kernel") /\ Settled(BranchLine, "kernel")
      /\ Settled(PageLine, "other") /\ Settled(MainLine, "hooked")
  BY <1>1 DEF SetupInv, LinesInv, StubInv, BranchInv, PageInv, MainInv
<1>10. /\ LineNext(StubLine, "bat", {"kernel", "bat"}, {"kernel", "bat"})
       /\ LineNext(BranchLine, "interim", {"kernel", "interim"}, {"kernel", "interim"})
  <2>1. /\ StubLine \in Lines /\ StubLine \in DOMAIN contents
        /\ BranchLine \in Lines /\ BranchLine \in DOMAIN contents
    BY <1>5, Types
  <2>2. contents[StubLine] \in Contents /\ contents[BranchLine] \in Contents
    BY <1>5, Types
  <2>3. LineNext(StubLine, contents[StubLine], {"kernel", contents[StubLine]}, {"kernel", contents[StubLine]})
    BY <1>2, <1>4, <1>9, <2>1, <2>2, StoreHolds
  <2>4. LineNext(BranchLine, contents[BranchLine], {"kernel", contents[BranchLine]}, {"kernel", contents[BranchLine]})
    BY <1>2, <1>4, <1>9, <2>1, <2>2, StoreHolds
  <2> QED
    BY <2>3, <2>4, <1>5
<1>11. /\ LineNext(PageLine, "other", {"other"}, {"other"})
       /\ LineNext(MainLine, "hooked", {"hooked"}, {"hooked"})
  BY <1>2, <1>4, <1>5, <1>9, FourLines, Types, StoreElsewhere DEF Settled
<1>12. LinesInv'
  BY <1>4, <1>10, <1>11, Different
  DEF LinesInv, StubInv, BranchInv, PageInv, MainInv, Settled, Line, LineNext
<1> QED
  BY <1>7, <1>8, <1>12 DEF SetupInv

\* The hook's page is stored; what it waits for is its own flush.
LEMMA CopyHookStep == SetupInv /\ CopyHook => SetupInv'
<1> SUFFICES ASSUME SetupInv, CopyHook PROVE SetupInv'
  OBVIOUS
<1> DEFINE contents == [l \in {PageLine} |-> "hook"]
<1>1. /\ pc = "setup2" /\ todo = <<>> /\ t' = t /\ pc' = "tables2" /\ todo' = P2
      /\ syscall36' = syscall36 /\ syscall25' = syscall25 /\ active' = active
      /\ Store(contents)
  BY Flushes DEF CopyHook, At, GoTo, handlers
<1>2. TypeOK /\ Memory
  BY DEF SetupInv, TypeOK, Memory
<1>3. /\ DOMAIN contents = {PageLine} /\ contents[PageLine] = "hook"
      /\ \A l \in DOMAIN contents : contents[l] \in Contents
  BY Types
<1> HIDE DEF contents
<1>4. Memory'
  BY <1>1, <1>2, <1>3, StoreTypes
<1>5. TypeOK'
  BY <1>1, <1>2, <1>4, Flushes, FlushTypes DEF TypeOK, Memory, PCs
<1>6. t = 1
  BY <1>1 DEF SetupInv, TablesInv
<1>7. TablesInv' /\ TodoInv'
  BY <1>1, <1>6 DEF SetupInv, TablesInv, TodoInv
<1>8. /\ Settled(StubLine, "bat") /\ Settled(BranchLine, "interim")
      /\ Settled(PageLine, "other") /\ Settled(MainLine, "hooked")
  BY <1>1, Different DEF SetupInv, LinesInv, StubInv, BranchInv, PageInv, MainInv
<1>9. LineNext(PageLine, "hook", {"other", "hook"}, {"other", "hook"})
  <2>1. /\ PageLine \in Lines /\ PageLine \in DOMAIN contents
        /\ contents[PageLine] \in Contents
    BY <1>3, Types
  <2>2. LineNext(PageLine, contents[PageLine], {"other", contents[PageLine]}, {"other", contents[PageLine]})
    BY <1>1, <1>2, <1>8, <2>1, StoreHolds
  <2> QED
    BY <2>2, <1>3
<1>10. /\ LineNext(StubLine, "bat", {"bat"}, {"bat"})
       /\ LineNext(BranchLine, "interim", {"interim"}, {"interim"})
       /\ LineNext(MainLine, "hooked", {"hooked"}, {"hooked"})
  BY <1>1, <1>2, <1>3, <1>8, FourLines, Types, StoreElsewhere DEF Settled
<1>11. LinesInv'
  BY <1>1, <1>9, <1>10, Different
  DEF LinesInv, StubInv, BranchInv, PageInv, MainInv, Settled, Line, LineNext
<1> QED
  BY <1>5, <1>7, <1>11 DEF SetupInv

\* The branch is stored anew, once the page it goes to can be fetched.
LEMMA CallFinalStep == SetupInv /\ CallFinal => SetupInv'
<1> SUFFICES ASSUME SetupInv, CallFinal PROVE SetupInv'
  OBVIOUS
<1> DEFINE contents == [l \in {BranchLine} |-> "final"]
<1>1. /\ pc = "syscall2" /\ todo = <<>> /\ t' = t
      /\ syscall36' = syscall36 /\ syscall25' = syscall25 /\ active' = active
  BY DEF CallFinal, At, GoTo, handlers
<1>2. TypeOK /\ Memory
  BY DEF SetupInv, TypeOK, Memory
<1>3. syscall36[active] = "KernelPatchesFinal"
  BY <1>1, <1>2 DEF SetupInv, TablesInv, TypeOK
<1>4. Store(contents) /\ pc' = "tables3" /\ todo' = FlushFinal
  BY <1>3 DEF CallFinal, GoTo
<1>5. /\ DOMAIN contents = {BranchLine} /\ contents[BranchLine] = "final"
      /\ \A l \in DOMAIN contents : contents[l] \in Contents
  BY Types
<1> HIDE DEF contents
<1>6. Memory'
  BY <1>2, <1>4, <1>5, StoreTypes
<1>7. TypeOK'
  BY <1>1, <1>2, <1>4, <1>6, FlushTypes DEF TypeOK, Memory, PCs
<1>8. t = 1
  BY <1>1 DEF SetupInv, TablesInv
<1>9. TablesInv' /\ TodoInv'
  BY <1>1, <1>4, <1>8 DEF TablesInv, TodoInv
<1>10. /\ Settled(StubLine, "bat") /\ Settled(BranchLine, "interim")
       /\ Settled(PageLine, "hook") /\ Settled(MainLine, "hooked")
  BY <1>1 DEF SetupInv, LinesInv, StubInv, BranchInv, PageInv, MainInv
<1>11. LineNext(BranchLine, "final", {"interim", "final"}, {"interim", "final"})
  <2>1. /\ BranchLine \in Lines /\ BranchLine \in DOMAIN contents
        /\ contents[BranchLine] \in Contents
    BY <1>5, Types
  <2>2. LineNext(BranchLine, contents[BranchLine], {"interim", contents[BranchLine]}, {"interim", contents[BranchLine]})
    BY <1>2, <1>4, <1>10, <2>1, StoreHolds
  <2> QED
    BY <2>2, <1>5
<1>12. /\ LineNext(StubLine, "bat", {"bat"}, {"bat"})
       /\ LineNext(PageLine, "hook", {"hook"}, {"hook"})
       /\ LineNext(MainLine, "hooked", {"hooked"}, {"hooked"})
  BY <1>2, <1>4, <1>5, <1>10, FourLines, Types, StoreElsewhere DEF Settled
<1>13. LinesInv'
  BY <1>4, <1>11, <1>12
  DEF LinesInv, StubInv, BranchInv, PageInv, MainInv, Settled, Line, LineNext
<1> QED
  BY <1>7, <1>9, <1>13 DEF SetupInv

\* Entering the module leaves the patches as they are.
LEMMA LoadedStep == SetupInv /\ Loaded => SetupInv'
<1> SUFFICES ASSUME SetupInv, Loaded PROVE SetupInv'
  OBVIOUS
<1>1. /\ pc = "ready" /\ todo = <<>> /\ pc' = "entered" /\ todo' = <<>> /\ t' = t
      /\ syscall36' = syscall36 /\ syscall25' = syscall25 /\ active' = active
      /\ memory' = memory
  BY DEF Loaded, At, GoTo, handlers
<1>2. TypeOK'
  BY <1>1 DEF SetupInv, TypeOK, memory, PCs
<1>3. TablesInv' /\ TodoInv'
  BY <1>1 DEF SetupInv, TablesInv, TodoInv
<1>4. LinesInv'
  BY <1>1, UnchangedLine
  DEF SetupInv, LinesInv, StubInv, BranchInv, PageInv, MainInv, Settled, Line, LineNext
<1> QED
  BY <1>2, <1>3, <1>4 DEF SetupInv

\* Every table has the copy system call, so the word is stored.
LEMMA RevertStep == SetupInv /\ RevertMainHook => SetupInv'
<1> SUFFICES ASSUME SetupInv, RevertMainHook PROVE SetupInv'
  OBVIOUS
<1> DEFINE contents == [l \in {MainLine} |-> "plain"]
<1>1. /\ pc = "ready" /\ todo = <<>> /\ pc' = "reverted" /\ todo' = M2 /\ t' = t
      /\ syscall36' = syscall36 /\ syscall25' = syscall25 /\ active' = active
  BY Flushes DEF RevertMainHook, At, GoTo, handlers
<1>2. TypeOK /\ Memory
  BY DEF SetupInv, TypeOK, Memory
<1>3. syscall25[active] = "SCKernelCopyData"
  BY <1>1, <1>2 DEF SetupInv, TablesInv, TypeOK
<1>4. Store(contents)
  BY <1>3 DEF RevertMainHook
<1>5. /\ DOMAIN contents = {MainLine} /\ contents[MainLine] = "plain"
      /\ \A l \in DOMAIN contents : contents[l] \in Contents
  BY Types
<1> HIDE DEF contents
<1>6. Memory'
  BY <1>2, <1>4, <1>5, StoreTypes
<1>7. TypeOK'
  BY <1>1, <1>2, <1>6, Flushes, FlushTypes DEF TypeOK, Memory, PCs
<1>8. TablesInv' /\ TodoInv'
  BY <1>1 DEF SetupInv, TablesInv, TodoInv
<1>9. /\ Settled(StubLine, "bat") /\ Settled(PageLine, "hook") /\ Settled(MainLine, "hooked")
      /\ Line(BranchLine, "final", {"interim", "final"}, {"interim", "final"})
  BY <1>1 DEF SetupInv, LinesInv, StubInv, BranchInv, PageInv, MainInv
<1>10. LineNext(MainLine, "plain", {"hooked", "plain"}, {"hooked", "plain"})
  <2>1. /\ MainLine \in Lines /\ MainLine \in DOMAIN contents
        /\ contents[MainLine] \in Contents
    BY <1>5, Types
  <2>2. LineNext(MainLine, contents[MainLine], {"hooked", contents[MainLine]}, {"hooked", contents[MainLine]})
    BY <1>2, <1>4, <1>9, <2>1, StoreHolds
  <2> QED
    BY <2>2, <1>5
<1>11. /\ LineNext(StubLine, "bat", {"bat"}, {"bat"})
       /\ LineNext(PageLine, "hook", {"hook"}, {"hook"})
       /\ LineNext(BranchLine, "final", {"interim", "final"}, {"interim", "final"})
  BY <1>2, <1>4, <1>5, <1>9, FourLines, Types, StoreElsewhere DEF Settled
<1>12. LinesInv'
  BY <1>1, <1>10, <1>11, Different
  DEF LinesInv, StubInv, BranchInv, PageInv, MainInv, Settled, Line, LineNext
<1> QED
  BY <1>7, <1>8, <1>12 DEF SetupInv

\* Every step of the loader and of the hardware keeps SetupInv.
LEMMA StepKeepsSetupInv == SetupInv /\ [Next]_vars => SetupInv'
<1> SUFFICES ASSUME SetupInv, [Next]_vars PROVE SetupInv'
  OBVIOUS
<1>1. CASE UNCHANGED vars
  <2>1. /\ pc' = pc /\ t' = t /\ todo' = todo /\ memory' = memory
        /\ syscall36' = syscall36 /\ syscall25' = syscall25 /\ active' = active
    BY <1>1 DEF vars, control, handlers
  <2>2. Memory' /\ UNCHANGED <<control, handlers>>
    BY <2>1 DEF SetupInv, TypeOK, Memory, memory, control, handlers
  <2>3. LinesInv'
    <3>1. \A l \in Lines, c \in Contents : \A rams, insts :
            c \in rams /\ rams \subseteq insts /\ Line(l, c, rams, insts) => LineNext(l, c, rams, insts)
      BY <2>1, UnchangedLine
    <3>2. pc = "tables2" /\ todo = P1 => LineNext(PageLine, "hook", {"other", "hook"}, {})
      BY <2>1, UnchangedLine DEF SetupInv, LinesInv, PageInv
    <3> QED
      BY <2>1, <3>1, <3>2, LinesFrom DEF SetupInv
  <2> QED
    BY <2>2, <2>3, FromLines
<1>2. CASE Loader
  BY <1>2, WritePatchesStep, CallPatchesStep, CopyHookStep, WriteFinalStep, CallFinalStep,
     WriteCopyStep, LoadedStep, RevertStep, CacheOpStep DEF Loader
<1>3. CASE Hardware
  BY <1>3, HardwareStep
<1> QED
  BY <1>1, <1>2, <1>3 DEF Next

\* So it always holds.
LEMMA SetupInvHolds == Spec => []SetupInv
BY InitSetupInv, StepKeepsSetupInv, PTL DEF Spec

-----------------------------------------------------------------------------
\* What can be fetched from a line is what memory may have or a core has fetched.
LEMMA FetchesFrom ==
    ASSUME NEW l, NEW c, NEW rams, NEW insts, Line(l, c, rams, insts)
    PROVE  Fetch(l) \in rams \cup insts
BY DEF Line, Holds, Fetch

\* The setup's state has its types.
THEOREM SetupTyped == Spec => []TypeOK
<1>1. SetupInv => TypeOK
  BY DEF SetupInv
<1> QED
  BY <1>1, SetupInvHolds, PTL

\* When KernelPatches has returned, the stub that is fetched is the one it stored.
THEOREM InterimStubIsVisible == Spec => []InterimStubVisible
<1>1. SetupInv => InterimStubVisible
  <2> SUFFICES ASSUME SetupInv, Interim PROVE \A l \in StubLines :
        Fetch(l) = IF l = BranchLine THEN "interim" ELSE "bat"
    BY DEF InterimStubVisible
  <2>1. Settled(StubLine, "bat") /\ Settled(BranchLine, "interim")
    BY Different DEF Interim, SetupInv, LinesInv, StubInv, BranchInv
  <2>2. Fetch(StubLine) = "bat" /\ Fetch(BranchLine) = "interim"
    <3>1. Fetch(StubLine) \in {"bat"} \cup {"bat"}
      BY <2>1, FetchesFrom DEF Settled
    <3>2. Fetch(BranchLine) \in {"interim"} \cup {"interim"}
      BY <2>1, FetchesFrom DEF Settled
    <3> QED
      BY <3>1, <3>2
  <2> QED
    BY <2>2, FourLines
<1> QED
  BY <1>1, SetupInvHolds, PTL

\* No core is sent to the hook's page before the hook can be fetched there,
\* although its line is invalidated before it is flushed.
THEOREM PageIsReadyBeforeBranch == Spec => []PageReadyBeforeBranch
<1>1. SetupInv => PageReadyBeforeBranch
  <2> SUFFICES ASSUME SetupInv, Fetch(BranchLine) = "final" PROVE Fetch(PageLine) = "hook"
    BY DEF PageReadyBeforeBranch
  <2>1. pc \in PCs /\ BranchInv /\ PageInv
    BY DEF SetupInv, TypeOK, LinesInv
  <2>2. ASSUME NEW c, NEW rams, NEW insts, Line(BranchLine, c, rams, insts),
               "final" \notin rams \cup insts
        PROVE  FALSE
    BY <2>2, FetchesFrom
  <2>3. pc \notin {"tables1", "syscall1", "setup2", "tables2", "syscall2"}
    BY <2>1, <2>2 DEF BranchInv, Settled
  <2>4. Settled(PageLine, "hook")
    BY <2>1, <2>3 DEF PageInv, PCs
  <2>5. Fetch(PageLine) \in {"hook"} \cup {"hook"}
    BY <2>4, FetchesFrom DEF Settled
  <2> QED
    BY <2>5
<1> QED
  BY <1>1, SetupInvHolds, PTL

\* Whichever table the process uses, the final branch has been stored and the
\* copy system call is there when the loader starts.
THEOREM SetupWorks == Spec => []SetupWorksWithAnyTable
<1>1. SetupInv => SetupWorksWithAnyTable
  <2> SUFFICES ASSUME SetupInv, pc \in {"ready", "entered"}
               PROVE  Latest(BranchLine) = "final" /\ syscall25[active] = "SCKernelCopyData"
    BY DEF SetupWorksWithAnyTable
  <2>1. Line(BranchLine, "final", {"interim", "final"}, {"interim", "final"})
    BY DEF SetupInv, LinesInv, BranchInv
  <2>2. Latest(BranchLine) = "final"
    BY <2>1 DEF Line, Holds, Latest, Clean
  <2>3. syscall25[active] = "SCKernelCopyData"
    BY DEF SetupInv, TablesInv, TypeOK
  <2> QED
    BY <2>2, <2>3
<1> QED
  BY <1>1, SetupInvHolds, PTL

\* After a failed load the hook that starts the loader cannot be fetched.
THEOREM MainHookIsGone == Spec => []MainHookGone
<1>1. SetupInv => MainHookGone
  <2> SUFFICES ASSUME SetupInv, pc = "reverted", todo = <<>>
               PROVE  Fetch(MainLine) = "plain"
    BY DEF MainHookGone
  <2>1. Settled(MainLine, "plain")
    BY DEF SetupInv, LinesInv, MainInv
  <2>2. Fetch(MainLine) \in {"plain"} \cup {"plain"}
    BY <2>1, FetchesFrom DEF Settled
  <2> QED
    BY <2>2
<1> QED
  BY <1>1, SetupInvHolds, PTL
-----------------------------------------------------------------------------
\* The ten instructions the stub replaces load seven registers in a row, then r3.
LEMMA ReloadCode ==
    /\ Len(Hook!Reload) = 10
    /\ \A n \in 1 .. 7 : Hook!Reload[n] = Hook!Lwz(n + 4, 48 + 4 * n)
    /\ Hook!Reload[8] = Hook!Lwz(3, 80)
    /\ Hook!Reload[9] = Hook!Plain("sync", 0)
    /\ Hook!Reload[10] = Hook!Plain("mtsr7", 5)
  BY DEF Hook!Reload

\* The instructions of the stub.
LEMMA StubCode ==
    /\ Len(Hook!Stub) = 10
    /\ Hook!Stub[1] = Hook!Lis(7, Hook!BAT4L) /\ Hook!Stub[2] = Hook!Ori(7, Hook!BAT4L)
    /\ Hook!Stub[3] = Hook!Mtspr(561, 7)
    /\ Hook!Stub[4] = Hook!Lis(7, Hook!BAT4U) /\ Hook!Stub[5] = Hook!Ori(7, Hook!BAT4U)
    /\ Hook!Stub[6] = Hook!Mtspr(560, 7)
    /\ Hook!Stub[7] = Hook!Plain("sync", 0) /\ Hook!Stub[8] = Hook!Plain("sync", 0)
    /\ Hook!Stub[9] = Hook!Plain("mflr", 7) /\ Hook!Stub[10] = Hook!Plain("bla", 0)
  BY DEF Hook!Stub

\* The instructions of the hook, seven of its own before the kernel's ten.
LEMMA HookCodes ==
    /\ Len(Hook!HookCode) = 18
    /\ Hook!HookCode[1] = Hook!Plain("mflr", 5) /\ Hook!HookCode[2] = Hook!Plain("mtctr", 5)
    /\ Hook!HookCode[3] = Hook!Plain("mtlr", 7)
    /\ Hook!HookCode[4] = Hook!Mfspr(5, 560) /\ Hook!HookCode[5] = Hook!Mtspr(570, 5)
    /\ Hook!HookCode[6] = Hook!Mfspr(5, 561) /\ Hook!HookCode[7] = Hook!Mtspr(571, 5)
    /\ \A n \in 1 .. 10 : Hook!HookCode[n + 7] = Hook!Reload[n]
    /\ Hook!HookCode[18] = Hook!Plain("bctr", 0)
  BY DEF Hook!HookCode, Hook!LinkBack, Hook!Mirror, Hook!Reload

\* No function is longer than the hook.
LEMMA CodesAreShort ==
    ASSUME NEW c
    PROVE  Len(Hook!CodeOf(c)) \in Nat /\ Len(Hook!CodeOf(c)) <= Len(Hook!HookCode)
<1>1. Hook!CodeOf(c) \in {Hook!HookCode, Hook!Stub, Hook!Reload}
  BY DEF Hook!CodeOf
<1>2. Len(Hook!HookCode) = 18 /\ Len(Hook!Stub) = 10 /\ Len(Hook!Reload) = 10
  BY HookCodes, StubCode, ReloadCode
<1>3. Len(Hook!CodeOf(c)) \in {18, 10}
  BY <1>1, <1>2, Zenon
<1>4. PICK n : n = Len(Hook!CodeOf(c))
  OBVIOUS
<1>5. PICK m : m = Len(Hook!HookCode)
  OBVIOUS
<1>6. n \in {18, 10}
  BY <1>3, <1>4, Zenon
<1>7. m = 18
  BY <1>2, <1>5, Zenon
<1>8. n \in Nat /\ n <= m
  BY <1>6, <1>7
<1> QED
  BY <1>4, <1>5, <1>8, Zenon

\* What one instruction does, but for the two that go elsewhere.
LEMMA Does ==
    ASSUME NEW r, NEW x, NEW op, Hook!Execute, hI \in Nat, hI <= Len(Hook!CodeOf(hCode)),
           Hook!Fetched = Hook!Ins(op, r, x), op # "bla", op # "bctr"
    PROVE  /\ hI' = hI + 1 /\ UNCHANGED <<hCode, hPatched>>
           /\ op = "lwz" => /\ hReg' = [hReg EXCEPT ![r] = Hook!Load(x[2])]
                            /\ UNCHANGED <<hLr, hCtr, hSpr, hSr7>>
           /\ op = "lis" => /\ hReg' = [hReg EXCEPT ![r] = Hook!Upper(x)]
                            /\ UNCHANGED <<hLr, hCtr, hSpr, hSr7>>
           /\ op = "ori" => /\ hReg' = [hReg EXCEPT ![r] = IF hReg[r] = Hook!Upper(x) THEN x
                                                          ELSE Hook!Unknown]
                            /\ UNCHANGED <<hLr, hCtr, hSpr, hSr7>>
           /\ op = "mtspr" => /\ hSpr' = [hSpr EXCEPT ![x[2]] = hReg[r]]
                              /\ UNCHANGED <<hReg, hLr, hCtr, hSr7>>
           /\ op = "mfspr" => /\ hReg' = [hReg EXCEPT ![r] = hSpr[x[2]]]
                              /\ UNCHANGED <<hLr, hCtr, hSpr, hSr7>>
           /\ op = "mflr" => /\ hReg' = [hReg EXCEPT ![r] = hLr]
                             /\ UNCHANGED <<hLr, hCtr, hSpr, hSr7>>
           /\ op = "mtlr" => hLr' = hReg[r] /\ UNCHANGED <<hReg, hCtr, hSpr, hSr7>>
           /\ op = "mtctr" => hCtr' = hReg[r] /\ UNCHANGED <<hReg, hLr, hSpr, hSr7>>
           /\ op = "mtsr7" => hSr7' = hReg[r] /\ UNCHANGED <<hReg, hLr, hCtr, hSpr>>
           /\ op = "sync" => UNCHANGED <<hReg, hLr, hCtr, hSpr, hSr7>>
<1>1. Hook!Fetched.op = op /\ Hook!Fetched.r = r /\ Hook!Fetched.x = x
  BY DEF Hook!Ins
<1>2. ~ Hook!EndOfReload
  <2>1. hCode = "kernel" => Hook!CodeOf(hCode) = Hook!Reload
    BY DEF Hook!CodeOf
  <2>2. Len(Hook!Reload) = 10
    BY ReloadCode
  <2>3. ASSUME hCode = "kernel", hI > Len(Hook!Reload) PROVE FALSE
    <3>1. hI <= Len(Hook!Reload)
      BY <2>1, <2>3
    <3> QED
      BY <2>2, <2>3, <3>1
  <2> QED
    BY <2>3 DEF Hook!EndOfReload
<1>3. \A o : Hook!Executing(o) => o = op
  BY <1>1 DEF Hook!Executing
<1>4. CASE Hook!ExecLwz
  BY <1>1, <1>3, <1>4 DEF Hook!ExecLwz, Hook!FallsThrough, Hook!SetReg
<1>5. CASE Hook!ExecLis
  BY <1>1, <1>3, <1>5 DEF Hook!ExecLis, Hook!FallsThrough, Hook!SetReg
<1>6. CASE Hook!ExecOri
  BY <1>1, <1>3, <1>6 DEF Hook!ExecOri, Hook!FallsThrough, Hook!SetReg
<1>7. CASE Hook!ExecMtspr
  BY <1>1, <1>3, <1>7 DEF Hook!ExecMtspr, Hook!FallsThrough
<1>8. CASE Hook!ExecMfspr
  BY <1>1, <1>3, <1>8 DEF Hook!ExecMfspr, Hook!FallsThrough, Hook!SetReg
<1>9. CASE Hook!ExecMove
  BY <1>1, <1>3, <1>9 DEF Hook!ExecMove, Hook!FallsThrough, Hook!SetReg
<1>10. ~ Hook!ExecBla /\ ~ Hook!ExecBctr
  BY <1>3 DEF Hook!ExecBla, Hook!ExecBctr
<1> QED
  BY <1>2, <1>4, <1>5, <1>6, <1>7, <1>8, <1>9, <1>10 DEF Hook!Execute

\* What the instructions with an operand do, by their names in KernelHook: a load,
LEMMA DoesLwz ==
    ASSUME NEW r, NEW o, Hook!Execute, hI \in Nat, hI <= Len(Hook!CodeOf(hCode)),
           Hook!Fetched = Hook!Lwz(r, o)
    PROVE  /\ hI' = hI + 1 /\ UNCHANGED <<hCode, hPatched, hLr, hCtr, hSpr, hSr7>>
           /\ hReg' = [hReg EXCEPT ![r] = Hook!Load(o)]
<1>1. PICK x : x = <<"offset", o>>
  OBVIOUS
<1>2. x[2] = o
  BY <1>1
<1>3. Hook!Fetched = Hook!Ins("lwz", r, x)
  BY <1>1 DEF Hook!Lwz
<1>4. /\ hI' = hI + 1 /\ UNCHANGED <<hCode, hPatched, hLr, hCtr, hSpr, hSr7>>
      /\ hReg' = [hReg EXCEPT ![r] = Hook!Load(x[2])]
  BY <1>3, Does
<1> QED
  BY <1>2, <1>4, Zenon

\* a move to a special register,
LEMMA DoesMtspr ==
    ASSUME NEW r, NEW n, Hook!Execute, hI \in Nat, hI <= Len(Hook!CodeOf(hCode)),
           Hook!Fetched = Hook!Mtspr(n, r)
    PROVE  /\ hI' = hI + 1 /\ UNCHANGED <<hCode, hPatched, hReg, hLr, hCtr, hSr7>>
           /\ hSpr' = [hSpr EXCEPT ![n] = hReg[r]]
<1>1. PICK x : x = <<"spr", n>>
  OBVIOUS
<1>2. x[2] = n
  BY <1>1
<1>3. Hook!Fetched = Hook!Ins("mtspr", r, x)
  BY <1>1 DEF Hook!Mtspr
<1>4. /\ hI' = hI + 1 /\ UNCHANGED <<hCode, hPatched, hReg, hLr, hCtr, hSr7>>
      /\ hSpr' = [hSpr EXCEPT ![x[2]] = hReg[r]]
  BY <1>3, Does
<1> QED
  BY <1>2, <1>4, Zenon

\* a move from one,
LEMMA DoesMfspr ==
    ASSUME NEW r, NEW n, Hook!Execute, hI \in Nat, hI <= Len(Hook!CodeOf(hCode)),
           Hook!Fetched = Hook!Mfspr(r, n)
    PROVE  /\ hI' = hI + 1 /\ UNCHANGED <<hCode, hPatched, hLr, hCtr, hSpr, hSr7>>
           /\ hReg' = [hReg EXCEPT ![r] = hSpr[n]]
<1>1. PICK x : x = <<"spr", n>>
  OBVIOUS
<1>2. x[2] = n
  BY <1>1
<1>3. Hook!Fetched = Hook!Ins("mfspr", r, x)
  BY <1>1 DEF Hook!Mfspr
<1>4. /\ hI' = hI + 1 /\ UNCHANGED <<hCode, hPatched, hLr, hCtr, hSpr, hSr7>>
      /\ hReg' = [hReg EXCEPT ![r] = hSpr[x[2]]]
  BY <1>3, Does
<1> QED
  BY <1>2, <1>4, Zenon

\* the high half of a constant,
LEMMA DoesLis ==
    ASSUME NEW r, NEW n, Hook!Execute, hI \in Nat, hI <= Len(Hook!CodeOf(hCode)),
           Hook!Fetched = Hook!Lis(r, n)
    PROVE  /\ hI' = hI + 1 /\ UNCHANGED <<hCode, hPatched, hLr, hCtr, hSpr, hSr7>>
           /\ hReg' = [hReg EXCEPT ![r] = Hook!Upper(n)]
<1>1. Hook!Fetched = Hook!Ins("lis", r, n)
  BY DEF Hook!Lis
<1> QED
  BY <1>1, Does

\* and its low half, added to the high one.
LEMMA DoesOri ==
    ASSUME NEW r, NEW n, Hook!Execute, hI \in Nat, hI <= Len(Hook!CodeOf(hCode)),
           Hook!Fetched = Hook!Ori(r, n)
    PROVE  /\ hI' = hI + 1 /\ UNCHANGED <<hCode, hPatched, hLr, hCtr, hSpr, hSr7>>
           /\ hReg[r] = Hook!Upper(n) => hReg' = [hReg EXCEPT ![r] = n]
<1>1. Hook!Fetched = Hook!Ins("ori", r, n)
  BY DEF Hook!Ori
<1> QED
  BY <1>1, Does

\* The first n of the ten instructions have been executed.
Reloaded(n) ==
    /\ \A k \in 1 .. 7 : k <= n => hReg[k + 4] = Hook!Word(48 + 4 * k)
    /\ hReg[3] = IF n >= 8 THEN Hook!Word(80) ELSE Hook!Context
    /\ n >= 10 => hSr7 = Hook!Word(52)

\* What the kernel's own instructions,
KernelInv ==
    hCode = "kernel" =>
        hI \in 1 .. 11 /\ Reloaded(hI - 1) /\ hLr = Hook!Caller /\ ~hPatched

\* the stub's
StubRuns ==
    hCode = "stub" =>
        /\ hI \in 1 .. 10 /\ Reloaded(0) /\ hLr = Hook!Caller /\ hPatched
        /\ hI = 2 => hReg[7] = Hook!Upper(Hook!BAT4L)
        /\ hI = 3 => hReg[7] = Hook!BAT4L
        /\ hI >= 4 => hSpr[561] = Hook!BAT4L
        /\ hI = 5 => hReg[7] = Hook!Upper(Hook!BAT4U)
        /\ hI = 6 => hReg[7] = Hook!BAT4U
        /\ hI >= 7 => hSpr[560] = Hook!BAT4U
        /\ hI = 10 => hReg[7] = Hook!Caller

\* and the hook's have done before each of them.
FunctionInv ==
    hCode = "hook" =>
        /\ hI \in 1 .. 18 /\ Hook!Mapped /\ hPatched
        /\ Reloaded(IF hI <= 8 THEN 0 ELSE hI - 8)
        /\ hI <= 3 => hReg[7] = Hook!Caller
        /\ hI = 1 => hLr = Hook!Behind
        /\ hI = 2 => hReg[5] = Hook!Behind
        /\ hI >= 3 => hCtr = Hook!Behind
        /\ hI >= 4 => hLr = Hook!Caller
        /\ hI = 5 => hReg[5] = hSpr[560]
        /\ hI >= 6 => hSpr[570] = hSpr[560]
        /\ hI = 7 => hReg[5] = hSpr[561]
        /\ hI >= 8 => hSpr[571] = hSpr[561]

BackInv == Hook!RegistersRestored /\ Hook!ComesBack /\ Hook!DataFollowsCode

HookInv == Hook!TypeOK /\ KernelInv /\ StubRuns /\ FunctionInv /\ BackInv

\* One more of the ten instructions is executed, in the kernel or in the hook.
LEMMA ReloadsOn ==
    ASSUME NEW n \in 1 .. 10, Hook!TypeOK, Hook!Execute, hI <= Len(Hook!CodeOf(hCode)),
           Hook!Fetched = Hook!Reload[n], Reloaded(n - 1)
    PROVE  /\ Reloaded(n)' /\ Hook!TypeOK'
           /\ hI' = hI + 1 /\ UNCHANGED <<hCode, hPatched, hLr, hCtr, hSpr>>
<1>1. hI \in Nat
  BY DEF Hook!TypeOK
<1>2. /\ hReg \in [Hook!Registers -> Hook!Values] /\ {hLr, hCtr, hSr7} \subseteq Hook!Values
      /\ \A o : Hook!Word(o) \in Hook!Values
      /\ hI + 1 \in 1 .. Len(Hook!HookCode) + 1
  <2>1. hI + 1 \in 1 .. Len(Hook!HookCode) + 1
    BY CodesAreShort DEF Hook!TypeOK
  <2> QED
    BY <2>1 DEF Hook!TypeOK, Hook!Values, Hook!Word
<1>3. CASE n \in 1 .. 7
  <2>1. /\ hI' = hI + 1 /\ UNCHANGED <<hCode, hPatched, hLr, hCtr, hSpr, hSr7>>
        /\ hReg' = [hReg EXCEPT ![n + 4] = Hook!Load(48 + 4 * n)]
    <3>1. Hook!Fetched = Hook!Lwz(n + 4, 48 + 4 * n)
      BY <1>3, ReloadCode
    <3> QED
      BY <1>1, <3>1, DoesLwz
  <2>2. Hook!Load(48 + 4 * n) = Hook!Word(48 + 4 * n)
    BY <1>3 DEF Hook!Load, Reloaded
  <2>3. n + 4 \in Hook!Registers /\ n + 4 # 3
    BY <1>3 DEF Hook!Registers
  <2>4. ASSUME NEW k \in 1 .. 7, k <= n
        PROVE  hReg'[k + 4] = Hook!Word(48 + 4 * k)
    <3>1. k + 4 \in Hook!Registers
      BY DEF Hook!Registers
    <3>2. CASE k = n
      BY <1>2, <2>1, <2>2, <2>3, <3>2
    <3>3. CASE k # n
      <4>1. k + 4 # n + 4 /\ k <= n - 1
        BY <1>3, <2>4, <3>3
      <4>2. hReg[k + 4] = Hook!Word(48 + 4 * k)
        BY <4>1 DEF Reloaded
      <4> QED
        BY <1>2, <2>1, <2>3, <3>1, <4>1, <4>2
    <3> QED
      BY <3>2, <3>3
  <2>5. hReg'[3] = hReg[3] /\ hReg' \in [Hook!Registers -> Hook!Values]
    <3>1. 3 \in Hook!Registers
      BY DEF Hook!Registers
    <3> QED
      BY <1>2, <2>1, <2>2, <2>3, <3>1
  <2>6. Reloaded(n)'
    BY <1>3, <2>1, <2>4, <2>5 DEF Reloaded
  <2> QED
    BY <1>2, <2>1, <2>5, <2>6 DEF Hook!TypeOK
<1>4. CASE n = 8
  <2>1. /\ hI' = hI + 1 /\ UNCHANGED <<hCode, hPatched, hLr, hCtr, hSpr, hSr7>>
        /\ hReg' = [hReg EXCEPT ![3] = Hook!Load(80)]
    <3>1. Hook!Fetched = Hook!Lwz(3, 80)
      BY <1>4, ReloadCode
    <3> QED
      BY <1>1, <3>1, DoesLwz
  <2>2. Hook!Load(80) = Hook!Word(80)
    BY <1>4 DEF Hook!Load, Reloaded
  <2>3. 3 \in Hook!Registers /\ \A k \in 1 .. 7 : k + 4 # 3
    BY DEF Hook!Registers
  <2> QED
    BY <1>2, <1>4, <2>1, <2>2, <2>3 DEF Reloaded, Hook!TypeOK
<1>5. CASE n = 9
  <2>1. hI' = hI + 1 /\ UNCHANGED <<hCode, hPatched, hReg, hLr, hCtr, hSpr, hSr7>>
    BY <1>1, <1>5, ReloadCode, Does DEF Hook!Plain
  <2> QED
    BY <1>2, <1>5, <2>1 DEF Reloaded, Hook!TypeOK
<1>6. CASE n = 10
  <2>1. /\ hI' = hI + 1 /\ UNCHANGED <<hCode, hPatched, hReg, hLr, hCtr, hSpr>>
        /\ hSr7' = hReg[5]
    BY <1>1, <1>6, ReloadCode, Does DEF Hook!Plain
  <2>2. hReg[5] = Hook!Word(52)
    BY <1>6 DEF Reloaded
  <2> QED
    BY <1>2, <1>6, <2>1, <2>2 DEF Reloaded, Hook!TypeOK
<1> QED
  BY <1>3, <1>4, <1>5, <1>6

\* Behind the ten instructions nothing is missing.
LEMMA RestoresAll ==
    ASSUME Reloaded(10), hLr = Hook!Caller, UNCHANGED <<hReg, hLr, hSr7>>
    PROVE  Hook!RegistersRestored'
<1>1. ASSUME NEW r \in 5 .. 11
      PROVE  hReg[r] = Hook!Word(52 + 4 * (r - 5))
  <2>1. PICK k \in 1 .. 7 : k = r - 4
    OBVIOUS
  <2>2. k + 4 = r /\ 48 + 4 * k = 52 + 4 * (r - 5) /\ k <= 10
    BY <2>1
  <2>3. hReg[k + 4] = Hook!Word(48 + 4 * k)
    BY <2>2 DEF Reloaded
  <2> QED
    BY <2>2, <2>3
<1>2. hReg[3] = Hook!Word(80) /\ hSr7 = Hook!Word(52)
  BY DEF Reloaded
<1> QED
  BY <1>1, <1>2 DEF Hook!RegistersRestored

\* The kernel's own instructions.
LEMMA KernelGoesOn ==
    ASSUME HookInv, Hook!Execute, hCode = "kernel"
    PROVE  HookInv'
<1>1. Hook!CodeOf(hCode) = Hook!Reload /\ Len(Hook!Reload) = 10
  BY ReloadCode DEF Hook!CodeOf
<1>2. hI \in 1 .. 11 /\ Reloaded(hI - 1) /\ hLr = Hook!Caller /\ ~hPatched /\ Hook!TypeOK
  BY DEF HookInv, KernelInv
<1>3. CASE hI = 11
  <2>1. ~ \E op : Hook!Executing(op)
    <3>1. PICK m : m = Len(Hook!CodeOf(hCode))
      OBVIOUS
    <3>2. m = 10
      BY <1>1, <3>1, Zenon
    <3>3. ~ (hI <= m)
      BY <1>3, <3>2
    <3> QED
      BY <3>1, <3>3, Zenon DEF Hook!Executing
  <2>2. Hook!EndOfReload
    BY <2>1 DEF Hook!Execute, Hook!ExecLwz, Hook!ExecLis, Hook!ExecOri, Hook!ExecMtspr,
                Hook!ExecMfspr, Hook!ExecMove, Hook!ExecBla, Hook!ExecBctr
  <2>3. hCode' = "back" /\ UNCHANGED <<hI, hReg, hLr, hCtr, hSpr, hSr7, hPatched>>
    BY <2>2 DEF Hook!EndOfReload
  <2>4. Hook!TypeOK'
    BY <1>2, <2>3 DEF Hook!TypeOK
  <2>5. Reloaded(10)
    BY <1>2, <1>3
  <2>6. Hook!RegistersRestored'
    BY <1>2, <2>3, <2>5, RestoresAll
  <2> QED
    BY <1>2, <2>3, <2>4, <2>6
       DEF HookInv, KernelInv, StubRuns, FunctionInv, BackInv, Hook!ComesBack,
           Hook!DataFollowsCode
<1>4. CASE hI \in 1 .. 10
  <2>1. PICK n : n = hI
    OBVIOUS
  <2>2. /\ n \in 1 .. 10 /\ hI <= Len(Hook!CodeOf(hCode))
        /\ Hook!Fetched = Hook!Reload[n] /\ Reloaded(n - 1)
    BY <1>1, <1>2, <1>4, <2>1 DEF Hook!Fetched
  <2>3. /\ Reloaded(n)' /\ Hook!TypeOK'
        /\ hI' = hI + 1 /\ UNCHANGED <<hCode, hPatched, hLr, hCtr, hSpr>>
    BY <1>2, <2>2, ReloadsOn
  <2>4. hI' - 1 = n /\ hI' \in 1 .. 11
    BY <2>1, <2>2, <2>3
  <2>5. KernelInv'
    BY <1>2, <2>3, <2>4 DEF KernelInv, Reloaded
  <2> QED
    BY <2>3, <2>5 DEF HookInv, StubRuns, FunctionInv, BackInv, Hook!RegistersRestored,
                      Hook!ComesBack, Hook!DataFollowsCode
<1> QED
  BY <1>2, <1>3, <1>4

\* The stub's, the last of which goes to the hook.
LEMMA StubGoesOn ==
    ASSUME HookInv, Hook!Execute, hCode = "stub"
    PROVE  HookInv'
<1>1. Hook!Fetched = Hook!Stub[hI] /\ hI \in 1 .. 10 /\ hI \in Nat
      /\ hI <= Len(Hook!CodeOf(hCode)) /\ hI + 1 \in 1 .. Len(Hook!HookCode) + 1
  <2>1. Hook!CodeOf(hCode) = Hook!Stub /\ hI \in 1 .. 10
    BY DEF Hook!CodeOf, HookInv, StubRuns
  <2>2. Len(Hook!CodeOf(hCode)) = 10
    BY <2>1, StubCode, Zenon
  <2>3. hI + 1 \in 1 .. Len(Hook!HookCode) + 1
    BY <2>1, HookCodes
  <2>4. hI <= Len(Hook!CodeOf(hCode))
    <3>1. PICK m : m = Len(Hook!CodeOf(hCode))
      OBVIOUS
    <3>2. m = 10
      BY <2>2, <3>1, Zenon
    <3>3. hI <= m
      BY <2>1, <3>2
    <3> QED
      BY <3>1, <3>3, Zenon
  <2>5. Hook!Fetched = Hook!Stub[hI]
    BY <2>1, Zenon DEF Hook!Fetched
  <2>6. hI \in Nat
    BY <2>1
  <2> QED
    BY <2>1, <2>3, <2>4, <2>5, <2>6, Zenon
<1>2. /\ hReg \in [Hook!Registers -> Hook!Values] /\ hLr \in Hook!Values
      /\ hSpr \in [Hook!Bats -> Hook!Values]
      /\ {Hook!BAT4U, Hook!BAT4L, Hook!Upper(Hook!BAT4U), Hook!Upper(Hook!BAT4L), Hook!Behind,
          Hook!Unknown} \subseteq Hook!Values
      /\ 7 \in Hook!Registers /\ {560, 561} \subseteq Hook!Bats
  BY DEF HookInv, Hook!TypeOK, Hook!Values, Hook!Registers, Hook!Bats
<1>3. Reloaded(0) /\ hLr = Hook!Caller /\ hPatched
  BY DEF HookInv, StubRuns
<1>4. CASE hI \in {1, 4}
  <2>1. /\ hI' = hI + 1 /\ UNCHANGED <<hCode, hPatched, hLr, hCtr, hSpr, hSr7>>
        /\ hReg' = [hReg EXCEPT ![7] = Hook!Upper(IF hI = 1 THEN Hook!BAT4L ELSE Hook!BAT4U)]
    <3>1. CASE hI = 1
      <4>1. Hook!Fetched = Hook!Lis(7, Hook!BAT4L)
        BY <1>1, <3>1, StubCode
      <4> QED
        BY <1>1, <3>1, <4>1, DoesLis
    <3>2. CASE hI = 4
      <4>1. Hook!Fetched = Hook!Lis(7, Hook!BAT4U)
        BY <1>1, <3>2, StubCode
      <4> QED
        BY <1>1, <3>2, <4>1, DoesLis
    <3> QED
      BY <1>4, <3>1, <3>2
  <2> QED
    BY <1>1, <1>2, <1>3, <1>4, <2>1
       DEF HookInv, Hook!TypeOK, KernelInv, StubRuns, FunctionInv, BackInv, Reloaded,
           Hook!RegistersRestored, Hook!ComesBack, Hook!DataFollowsCode
<1>5. CASE hI \in {2, 5}
  <2>1. /\ hI' = hI + 1 /\ UNCHANGED <<hCode, hPatched, hLr, hCtr, hSpr, hSr7>>
        /\ hReg' = [hReg EXCEPT ![7] = IF hI = 2 THEN Hook!BAT4L ELSE Hook!BAT4U]
    <3>1. CASE hI = 2
      <4>1. Hook!Fetched = Hook!Ori(7, Hook!BAT4L)
        BY <1>1, <3>1, StubCode
      <4>2. hReg[7] = Hook!Upper(Hook!BAT4L)
        BY <3>1 DEF HookInv, StubRuns
      <4> QED
        BY <1>1, <3>1, <4>1, <4>2, DoesOri
    <3>2. CASE hI = 5
      <4>1. Hook!Fetched = Hook!Ori(7, Hook!BAT4U)
        BY <1>1, <3>2, StubCode
      <4>2. hReg[7] = Hook!Upper(Hook!BAT4U)
        BY <3>2 DEF HookInv, StubRuns
      <4> QED
        BY <1>1, <3>2, <4>1, <4>2, DoesOri
    <3> QED
      BY <1>5, <3>1, <3>2
  <2> QED
    BY <1>1, <1>2, <1>3, <1>5, <2>1
       DEF HookInv, Hook!TypeOK, KernelInv, StubRuns, FunctionInv, BackInv, Reloaded,
           Hook!RegistersRestored, Hook!ComesBack, Hook!DataFollowsCode
<1>6. CASE hI \in {3, 6}
  <2>1. /\ hI' = hI + 1 /\ UNCHANGED <<hCode, hPatched, hReg, hLr, hCtr, hSr7>>
        /\ hSpr' = [hSpr EXCEPT ![IF hI = 3 THEN 561 ELSE 560] = hReg[7]]
    <3>1. CASE hI = 3
      <4>1. Hook!Fetched = Hook!Mtspr(561, 7)
        BY <1>1, <3>1, StubCode
      <4>2. hSpr' = [hSpr EXCEPT ![561] = hReg[7]] /\ hI' = hI + 1
            /\ UNCHANGED <<hCode, hPatched, hReg, hLr, hCtr, hSr7>>
        BY <1>1, <4>1, DoesMtspr
      <4> QED
        BY <3>1, <4>2
    <3>2. CASE hI = 6
      <4>1. Hook!Fetched = Hook!Mtspr(560, 7)
        BY <1>1, <3>2, StubCode
      <4>2. hSpr' = [hSpr EXCEPT ![560] = hReg[7]] /\ hI' = hI + 1
            /\ UNCHANGED <<hCode, hPatched, hReg, hLr, hCtr, hSr7>>
        BY <1>1, <4>1, DoesMtspr
      <4> QED
        BY <3>2, <4>2
    <3> QED
      BY <1>6, <3>1, <3>2
  <2> QED
    BY <1>1, <1>2, <1>3, <1>6, <2>1
       DEF HookInv, Hook!TypeOK, KernelInv, StubRuns, FunctionInv, BackInv, Reloaded,
           Hook!RegistersRestored, Hook!ComesBack, Hook!DataFollowsCode
<1>7. CASE hI \in {7, 8}
  <2>1. hI' = hI + 1 /\ UNCHANGED <<hCode, hPatched, hReg, hLr, hCtr, hSpr, hSr7>>
    BY <1>1, <1>7, StubCode, Does DEF Hook!Plain
  <2> QED
    BY <1>1, <1>2, <1>3, <1>7, <2>1
       DEF HookInv, Hook!TypeOK, KernelInv, StubRuns, FunctionInv, BackInv, Reloaded,
           Hook!RegistersRestored, Hook!ComesBack, Hook!DataFollowsCode
<1>8. CASE hI = 9
  <2>1. /\ hI' = hI + 1 /\ UNCHANGED <<hCode, hPatched, hLr, hCtr, hSpr, hSr7>>
        /\ hReg' = [hReg EXCEPT ![7] = hLr]
    BY <1>1, <1>8, StubCode, Does DEF Hook!Plain
  <2> QED
    BY <1>1, <1>2, <1>3, <1>8, <2>1
       DEF HookInv, Hook!TypeOK, KernelInv, StubRuns, FunctionInv, BackInv, Reloaded,
           Hook!RegistersRestored, Hook!ComesBack, Hook!DataFollowsCode
<1>9. CASE hI = 10
  <2>1. Hook!ExecBla
    <3>1. \A o : Hook!Executing(o) => o = "bla"
      BY <1>1, <1>9, StubCode DEF Hook!Executing, Hook!Plain, Hook!Ins
    <3> QED
      BY <3>1 DEF Hook!Execute, Hook!ExecLwz, Hook!ExecLis, Hook!ExecOri, Hook!ExecMtspr,
                  Hook!ExecMfspr, Hook!ExecMove, Hook!ExecBctr, Hook!EndOfReload
  <2>2. Hook!Mapped
    BY <1>9 DEF HookInv, StubRuns, Hook!Mapped
  <2>3. /\ hCode' = "hook" /\ hI' = 1 /\ hLr' = Hook!Behind
        /\ UNCHANGED <<hReg, hCtr, hSpr, hSr7, hPatched>>
    BY <2>1, <2>2 DEF Hook!ExecBla, Hook!Calls
  <2>4. 1 \in 1 .. Len(Hook!HookCode) + 1
    BY <1>1
  <2> QED
    BY <1>1, <1>2, <1>3, <1>9, <2>2, <2>3, <2>4
       DEF HookInv, Hook!TypeOK, KernelInv, StubRuns, FunctionInv, BackInv, Reloaded, Hook!Mapped,
           Hook!RegistersRestored, Hook!ComesBack, Hook!DataFollowsCode
<1> QED
  BY <1>1, <1>4, <1>5, <1>6, <1>7, <1>8, <1>9

\* The hook's, the last of which goes back.
LEMMA FunctionGoesOn ==
    ASSUME HookInv, Hook!Execute, hCode = "hook"
    PROVE  HookInv'
<1>1. Hook!Fetched = Hook!HookCode[hI] /\ hI \in 1 .. 18 /\ hI \in Nat
      /\ hI <= Len(Hook!CodeOf(hCode)) /\ hI + 1 \in 1 .. Len(Hook!HookCode) + 1
  <2>1. Hook!CodeOf(hCode) = Hook!HookCode /\ hI \in 1 .. 18
    BY DEF Hook!CodeOf, HookInv, FunctionInv
  <2>2. Len(Hook!CodeOf(hCode)) = 18
    BY <2>1, HookCodes, Zenon
  <2>3. hI + 1 \in 1 .. Len(Hook!HookCode) + 1
    BY <2>1, HookCodes
  <2>4. hI <= Len(Hook!CodeOf(hCode))
    <3>1. PICK m : m = Len(Hook!CodeOf(hCode))
      OBVIOUS
    <3>2. m = 18
      BY <2>2, <3>1, Zenon
    <3>3. hI <= m
      BY <2>1, <3>2
    <3> QED
      BY <3>1, <3>3, Zenon
  <2>5. Hook!Fetched = Hook!HookCode[hI]
    BY <2>1, Zenon DEF Hook!Fetched
  <2>6. hI \in Nat
    BY <2>1
  <2> QED
    BY <2>1, <2>3, <2>4, <2>5, <2>6, Zenon
<1>2. /\ hReg \in [Hook!Registers -> Hook!Values]
      /\ hSpr \in [Hook!Bats -> Hook!Values]
      /\ {hLr, hCtr, hSr7} \subseteq Hook!Values
      /\ {5, 7} \subseteq Hook!Registers /\ {560, 561, 570, 571} \subseteq Hook!Bats
  BY DEF HookInv, Hook!TypeOK, Hook!Registers, Hook!Bats
<1>3. Hook!Mapped /\ hPatched /\ Reloaded(IF hI <= 8 THEN 0 ELSE hI - 8) /\ Hook!TypeOK
  BY DEF HookInv, FunctionInv
<1>4. CASE hI \in {1, 4, 6}
  <2>1. /\ hI' = hI + 1 /\ UNCHANGED <<hCode, hPatched, hLr, hCtr, hSpr, hSr7>>
        /\ hReg' = [hReg EXCEPT ![5] = IF hI = 1 THEN hLr ELSE IF hI = 4 THEN hSpr[560]
                                       ELSE hSpr[561]]
    <3>1. CASE hI = 1
      BY <1>1, <3>1, HookCodes, Does DEF Hook!Plain
    <3>2. CASE hI = 4
      <4>1. Hook!Fetched = Hook!Mfspr(5, 560)
        BY <1>1, <3>2, HookCodes
      <4> QED
        BY <1>1, <3>2, <4>1, DoesMfspr
    <3>3. CASE hI = 6
      <4>1. Hook!Fetched = Hook!Mfspr(5, 561)
        BY <1>1, <3>3, HookCodes
      <4> QED
        BY <1>1, <3>3, <4>1, DoesMfspr
    <3> QED
      BY <1>4, <3>1, <3>2, <3>3
  <2> QED
    BY <1>1, <1>2, <1>3, <1>4, <2>1
       DEF HookInv, Hook!TypeOK, KernelInv, StubRuns, FunctionInv, BackInv, Reloaded, Hook!Mapped,
           Hook!RegistersRestored, Hook!ComesBack, Hook!DataFollowsCode
<1>5. CASE hI = 2
  <2>1. /\ hI' = hI + 1 /\ UNCHANGED <<hCode, hPatched, hReg, hLr, hSpr, hSr7>>
        /\ hCtr' = hReg[5]
    BY <1>1, <1>5, HookCodes, Does DEF Hook!Plain
  <2> QED
    BY <1>1, <1>2, <1>3, <1>5, <2>1
       DEF HookInv, Hook!TypeOK, KernelInv, StubRuns, FunctionInv, BackInv, Reloaded, Hook!Mapped,
           Hook!RegistersRestored, Hook!ComesBack, Hook!DataFollowsCode
<1>6. CASE hI = 3
  <2>1. /\ hI' = hI + 1 /\ UNCHANGED <<hCode, hPatched, hReg, hCtr, hSpr, hSr7>>
        /\ hLr' = hReg[7]
    BY <1>1, <1>6, HookCodes, Does DEF Hook!Plain
  <2> QED
    BY <1>1, <1>2, <1>3, <1>6, <2>1
       DEF HookInv, Hook!TypeOK, KernelInv, StubRuns, FunctionInv, BackInv, Reloaded, Hook!Mapped,
           Hook!RegistersRestored, Hook!ComesBack, Hook!DataFollowsCode
<1>7. CASE hI = 5
  <2>1. /\ hI' = hI + 1 /\ UNCHANGED <<hCode, hPatched, hReg, hLr, hCtr, hSr7>>
        /\ hSpr' = [hSpr EXCEPT ![570] = hReg[5]]
    <3>1. Hook!Fetched = Hook!Mtspr(570, 5)
      BY <1>1, <1>7, HookCodes
    <3> QED
      BY <1>1, <3>1, DoesMtspr
  <2> QED
    BY <1>1, <1>2, <1>3, <1>7, <2>1
       DEF HookInv, Hook!TypeOK, KernelInv, StubRuns, FunctionInv, BackInv, Reloaded, Hook!Mapped,
           Hook!RegistersRestored, Hook!ComesBack, Hook!DataFollowsCode
<1>8. CASE hI = 7
  <2>1. /\ hI' = hI + 1 /\ UNCHANGED <<hCode, hPatched, hReg, hLr, hCtr, hSr7>>
        /\ hSpr' = [hSpr EXCEPT ![571] = hReg[5]]
    <3>1. Hook!Fetched = Hook!Mtspr(571, 5)
      BY <1>1, <1>8, HookCodes
    <3> QED
      BY <1>1, <3>1, DoesMtspr
  <2> QED
    BY <1>1, <1>2, <1>3, <1>8, <2>1
       DEF HookInv, Hook!TypeOK, KernelInv, StubRuns, FunctionInv, BackInv, Reloaded, Hook!Mapped,
           Hook!RegistersRestored, Hook!ComesBack, Hook!DataFollowsCode
<1>9. CASE hI \in 8 .. 17
  <2>1. PICK n : n = hI - 7
    OBVIOUS
  <2>2. /\ n \in 1 .. 10 /\ Hook!Fetched = Hook!Reload[n] /\ Reloaded(n - 1)
    <3>1. n \in 1 .. 10 /\ n + 7 = hI
      BY <1>9, <2>1
    <3>2. Hook!Fetched = Hook!Reload[n]
      BY <1>1, <3>1, HookCodes
    <3>3. n - 1 = IF hI <= 8 THEN 0 ELSE hI - 8
      BY <1>9, <2>1
    <3> QED
      BY <1>3, <3>1, <3>2, <3>3
  <2>3. /\ Reloaded(n)' /\ Hook!TypeOK'
        /\ hI' = hI + 1 /\ UNCHANGED <<hCode, hPatched, hLr, hCtr, hSpr>>
    BY <1>1, <1>3, <2>2, ReloadsOn
  <2>4. hI' \in 9 .. 18 /\ hI' - 8 = n
    BY <1>9, <2>1, <2>3
  <2>5. FunctionInv'
    BY <1>3, <1>9, <2>3, <2>4 DEF HookInv, FunctionInv, Reloaded, Hook!Mapped
  <2> QED
    BY <2>3, <2>5 DEF HookInv, KernelInv, StubRuns, BackInv, Hook!RegistersRestored,
                      Hook!ComesBack, Hook!DataFollowsCode
<1>10. CASE hI = 18
  <2>1. Hook!ExecBctr
    <3>1. \A o : Hook!Executing(o) => o = "bctr"
      BY <1>1, <1>10, HookCodes DEF Hook!Executing, Hook!Plain, Hook!Ins
    <3> QED
      BY <3>1 DEF Hook!Execute, Hook!ExecLwz, Hook!ExecLis, Hook!ExecOri, Hook!ExecMtspr,
                  Hook!ExecMfspr, Hook!ExecMove, Hook!ExecBla, Hook!EndOfReload
  <2>2. hCtr = Hook!Behind /\ hLr = Hook!Caller
    BY <1>10 DEF HookInv, FunctionInv
  <2>3. hCode' = "back" /\ UNCHANGED <<hI, hReg, hLr, hCtr, hSpr, hSr7, hPatched>>
    BY <2>1, <2>2 DEF Hook!ExecBctr
  <2>4. Reloaded(10)
    BY <1>3, <1>10
  <2>5. Hook!RegistersRestored'
    BY <2>2, <2>3, <2>4, RestoresAll
  <2>6. Hook!DataFollowsCode'
    <3>1. hSpr[570] = hSpr[560] /\ hSpr[571] = hSpr[561]
      BY <1>10 DEF HookInv, FunctionInv
    <3>2. \A k \in 1 .. 2 : hSpr[Hook!DBAT5[k]] = hSpr[Hook!IBAT4[k]]
      BY <3>1 DEF Hook!DBAT5, Hook!IBAT4
    <3> QED
      BY <1>3, <2>3, <3>2 DEF Hook!DataFollowsCode, Hook!Mapped
  <2>7. Hook!TypeOK'
    BY <1>3, <2>3 DEF Hook!TypeOK
  <2> QED
    BY <2>3, <2>5, <2>6, <2>7 DEF HookInv, KernelInv, StubRuns, FunctionInv, BackInv,
                                  Hook!ComesBack
<1> QED
  BY <1>1, <1>4, <1>5, <1>6, <1>7, <1>8, <1>9, <1>10

\* The kernel's function begins, the first time and any other.
Begun ==
    /\ hCode \in {"kernel", "stub"} /\ hI = 1 /\ hPatched = (hCode = "stub")
    /\ hReg = Hook!Called /\ hLr = Hook!Caller /\ hCtr = Hook!Unknown
    /\ hSr7 \in Hook!Values /\ hSpr \in [Hook!Bats -> Hook!Values]

\* The invariant holds there.
LEMMA Begins == Begun => HookInv
<1> SUFFICES ASSUME Begun PROVE HookInv
  OBVIOUS
<1> USE DEF Begun
<1>1. Hook!TypeOK
  <2>1. hI \in 1 .. Len(Hook!HookCode) + 1
    BY HookCodes
  <2>2. hReg \in [Hook!Registers -> Hook!Values]
    BY DEF Hook!Called, Hook!Values
  <2>3. {hLr, hCtr, hSr7} \subseteq Hook!Values /\ hPatched \in BOOLEAN
    BY DEF Hook!Values
  <2> QED
    BY <2>1, <2>2, <2>3 DEF Hook!TypeOK
<1>2. Reloaded(0)
  <2>1. 3 \in Hook!Registers
    BY DEF Hook!Registers
  <2> QED
    BY <2>1 DEF Reloaded, Hook!Called
<1>3. hI - 1 = 0 /\ hI \in 1 .. 11 /\ hI \in 1 .. 10
  OBVIOUS
<1>4. KernelInv
  BY <1>2, <1>3 DEF KernelInv
<1>5. StubRuns
  <2>1. hCode = "stub" => hPatched
    BY Zenon
  <2> QED
    BY <1>2, <1>3, <2>1 DEF StubRuns
<1> QED
  BY <1>1, <1>4, <1>5 DEF HookInv, FunctionInv, BackInv, Hook!RegistersRestored,
                          Hook!ComesBack, Hook!DataFollowsCode

\* A core that runs into the stub.
LEMMA HookInvHolds == AnySpec => []HookInv
<1>1. AnyInit => HookInv
  <2> SUFFICES ASSUME Hook!Init PROVE HookInv
    BY DEF AnyInit
  <2>1. hSpr \in [Hook!Bats -> Hook!Values] /\ hSr7 \in Hook!Values
    BY DEF Hook!Init, Hook!Values
  <2> QED
    BY <2>1, Begins DEF Hook!Init, Begun
<1>2. HookInv /\ [AnyNext]_all => HookInv' \/ Begun'
  <2> SUFFICES ASSUME HookInv, [AnyNext]_all PROVE HookInv' \/ Begun'
    OBVIOUS
  <2>1. CASE Hook!Execute
    <3>1. hCode \in {"kernel", "stub", "hook"}
      BY <2>1 DEF Hook!Execute, Hook!ExecLwz, Hook!ExecLis, Hook!ExecOri, Hook!ExecMtspr,
                  Hook!ExecMfspr, Hook!ExecMove, Hook!ExecBla, Hook!ExecBctr,
                  Hook!EndOfReload, Hook!Executing
    <3> QED
      BY <2>1, <3>1, KernelGoesOn, StubGoesOn, FunctionGoesOn
  <2>2. CASE Hook!Again
    <3>1. /\ hCode' \in {"kernel", "stub"} /\ hPatched' = (hCode' = "stub")
          /\ hI' = 1 /\ hReg' = Hook!Called /\ hLr' = Hook!Caller /\ hCtr' = Hook!Unknown
          /\ hSpr' = hSpr /\ hSr7' = hSr7
      BY <2>2 DEF Hook!Again
    <3>2. hSpr \in [Hook!Bats -> Hook!Values] /\ hSr7 \in Hook!Values
      BY DEF HookInv, Hook!TypeOK
    <3> QED
      BY <3>1, <3>2 DEF Begun
  <2>3. CASE UNCHANGED hook
    BY <2>3 DEF hook, HookInv, KernelInv, StubRuns, FunctionInv, BackInv, Reloaded, Hook!TypeOK,
                Hook!RegistersRestored, Hook!ComesBack, Hook!DataFollowsCode, Hook!Mapped
  <2> QED
    BY <2>1, <2>2, <2>3 DEF AnyNext, SetupStep, PatchesStep, HookStep, all
<1> QED
  BY <1>1, <1>2, Begins, PTL DEF AnySpec

(***************************************************************************)
(* A core that runs into the stub gets behind it with r3, r5 .. r11, the   *)
(* segment register and the return address as the kernel's own ten         *)
(* instructions would have left them (CTR is overwritten): whatever words  *)
(* the context has, whatever its BATs were, and however often it comes     *)
(* back.                                                                   *)
(***************************************************************************)
THEOREM HookIsTransparent == AnySpec => []HookTransparent
<1>1. HookInv => HookTransparent
  BY DEF HookInv, BackInv, HookTransparent
<1> QED
  BY <1>1, HookInvHolds, PTL
-----------------------------------------------------------------------------
\* One piece of code after another.
Follows(c, s, u) ==
    /\ Len(c) = Len(s) + Len(u)
    /\ \A k \in 1 .. Len(s) : c[k] = s[k]
    /\ \A k \in 1 .. Len(u) : c[Len(s) + k] = u[k]

\* That is what putting two together means.
LEMMA Joined ==
    ASSUME NEW S, NEW s, NEW u, s \in Seq(S), u \in Seq(S)
    PROVE  s \o u \in Seq(S) /\ Follows(s \o u, s, u)
  BY ConcatProperties DEF Follows

\* What the two functions are made of.
Instructions ==
    [op : {"stw", "dcbf", "icbi", "mtdbat", "mfdbat", "restore"}, a : Int,
     w : {"", "nop", "stub", "final"}]

\* Everything they contain is an instruction.
LEMMA AreInstructions ==
    /\ \A a \in Nat : /\ Patches!Stw(a, "nop") \in Instructions
                      /\ Patches!Stw(a, "stub") \in Instructions
                      /\ Patches!Stw(a, "final") \in Instructions
                      /\ Patches!Dcbf(a) \in Instructions /\ Patches!Icbi(a) \in Instructions
                      /\ Patches!SetDbat0(a) \in Instructions
    /\ Patches!Store \in Instructions /\ Patches!Restore \in Instructions
  BY DEF Patches!Stw, Patches!Dcbf, Patches!Icbi, Patches!SetDbat0, Patches!Store,
         Patches!Restore, Patches!Ins, Instructions

\* Setting nops is a store, a flush and an invalidation for each address.
LEMMA NopsCode ==
    ASSUME NEW addrs \in Seq(Nat)
    PROVE  /\ Patches!SetNops(addrs) \in Seq(Instructions)
           /\ Len(Patches!SetNops(addrs)) = 3 * Len(addrs)
           /\ \A k \in 1 .. 3 * Len(addrs) : \E n \in 1 .. Len(addrs) :
                 /\ addrs[n] \in Nat
                 /\ \/ k = 3 * n - 2 /\ Patches!SetNops(addrs)[k] = Patches!Stw(addrs[n], "nop")
                    \/ k = 3 * n - 1 /\ Patches!SetNops(addrs)[k] = Patches!Dcbf(addrs[n])
                    \/ k = 3 * n /\ Patches!SetNops(addrs)[k] = Patches!Icbi(addrs[n])
<1> DEFINE L == Len(addrs)
           N == Patches!SetNops(addrs)
<1>1. N = [k \in 1 .. 3 * L |->
              Patches!SET_R4_TO_ADDR(addrs[(k + 2) \div 3])[((k + 2) % 3) + 1]]
  BY DEF Patches!SetNops
<1>2. L \in Nat
  OBVIOUS
<1>3. ASSUME NEW k \in 1 .. 3 * L
      PROVE  \E n \in 1 .. L :
                 /\ addrs[n] \in Nat
                 /\ \/ k = 3 * n - 2 /\ N[k] = Patches!Stw(addrs[n], "nop")
                    \/ k = 3 * n - 1 /\ N[k] = Patches!Dcbf(addrs[n])
                    \/ k = 3 * n /\ N[k] = Patches!Icbi(addrs[n])
  <2>1. PICK n, r : n = (k + 2) \div 3 /\ r = ((k + 2) % 3) + 1
    OBVIOUS
  <2>2. n \in 1 .. L /\ r \in 1 .. 3 /\ k = 3 * n + r - 3
    BY <1>2, <2>1
  <2>3. N[k] = Patches!SET_R4_TO_ADDR(addrs[n])[r]
    BY <1>1, <2>1
  <2>4. addrs[n] \in Nat
    BY <2>2
  <2> HIDE DEF N, L
  <2>5. CASE r = 1
    <3>1. k = 3 * n - 2
      BY <2>2, <2>5
    <3> QED
      BY <2>2, <2>3, <2>4, <2>5, <3>1 DEF Patches!SET_R4_TO_ADDR
  <2>6. CASE r = 2
    <3>1. k = 3 * n - 1
      BY <2>2, <2>6
    <3> QED
      BY <2>2, <2>3, <2>4, <2>6, <3>1 DEF Patches!SET_R4_TO_ADDR
  <2>7. CASE r = 3
    <3>1. k = 3 * n
      BY <2>2, <2>7
    <3> QED
      BY <2>2, <2>3, <2>4, <2>7, <3>1 DEF Patches!SET_R4_TO_ADDR
  <2> QED
    BY <2>2, <2>5, <2>6, <2>7
<1>4. \A k \in 1 .. 3 * L : N[k] \in Instructions
  BY <1>3, AreInstructions
<1>5. 3 * L \in Nat
  BY <1>2
<1> HIDE DEF L, Instructions
<1>6. N \in Seq(Instructions) /\ Len(N) = 3 * L
  <2>1. N = [k \in 1 .. 3 * L |-> N[k]]
    BY <1>1
  <2> HIDE DEF N
  <2>2. [k \in 1 .. 3 * L |-> N[k]] \in Seq(Instructions)
    BY <1>4, <1>5
  <2>3. Len([k \in 1 .. 3 * L |-> N[k]]) = 3 * L
    BY <1>5
  <2> QED
    BY <2>1, <2>2, <2>3
<1> QED
  BY <1>3, <1>6 DEF L

\* The stub is ten stores,
LEMMA StubStores ==
    ASSUME HookAddr \in Nat
    PROVE  /\ Patches!WriteStub \in Seq(Instructions) /\ Len(Patches!WriteStub) = 10
           /\ \A k \in 1 .. 10 :
                 Patches!WriteStub[k] = Patches!Stw(HookAddr + 4 * (k - 1), "stub")
<1>1. /\ Patches!WriteStub = [k \in 1 .. 10 |-> Patches!Stw(Patches!StubWords[k], "stub")]
      /\ \A k \in 1 .. 10 : Patches!StubWords[k] = HookAddr + 4 * (k - 1)
  BY DEF Patches!WriteStub, Patches!StubWords
<1>2. \A k \in 1 .. 10 : HookAddr + 4 * (k - 1) \in Nat
  OBVIOUS
<1>3. \A k \in 1 .. 10 : Patches!Stw(Patches!StubWords[k], "stub") \in Instructions
  BY <1>1, <1>2, AreInstructions
<1> HIDE DEF Instructions
<1>4. [k \in 1 .. 10 |-> Patches!Stw(Patches!StubWords[k], "stub")] \in Seq(Instructions)
  BY <1>3
<1>5. Len([k \in 1 .. 10 |-> Patches!Stw(Patches!StubWords[k], "stub")]) = 10
  OBVIOUS
<1> QED
  BY <1>1, <1>4, <1>5

\* and what follows them are two flushes and the nops with a move of the window between.
Laid(C, L, M) ==
    /\ DOMAIN C = 1 .. Len(C) /\ Len(C) = 18 + L + M
    /\ C[1] = Patches!Store /\ C[2] = Patches!SetDbat0(Window)
    /\ \A k \in 1 .. 10 : C[k + 2] = Patches!Stw(HookAddr + 4 * (k - 1), "stub")
    /\ C[13] = Patches!Dcbf(Patches!LineOf(HookAddr))
    /\ C[14] = Patches!Icbi(Patches!LineOf(HookAddr))
    /\ C[15] = Patches!Dcbf(Patches!LineOf(HookAddr + 32))
    /\ C[16] = Patches!Icbi(Patches!LineOf(HookAddr + 32))
    /\ \A k \in 1 .. L : C[k + 16] = Patches!SetNops(Nops)[k]
    /\ C[17 + L] = Patches!SetDbat0(FarWindow)
    /\ \A k \in 1 .. M : C[k + 17 + L] = Patches!SetNops(FarNops)[k]
    /\ C[18 + L + M] = Patches!Restore

\* KernelPatches is put together like that.
LEMMA PatchesCode ==
    ASSUME HookAddr \in Nat, FarWindow \in Nat, Window \in Nat, Nops \in Seq(Nat),
           FarNops \in Seq(Nat),
           NEW L, L = 3 * Len(Nops), NEW M, M = 3 * Len(FarNops), NEW C, C = Patches!KernelPatches
    PROVE  Laid(C, L, M)
<1> DEFINE W == Patches!WriteStub
           F(a) == Patches!Flush(a)
           N == Patches!SetNops(Nops)
           X == <<Patches!SetDbat0(FarWindow)>>
           O == Patches!SetNops(FarNops)
           B == <<Patches!Store, Patches!SetDbat0(Window)>>
           E == <<Patches!Restore>>
<1>1. C = (B \o (((W \o F(HookAddr)) \o F(HookAddr + 32)) \o ((N \o X) \o O))) \o E
  BY DEF Patches!KernelPatches, Patches!Body, Patches!NopsOfFirmware
<1>2. /\ W \in Seq(Instructions) /\ Len(W) = 10
      /\ \A k \in 1 .. 10 : W[k] = Patches!Stw(HookAddr + 4 * (k - 1), "stub")
  BY StubStores
<1>3. \A a \in Nat : /\ F(a) \in Seq(Instructions) /\ Len(F(a)) = 2
                     /\ F(a)[1] = Patches!Dcbf(Patches!LineOf(a))
                     /\ F(a)[2] = Patches!Icbi(Patches!LineOf(a))
  <2> SUFFICES ASSUME NEW a \in Nat
               PROVE  /\ F(a) \in Seq(Instructions) /\ Len(F(a)) = 2
                      /\ F(a)[1] = Patches!Dcbf(Patches!LineOf(a))
                      /\ F(a)[2] = Patches!Icbi(Patches!LineOf(a))
    OBVIOUS
  <2>1. Patches!LineOf(a) \in Nat
    BY DEF Patches!LineOf
  <2>2. /\ Patches!Dcbf(Patches!LineOf(a)) \in Instructions
        /\ Patches!Icbi(Patches!LineOf(a)) \in Instructions
    BY <2>1, AreInstructions
  <2> HIDE DEF Instructions
  <2> QED
    BY <2>2 DEF Patches!Flush
<1>4. /\ N \in Seq(Instructions) /\ Len(N) = L /\ O \in Seq(Instructions) /\ Len(O) = M
      /\ L \in Nat /\ M \in Nat
  BY NopsCode
<1>5. /\ X \in Seq(Instructions) /\ Len(X) = 1 /\ X[1] = Patches!SetDbat0(FarWindow)
      /\ B \in Seq(Instructions) /\ Len(B) = 2
      /\ B[1] = Patches!Store /\ B[2] = Patches!SetDbat0(Window)
      /\ E \in Seq(Instructions) /\ Len(E) = 1 /\ E[1] = Patches!Restore
  <2>1. /\ Patches!Store \in Instructions /\ Patches!Restore \in Instructions
        /\ Patches!SetDbat0(FarWindow) \in Instructions /\ Patches!SetDbat0(Window) \in Instructions
    BY AreInstructions
  <2> HIDE DEF Instructions
  <2> QED
    BY <2>1
<1> HIDE DEF W, F, N, X, O, B, E
<1>6. PICK f, g : f = F(HookAddr) /\ g = F(HookAddr + 32)
  OBVIOUS
<1>7. /\ f \in Seq(Instructions) /\ Len(f) = 2
      /\ f[1] = Patches!Dcbf(Patches!LineOf(HookAddr))
      /\ f[2] = Patches!Icbi(Patches!LineOf(HookAddr))
      /\ g \in Seq(Instructions) /\ Len(g) = 2
      /\ g[1] = Patches!Dcbf(Patches!LineOf(HookAddr + 32))
      /\ g[2] = Patches!Icbi(Patches!LineOf(HookAddr + 32))
  BY <1>3, <1>6
<1>8. PICK c1 : c1 = W \o f
  OBVIOUS
<1>9. c1 \in Seq(Instructions) /\ Follows(c1, W, f)
  BY <1>2, <1>7, <1>8, Joined, Zenon
<1>10. PICK c2 : c2 = c1 \o g
  OBVIOUS
<1>11. c2 \in Seq(Instructions) /\ Follows(c2, c1, g)
  BY <1>7, <1>9, <1>10, Joined, Zenon
<1>12. PICK n1 : n1 = N \o X
  OBVIOUS
<1>13. n1 \in Seq(Instructions) /\ Follows(n1, N, X)
  BY <1>4, <1>5, <1>12, Joined, Zenon
<1>14. PICK n2 : n2 = n1 \o O
  OBVIOUS
<1>15. n2 \in Seq(Instructions) /\ Follows(n2, n1, O)
  BY <1>4, <1>13, <1>14, Joined, Zenon
<1>16. PICK c3 : c3 = c2 \o n2
  OBVIOUS
<1>17. c3 \in Seq(Instructions) /\ Follows(c3, c2, n2)
  BY <1>11, <1>15, <1>16, Joined, Zenon
<1>18. PICK c4 : c4 = B \o c3
  OBVIOUS
<1>19. c4 \in Seq(Instructions) /\ Follows(c4, B, c3)
  BY <1>5, <1>17, <1>18, Joined, Zenon
<1>20. Follows(C, c4, E)
  <2>1. C = c4 \o E
    BY <1>1, <1>6, <1>8, <1>10, <1>12, <1>14, <1>16, <1>18, Zenon
  <2> QED
    BY <1>5, <1>19, <2>1, Joined, Zenon
\* Where each piece is in what has been put together.
<1>21. /\ Len(c1) = 12 /\ \A k \in 1 .. 10 : c1[k] = W[k]
       /\ c1[11] = f[1] /\ c1[12] = f[2]
  BY <1>2, <1>7, <1>9 DEF Follows
<1>22. /\ Len(c2) = 14 /\ \A k \in 1 .. 12 : c2[k] = c1[k]
       /\ c2[13] = g[1] /\ c2[14] = g[2]
  BY <1>7, <1>11, <1>21 DEF Follows
<1>23. /\ Len(n1) = L + 1 /\ \A k \in 1 .. L : n1[k] = N[k]
       /\ n1[L + 1] = X[1]
  BY <1>4, <1>5, <1>13 DEF Follows
<1>24. /\ Len(n2) = L + 1 + M /\ \A k \in 1 .. L + 1 : n2[k] = n1[k]
       /\ \A k \in 1 .. M : n2[L + 1 + k] = O[k]
  BY <1>4, <1>15, <1>23 DEF Follows
<1>25. /\ Len(c3) = 15 + L + M /\ \A k \in 1 .. 14 : c3[k] = c2[k]
       /\ \A k \in 1 .. L + 1 + M : c3[14 + k] = n2[k]
  BY <1>4, <1>17, <1>22, <1>24 DEF Follows
<1>26. /\ Len(c4) = 17 + L + M /\ c4[1] = B[1] /\ c4[2] = B[2]
       /\ \A k \in 1 .. 15 + L + M : c4[2 + k] = c3[k]
  BY <1>4, <1>5, <1>19, <1>25 DEF Follows
<1>27. /\ Len(C) = 18 + L + M
       /\ \A k \in 1 .. 17 + L + M : C[k] = c4[k]
       /\ C[18 + L + M] = E[1]
  BY <1>4, <1>5, <1>20, <1>26 DEF Follows
<1>28. C[1] = B[1] /\ C[2] = B[2] /\ \A k \in 1 .. 15 + L + M : C[2 + k] = c3[k]
  <2>1. 1 \in 1 .. 17 + L + M /\ 2 \in 1 .. 17 + L + M
    BY <1>4
  <2>2. ASSUME NEW k \in 1 .. 15 + L + M PROVE C[2 + k] = c3[k]
    <3>1. 2 + k \in 1 .. 17 + L + M
      BY <1>4
    <3> QED
      BY <1>26, <1>27, <3>1
  <2> QED
    BY <1>26, <1>27, <2>1, <2>2
<1>29. \A k \in 1 .. 14 : C[2 + k] = c2[k]
  <2> SUFFICES ASSUME NEW k \in 1 .. 14 PROVE C[2 + k] = c2[k]
    OBVIOUS
  <2>1. k \in 1 .. 15 + L + M
    BY <1>4
  <2> QED
    BY <1>25, <1>28, <2>1
<1>30. \A k \in 1 .. L + 1 + M : C[16 + k] = n2[k]
  <2> SUFFICES ASSUME NEW k \in 1 .. L + 1 + M PROVE C[16 + k] = n2[k]
    OBVIOUS
  <2>1. 14 + k \in 1 .. 15 + L + M /\ 2 + (14 + k) = 16 + k
    BY <1>4
  <2> QED
    BY <1>25, <1>28, <2>1
<1>31. /\ \A k \in 1 .. 10 : C[k + 2] = W[k]
       /\ C[13] = f[1] /\ C[14] = f[2] /\ C[15] = g[1] /\ C[16] = g[2]
  <2>1. /\ \A k \in 1 .. 12 : C[2 + k] = c1[k]
        /\ C[15] = g[1] /\ C[16] = g[2]
    <3>1. \A k \in 1 .. 12 : k \in 1 .. 14
      OBVIOUS
    <3>2. 13 \in 1 .. 14 /\ 14 \in 1 .. 14 /\ 2 + 13 = 15 /\ 2 + 14 = 16
      OBVIOUS
    <3>3. \A k \in 1 .. 12 : C[2 + k] = c1[k]
      BY <1>22, <1>29, <3>1
    <3>4. C[2 + 13] = g[1] /\ C[2 + 14] = g[2]
      BY <1>22, <1>29, <3>2
    <3> QED
      BY <3>2, <3>3, <3>4
  <2>2. 11 \in 1 .. 12 /\ 12 \in 1 .. 12 /\ 2 + 11 = 13 /\ 2 + 12 = 14
    OBVIOUS
  <2>3. C[2 + 11] = f[1] /\ C[2 + 12] = f[2]
    BY <1>21, <2>1, <2>2
  <2>4. ASSUME NEW k \in 1 .. 10 PROVE C[k + 2] = W[k]
    <3>1. k \in 1 .. 12 /\ 2 + k = k + 2
      OBVIOUS
    <3> QED
      BY <1>21, <2>1, <3>1
  <2> QED
    BY <2>1, <2>2, <2>3, <2>4
<1>32. \A k \in 1 .. L : C[k + 16] = N[k]
  BY <1>4, <1>23, <1>24, <1>30
<1>33. C[17 + L] = X[1]
  <2>1. L + 1 \in 1 .. L + 1 + M /\ 16 + (L + 1) = 17 + L /\ L + 1 \in 1 .. L + 1
    BY <1>4
  <2> QED
    BY <1>23, <1>24, <1>30, <2>1
<1>34. \A k \in 1 .. M : C[k + 17 + L] = O[k]
  <2> SUFFICES ASSUME NEW k \in 1 .. M PROVE C[k + 17 + L] = O[k]
    OBVIOUS
  <2>1. L + 1 + k \in 1 .. L + 1 + M /\ 16 + (L + 1 + k) = k + 17 + L
    BY <1>4
  <2> QED
    BY <1>24, <1>30, <2>1
<1>35. \A k \in 1 .. 10 : C[k + 2] = Patches!Stw(HookAddr + 4 * (k - 1), "stub")
  BY <1>2, <1>31
<1>36. DOMAIN C = 1 .. Len(C)
  <2>1. C = c4 \o E
    BY <1>1, <1>6, <1>8, <1>10, <1>12, <1>14, <1>16, <1>18, Zenon
  <2>2. C \in Seq(Instructions)
    BY <1>5, <1>19, <2>1, Joined, Zenon
  <2> QED
    BY <2>2
<1> QED
  BY <1>5, <1>7, <1>27, <1>28, <1>31, <1>32, <1>33, <1>34, <1>35, <1>36, Zenon
  DEF N, O, Laid

\* The three instructions for each address.
LEMMA NopsAt ==
    ASSUME NEW addrs \in Seq(Nat), NEW n \in 1 .. Len(addrs)
    PROVE  /\ Patches!SetNops(addrs)[3 * n - 1] = Patches!Dcbf(addrs[n])
           /\ Patches!SetNops(addrs)[3 * n] = Patches!Icbi(addrs[n])
<1> DEFINE N == Patches!SetNops(addrs)
<1>1. /\ 3 * n - 1 \in 1 .. 3 * Len(addrs) /\ 3 * n \in 1 .. 3 * Len(addrs)
  OBVIOUS
<1>2. N[3 * n - 1] = Patches!Dcbf(addrs[n])
  <2>1. PICK m \in 1 .. Len(addrs) :
           \/ 3 * n - 1 = 3 * m - 2 /\ N[3 * n - 1] = Patches!Stw(addrs[m], "nop")
           \/ 3 * n - 1 = 3 * m - 1 /\ N[3 * n - 1] = Patches!Dcbf(addrs[m])
           \/ 3 * n - 1 = 3 * m /\ N[3 * n - 1] = Patches!Icbi(addrs[m])
    BY <1>1, NopsCode
  <2>2. 3 * n - 1 # 3 * m - 2 /\ 3 * n - 1 # 3 * m /\ (3 * n - 1 = 3 * m - 1 => n = m)
    OBVIOUS
  <2> HIDE DEF N
  <2> QED
    BY <2>1, <2>2
<1>3. N[3 * n] = Patches!Icbi(addrs[n])
  <2>1. PICK m \in 1 .. Len(addrs) :
           \/ 3 * n = 3 * m - 2 /\ N[3 * n] = Patches!Stw(addrs[m], "nop")
           \/ 3 * n = 3 * m - 1 /\ N[3 * n] = Patches!Dcbf(addrs[m])
           \/ 3 * n = 3 * m /\ N[3 * n] = Patches!Icbi(addrs[m])
    BY <1>1, NopsCode
  <2>2. 3 * n # 3 * m - 2 /\ 3 * n # 3 * m - 1 /\ (3 * n = 3 * m => n = m)
    OBVIOUS
  <2> HIDE DEF N
  <2> QED
    BY <2>1, <2>2
<1> QED
  BY <1>2, <1>3

\* The same from the position: what kind of instruction is where.
IsNop(i, k, from, addrs) ==
    \E n \in 1 .. Len(addrs) :
        /\ addrs[n] \in Nat
        /\ \/ k = from + 3 * n - 2 /\ i = Patches!Stw(addrs[n], "nop")
           \/ k = from + 3 * n - 1 /\ i = Patches!Dcbf(addrs[n])
           \/ k = from + 3 * n /\ i = Patches!Icbi(addrs[n])

\* The code with the lengths of its two lists of nops.
Knit(C, L, M) ==
    /\ Laid(C, L, M)
    /\ L \in Nat /\ L = 3 * Len(Nops)
    /\ M \in Nat /\ M = 3 * Len(FarNops)

\* What instruction k of KernelPatches is.
LEMMA PatchesAt ==
    ASSUME Nops \in Seq(Nat), FarNops \in Seq(Nat), NEW C, NEW L, NEW M, Knit(C, L, M),
           NEW k \in 1 .. Len(C)
    PROVE  \/ k = 1 /\ C[k] = Patches!Store
           \/ k = 2 /\ C[k] = Patches!SetDbat0(Window)
           \/ k \in 3 .. 12 /\ C[k] = Patches!Stw(HookAddr + 4 * (k - 3), "stub")
           \/ k = 13 /\ C[k] = Patches!Dcbf(Patches!LineOf(HookAddr))
           \/ k = 14 /\ C[k] = Patches!Icbi(Patches!LineOf(HookAddr))
           \/ k = 15 /\ C[k] = Patches!Dcbf(Patches!LineOf(HookAddr + 32))
           \/ k = 16 /\ C[k] = Patches!Icbi(Patches!LineOf(HookAddr + 32))
           \/ k \in 17 .. 16 + L /\ IsNop(C[k], k, 16, Nops)
           \/ k = 17 + L /\ C[k] = Patches!SetDbat0(FarWindow)
           \/ k \in 18 + L .. 17 + L + M /\ IsNop(C[k], k, 17 + L, FarNops)
           \/ k = 18 + L + M /\ k = Len(C) /\ C[k] = Patches!Restore
<1>1. L \in Nat /\ L = 3 * Len(Nops) /\ M \in Nat /\ M = 3 * Len(FarNops)
  BY Zenon DEF Knit
<1>2. /\ Len(C) = 18 + L + M
      /\ C[1] = Patches!Store /\ C[2] = Patches!SetDbat0(Window)
      /\ \A j \in 1 .. 10 : C[j + 2] = Patches!Stw(HookAddr + 4 * (j - 1), "stub")
      /\ C[13] = Patches!Dcbf(Patches!LineOf(HookAddr))
      /\ C[14] = Patches!Icbi(Patches!LineOf(HookAddr))
      /\ C[15] = Patches!Dcbf(Patches!LineOf(HookAddr + 32))
      /\ C[16] = Patches!Icbi(Patches!LineOf(HookAddr + 32))
      /\ \A j \in 1 .. L : C[j + 16] = Patches!SetNops(Nops)[j]
      /\ C[17 + L] = Patches!SetDbat0(FarWindow)
      /\ \A j \in 1 .. M : C[j + 17 + L] = Patches!SetNops(FarNops)[j]
      /\ C[18 + L + M] = Patches!Restore
  BY Zenon DEF Laid, Knit
<1>3. CASE k \in 3 .. 12
  <2>1. PICK j \in 1 .. 10 : j = k - 2
    BY <1>1, <1>3
  <2>2. j + 2 = k /\ 4 * (j - 1) = 4 * (k - 3)
    BY <2>1
  <2> QED
    BY <1>2, <1>3, <2>2
<1>4. CASE k \in 17 .. 16 + L
  <2>1. PICK j \in 1 .. L : j + 16 = k
    <3>1. k - 16 \in 1 .. L /\ (k - 16) + 16 = k
      BY <1>1, <1>4
    <3> QED
      BY <3>1
  <2>2. C[k] = Patches!SetNops(Nops)[j]
    BY <1>2, <2>1, Zenon
  <2>3. PICK n \in 1 .. Len(Nops) :
           /\ Nops[n] \in Nat
           /\ \/ j = 3 * n - 2 /\ Patches!SetNops(Nops)[j] = Patches!Stw(Nops[n], "nop")
              \/ j = 3 * n - 1 /\ Patches!SetNops(Nops)[j] = Patches!Dcbf(Nops[n])
              \/ j = 3 * n /\ Patches!SetNops(Nops)[j] = Patches!Icbi(Nops[n])
    BY <1>1, NopsCode
  <2>4. IsNop(C[k], k, 16, Nops)
    <3>1. /\ j = 3 * n - 2 => k = 16 + 3 * n - 2
          /\ j = 3 * n - 1 => k = 16 + 3 * n - 1
          /\ j = 3 * n => k = 16 + 3 * n
      BY <2>1
    <3>2. \/ k = 16 + 3 * n - 2 /\ C[k] = Patches!Stw(Nops[n], "nop")
          \/ k = 16 + 3 * n - 1 /\ C[k] = Patches!Dcbf(Nops[n])
          \/ k = 16 + 3 * n /\ C[k] = Patches!Icbi(Nops[n])
      BY <2>2, <2>3, <3>1, Zenon
    <3> QED
      BY <2>3, <3>2, Zenon DEF IsNop
  <2> QED
    BY <1>4, <2>4
<1>5. CASE k \in 18 + L .. 17 + L + M
  <2>1. PICK j \in 1 .. M : j + 17 + L = k
    <3>1. k - 17 - L \in 1 .. M /\ (k - 17 - L) + 17 + L = k
      BY <1>1, <1>5
    <3> QED
      BY <3>1
  <2>2. C[k] = Patches!SetNops(FarNops)[j]
    BY <1>2, <2>1
  <2>3. PICK n \in 1 .. Len(FarNops) :
           /\ FarNops[n] \in Nat
           /\ \/ j = 3 * n - 2 /\ Patches!SetNops(FarNops)[j] = Patches!Stw(FarNops[n], "nop")
              \/ j = 3 * n - 1 /\ Patches!SetNops(FarNops)[j] = Patches!Dcbf(FarNops[n])
              \/ j = 3 * n /\ Patches!SetNops(FarNops)[j] = Patches!Icbi(FarNops[n])
    BY <1>1, NopsCode
  <2>4. IsNop(C[k], k, 17 + L, FarNops)
    <3>1. /\ j = 3 * n - 2 => k = 17 + L + 3 * n - 2
          /\ j = 3 * n - 1 => k = 17 + L + 3 * n - 1
          /\ j = 3 * n => k = 17 + L + 3 * n
      <4>1. ASSUME NEW l \in Nat, j + 17 + l = k
            PROVE  /\ j = 3 * n - 2 => k = 17 + l + 3 * n - 2
                   /\ j = 3 * n - 1 => k = 17 + l + 3 * n - 1
                   /\ j = 3 * n => k = 17 + l + 3 * n
        BY <4>1
      <4> QED
        BY <1>1, <2>1, <4>1, Zenon
    <3>2. \/ k = 17 + L + 3 * n - 2 /\ C[k] = Patches!Stw(FarNops[n], "nop")
          \/ k = 17 + L + 3 * n - 1 /\ C[k] = Patches!Dcbf(FarNops[n])
          \/ k = 17 + L + 3 * n /\ C[k] = Patches!Icbi(FarNops[n])
      BY <2>2, <2>3, <3>1, Zenon
    <3> QED
      BY <2>3, <3>2, Zenon DEF IsNop
  <2> QED
    BY <1>5, <2>4
<1>6. \/ k \in {1, 2, 13, 14, 15, 16} \/ k = 17 + L \/ k = 18 + L + M
      \/ k \in 3 .. 12 \/ k \in 17 .. 16 + L \/ k \in 18 + L .. 17 + L + M
  <2>1. PICK n : n = Len(C)
    OBVIOUS
  <2>2. k \in 1 .. n /\ n = 18 + L + M
    BY <1>2, <2>1, Zenon
  <2> QED
    BY <1>1, <2>2
<1>7. /\ k = 1 => C[k] = Patches!Store
      /\ k = 2 => C[k] = Patches!SetDbat0(Window)
      /\ k = 13 => C[k] = Patches!Dcbf(Patches!LineOf(HookAddr))
      /\ k = 14 => C[k] = Patches!Icbi(Patches!LineOf(HookAddr))
      /\ k = 15 => C[k] = Patches!Dcbf(Patches!LineOf(HookAddr + 32))
      /\ k = 16 => C[k] = Patches!Icbi(Patches!LineOf(HookAddr + 32))
      /\ k = 17 + L => C[k] = Patches!SetDbat0(FarWindow)
      /\ k = 18 + L + M => k = Len(C) /\ C[k] = Patches!Restore
  BY <1>2, Zenon
<1>8. \/ k = 1 \/ k = 2 \/ k = 13 \/ k = 14 \/ k = 15 \/ k = 16
      \/ k = 17 + L \/ k = 18 + L + M
      \/ k \in 3 .. 12 \/ k \in 17 .. 16 + L \/ k \in 18 + L .. 17 + L + M
  BY <1>6
<1> QED
  BY <1>3, <1>4, <1>5, <1>7, <1>8, Zenon

\* Where the stub and the lines that are flushed are.
LEMMA StubPlaces ==
    ASSUME Patches!PatchesAssumption
    PROVE  /\ \A n \in 0 .. 9 :
                 /\ HookAddr + 4 * n \in Nat
                 /\ Window <= HookAddr + 4 * n /\ HookAddr + 4 * n < Window + WindowSize
                 /\ Patches!LineOf(HookAddr + 4 * n)
                       \in {Patches!LineOf(HookAddr), Patches!LineOf(HookAddr + 32)}
           /\ \A n \in {0, 32, 64} :
                 LET l == Patches!LineOf(HookAddr + n)
                 IN  /\ l \in Nat /\ Patches!LineOf(l) = l
                     /\ Window <= l /\ l < Window + WindowSize
<1>1. /\ HookAddr \in Nat /\ Window \in Nat /\ WindowSize \in Nat /\ HookAddr % 32 < 28
      /\ Window <= HookAddr - (HookAddr % 32)
      /\ (HookAddr + 64) - ((HookAddr + 64) % 32) < Window + WindowSize
  BY DEF Patches!PatchesAssumption, Patches!LineOf
<1>2. /\ (HookAddr + 64) % 32 = HookAddr % 32 /\ (HookAddr + 32) % 32 = HookAddr % 32
      /\ HookAddr % 32 \in 0 .. 27
  BY <1>1
<1>3. \A a : Patches!LineOf(a) = a - (a % 32)
  BY DEF Patches!LineOf
<1>4. ASSUME NEW n \in 0 .. 9
      PROVE  /\ HookAddr + 4 * n \in Nat
             /\ Window <= HookAddr + 4 * n /\ HookAddr + 4 * n < Window + WindowSize
             /\ Patches!LineOf(HookAddr + 4 * n)
                   \in {Patches!LineOf(HookAddr), Patches!LineOf(HookAddr + 32)}
  <2>1. /\ HookAddr + 4 * n \in Nat
        /\ Window <= HookAddr + 4 * n /\ HookAddr + 4 * n < Window + WindowSize
    BY <1>1, <1>2
  <2>2. \/ (HookAddr + 4 * n) % 32 = (HookAddr % 32) + 4 * n
        \/ (HookAddr + 4 * n) % 32 = (HookAddr % 32) + 4 * n - 32
    BY <1>1, <1>2
  <2>3. \/ (HookAddr + 4 * n) - ((HookAddr + 4 * n) % 32) = HookAddr - (HookAddr % 32)
        \/ (HookAddr + 4 * n) - ((HookAddr + 4 * n) % 32) = (HookAddr + 32) - ((HookAddr + 32) % 32)
    BY <1>1, <1>2, <2>2
  <2> QED
    BY <1>3, <2>1, <2>3, Zenon
<1>5. ASSUME NEW n \in {0, 32, 64}
      PROVE  LET l == Patches!LineOf(HookAddr + n)
             IN  /\ l \in Nat /\ Patches!LineOf(l) = l
                 /\ Window <= l /\ l < Window + WindowSize
  <2>1. PICK l : l = (HookAddr + n) - ((HookAddr + n) % 32)
    OBVIOUS
  <2>2. n \in Nat /\ (HookAddr + n) % 32 = HookAddr % 32
    BY <1>1, <1>2
  <2>3. l \in Nat /\ l % 32 = 0 /\ Window <= l /\ l < Window + WindowSize
    BY <1>1, <1>2, <2>1, <2>2
  <2>4. l - (l % 32) = l
    BY <2>3
  <2>5. Patches!LineOf(HookAddr + n) = l /\ Patches!LineOf(l) = l
    BY <1>3, <2>1, <2>4, Zenon
  <2> QED
    BY <2>3, <2>5, Zenon
<1> QED
  BY <1>4, <1>5

(***************************************************************************)
(* What makes a function's code right: it reaches only what the window of  *)
(* the moment maps (B is what DBAT0 is set to before each instruction),    *)
(***************************************************************************)
Windowed(C, B) ==
    /\ Len(C) \in Nat /\ Len(C) > 0
    /\ B[1] = Patches!CallersBat /\ B[Len(C) + 1] = Patches!CallersBat
    /\ \A k \in 1 .. Len(C) + 1 : B[k] \in {Patches!CallersBat, Window, FarWindow}
    /\ \A k \in 1 .. Len(C) :
          \/ /\ C[k].op = "mfdbat" /\ k = 1
             /\ B[k + 1] = B[k]
          \/ /\ C[k].op = "mtdbat" /\ k > 1
             /\ B[k + 1] = C[k].a
          \/ /\ C[k].op = "restore" /\ k > 1
             /\ B[k + 1] = Patches!CallersBat
          \/ /\ C[k].op \in {"stw", "dcbf", "icbi"} /\ k > 1
             /\ B[k + 1] = B[k]
             /\ B[k] \in {Window, FarWindow}
             /\ C[k].a \in Nat
             /\ B[k] <= C[k].a /\ C[k].a < B[k] + WindowSize

\* flushes the line of what it stores and then lets go of the instructions of it,
TendedAt(C, N, k) ==
    \E m, q \in 1 .. N :
        /\ k < m /\ m < q
        /\ C[m].op = "dcbf" /\ Patches!LineOf(C[m].a) = Patches!LineOf(C[k].a)
        /\ C[q].op = "icbi" /\ Patches!LineOf(C[q].a) = Patches!LineOf(C[k].a)
Tended(C) ==
    \A k \in 1 .. Len(C) : C[k].op = "stw" => TendedAt(C, Len(C), k)

\* and does not store to one word twice.
OneWord(C) ==
    \A j, k \in 1 .. Len(C) :
        C[j].op = "stw" /\ C[k].op = "stw" /\ C[j].a = C[k].a => C[j].w = C[k].w

\* What an instruction is.
LEMMA Fields ==
    /\ \A a, w : /\ Patches!Stw(a, w).op = "stw" /\ Patches!Stw(a, w).a = a
                 /\ Patches!Stw(a, w).w = w
    /\ \A a : Patches!Dcbf(a).op = "dcbf" /\ Patches!Dcbf(a).a = a
    /\ \A a : Patches!Icbi(a).op = "icbi" /\ Patches!Icbi(a).a = a
    /\ \A a : Patches!SetDbat0(a).op = "mtdbat" /\ Patches!SetDbat0(a).a = a
    /\ Patches!Store.op = "mfdbat" /\ Patches!Restore.op = "restore"
  BY DEF Patches!Stw, Patches!Dcbf, Patches!Icbi, Patches!SetDbat0, Patches!Store,
         Patches!Restore, Patches!Ins

\* What DBAT0 is set to before each instruction of KernelPatches.
PatchesBats(n, L) ==
    [k \in 1 .. n + 1 |-> IF k <= 2 \/ k = n + 1 THEN Patches!CallersBat
                          ELSE IF k <= 17 + L THEN Window ELSE FarWindow]

\* The three instructions for an address are in the window that the address is in.
LEMMA NopReaches ==
    ASSUME NEW i, NEW k, NEW from, NEW addrs \in Seq(Nat), IsNop(i, k, from, addrs),
           NEW w \in Nat, WindowSize \in Nat,
           \A a \in Patches!Range(addrs) : w <= a /\ a < w + WindowSize
    PROVE  /\ i.op \in {"stw", "dcbf", "icbi"} /\ i.a \in Nat
           /\ w <= i.a /\ i.a < w + WindowSize
           /\ i.a \in Patches!Range(addrs)
           /\ i.op = "stw" => i.w = "nop"
<1>1. PICK n \in 1 .. Len(addrs) :
         /\ addrs[n] \in Nat
         /\ \/ i = Patches!Stw(addrs[n], "nop")
            \/ i = Patches!Dcbf(addrs[n])
            \/ i = Patches!Icbi(addrs[n])
  BY DEF IsNop
<1>2. addrs[n] \in Patches!Range(addrs)
  BY DEF Patches!Range
<1>3. i.a = addrs[n] /\ i.op \in {"stw", "dcbf", "icbi"} /\ (i.op = "stw" => i.w = "nop")
  BY <1>1, Fields
<1> QED
  BY <1>1, <1>2, <1>3, Zenon

\* KernelPatches reaches what its windows map,
LEMMA PatchesWindowed ==
    ASSUME Patches!PatchesAssumption, NEW C, NEW L, NEW M, Knit(C, L, M)
    PROVE  Windowed(C, PatchesBats(Len(C), L))
<1> DEFINE B == PatchesBats(Len(C), L)
<1>1. /\ HookAddr \in Nat /\ FarWindow \in Nat /\ Window \in Nat /\ WindowSize \in Nat
      /\ Nops \in Seq(Nat) /\ FarNops \in Seq(Nat)
      /\ \A a \in Patches!Range(Nops) : Window <= a /\ a < Window + WindowSize
      /\ \A a \in Patches!Range(FarNops) : FarWindow <= a /\ a < FarWindow + WindowSize
  <2>1. {HookAddr, Window, FarWindow, WindowSize} \subseteq Nat
    BY Zenon DEF Patches!PatchesAssumption
  <2>2. /\ HookAddr \in Nat /\ FarWindow \in Nat /\ Window \in Nat /\ WindowSize \in Nat
    BY <2>1
  <2> QED
    BY <2>2, Zenon DEF Patches!PatchesAssumption
<1>2. Len(C) = 18 + L + M /\ L \in Nat /\ M \in Nat
  BY Zenon DEF Laid, Knit
<1>3. PICK n : n = Len(C)
  OBVIOUS
<1>4. n = 18 + L + M /\ L \in Nat /\ M \in Nat
  BY <1>2, <1>3, Zenon
<1>5. \A k \in 1 .. n + 1 :
         B[k] = IF k <= 2 \/ k = n + 1 THEN Patches!CallersBat
                ELSE IF k <= 17 + L THEN Window ELSE FarWindow
  BY <1>3 DEF PatchesBats
<1> HIDE DEF B
<1>6. /\ B[1] = Patches!CallersBat /\ B[n + 1] = Patches!CallersBat
      /\ n \in Nat /\ n > 0
  BY <1>4, <1>5
<1>7. \A k \in 1 .. n + 1 : B[k] \in {Patches!CallersBat, Window, FarWindow}
  BY <1>5, Zenon
<1>8. ASSUME NEW k \in 1 .. n
      PROVE  \/ /\ C[k].op = "mfdbat" /\ k = 1
                /\ B[k + 1] = B[k]
             \/ /\ C[k].op = "mtdbat" /\ k > 1
                /\ B[k + 1] = C[k].a
             \/ /\ C[k].op = "restore" /\ k > 1
                /\ B[k + 1] = Patches!CallersBat
             \/ /\ C[k].op \in {"stw", "dcbf", "icbi"} /\ k > 1
                /\ B[k + 1] = B[k]
                /\ B[k] \in {Window, FarWindow}
                /\ C[k].a \in Nat
                /\ B[k] <= C[k].a /\ C[k].a < B[k] + WindowSize
  <2>1. \/ k = 1 /\ C[k] = Patches!Store
        \/ k = 2 /\ C[k] = Patches!SetDbat0(Window)
        \/ k \in 3 .. 12 /\ C[k] = Patches!Stw(HookAddr + 4 * (k - 3), "stub")
        \/ k = 13 /\ C[k] = Patches!Dcbf(Patches!LineOf(HookAddr))
        \/ k = 14 /\ C[k] = Patches!Icbi(Patches!LineOf(HookAddr))
        \/ k = 15 /\ C[k] = Patches!Dcbf(Patches!LineOf(HookAddr + 32))
        \/ k = 16 /\ C[k] = Patches!Icbi(Patches!LineOf(HookAddr + 32))
        \/ k \in 17 .. 16 + L /\ IsNop(C[k], k, 16, Nops)
        \/ k = 17 + L /\ C[k] = Patches!SetDbat0(FarWindow)
        \/ k \in 18 + L .. 17 + L + M /\ IsNop(C[k], k, 17 + L, FarNops)
        \/ k = 18 + L + M /\ k = Len(C) /\ C[k] = Patches!Restore
    <3>1. k \in 1 .. Len(C)
      BY <1>3, Zenon
    <3> QED
      BY <1>1, <3>1, PatchesAt, Zenon
  <2>2. k \in 1 .. n + 1 /\ k + 1 \in 1 .. n + 1
    BY <1>6
  <2>3. CASE k = 1 /\ C[k] = Patches!Store
    <3>1. B[k + 1] = B[k]
      BY <1>4, <1>5, <2>2, <2>3
    <3>2. C[k].op = "mfdbat"
      BY <2>3, Fields
    <3> QED
      BY <2>3, <3>1, <3>2
  <2>4. CASE k = 2 /\ C[k] = Patches!SetDbat0(Window)
    <3>1. B[k + 1] = Window /\ k > 1
      BY <1>4, <1>5, <2>2, <2>4
    <3>2. C[k].op = "mtdbat" /\ C[k].a = Window
      BY <2>4, Fields
    <3> QED
      BY <3>1, <3>2
  <2>5. ASSUME k \in 3 .. 16 + L, C[k].op \in {"stw", "dcbf", "icbi"}, C[k].a \in Nat,
               Window <= C[k].a, C[k].a < Window + WindowSize
        PROVE  /\ C[k].op \in {"stw", "dcbf", "icbi"} /\ k > 1
               /\ B[k + 1] = B[k]
               /\ B[k] \in {Window, FarWindow}
               /\ C[k].a \in Nat
               /\ B[k] <= C[k].a /\ C[k].a < B[k] + WindowSize
    <3>1. B[k] = Window /\ B[k + 1] = Window /\ k > 1
      BY <1>4, <1>5, <2>2, <2>5
    <3> QED
      BY <2>5, <3>1, Zenon
  <2>6. CASE k \in 3 .. 12 /\ C[k] = Patches!Stw(HookAddr + 4 * (k - 3), "stub")
    <3>1. k - 3 \in 0 .. 9 /\ k \in 3 .. 16 + L
      BY <1>4, <2>6
    <3>2. C[k].op = "stw" /\ C[k].a = HookAddr + 4 * (k - 3)
      BY <2>6, Fields
    <3>3. C[k].a \in Nat /\ Window <= C[k].a /\ C[k].a < Window + WindowSize
      BY <3>1, <3>2, StubPlaces, Zenon
    <3>4. C[k].op \in {"stw", "dcbf", "icbi"}
      BY <3>2, Zenon
    <3> QED
      BY <2>5, <3>1, <3>3, <3>4, Zenon
  <2>7. CASE \/ k = 13 /\ C[k] = Patches!Dcbf(Patches!LineOf(HookAddr))
             \/ k = 14 /\ C[k] = Patches!Icbi(Patches!LineOf(HookAddr))
             \/ k = 15 /\ C[k] = Patches!Dcbf(Patches!LineOf(HookAddr + 32))
             \/ k = 16 /\ C[k] = Patches!Icbi(Patches!LineOf(HookAddr + 32))
    <3>1. C[k].op \in {"stw", "dcbf", "icbi"} /\ k \in 3 .. 16 + L
      <4>1. k \in 3 .. 16 + L
        BY <1>4, <2>7
      <4>2. C[k].op = "dcbf" \/ C[k].op = "icbi"
        BY <2>7, Fields
      <4> QED
        BY <4>1, <4>2
    <3>2. C[k].a = Patches!LineOf(HookAddr + 0) \/ C[k].a = Patches!LineOf(HookAddr + 32)
      <4>1. HookAddr + 0 = HookAddr
        BY <1>1
      <4> QED
        BY <2>7, <4>1, Fields
    <3>3. 0 \in {0, 32, 64} /\ 32 \in {0, 32, 64}
      OBVIOUS
    <3>4. C[k].a \in Nat /\ Window <= C[k].a /\ C[k].a < Window + WindowSize
      BY <3>2, <3>3, StubPlaces, Zenon
    <3> QED
      BY <2>5, <3>1, <3>4, Zenon
  <2>8. CASE k \in 17 .. 16 + L /\ IsNop(C[k], k, 16, Nops)
    <3>1. k \in 3 .. 16 + L
      BY <2>8
    <3>2. /\ C[k].op \in {"stw", "dcbf", "icbi"} /\ C[k].a \in Nat
          /\ Window <= C[k].a /\ C[k].a < Window + WindowSize
      BY <1>1, <2>8, NopReaches, Zenon
    <3> QED
      BY <2>5, <3>1, <3>2, Zenon
  <2>9. CASE k = 17 + L /\ C[k] = Patches!SetDbat0(FarWindow)
    <3>1. k > 1 /\ (M > 0 => B[k + 1] = FarWindow)
      BY <1>4, <1>5, <2>2, <2>9
    <3>2. C[k].op = "mtdbat" /\ C[k].a = FarWindow
      BY <2>9, Fields
    <3>3. B[k + 1] = FarWindow
      BY <1>4, <1>5, <2>2, <2>9
    <3> QED
      BY <3>1, <3>2, <3>3
  <2>10. CASE k \in 18 + L .. 17 + L + M /\ IsNop(C[k], k, 17 + L, FarNops)
    <3>1. B[k] = FarWindow /\ B[k + 1] = FarWindow /\ k > 1
      BY <1>4, <1>5, <2>2, <2>10
    <3>2. /\ C[k].op \in {"stw", "dcbf", "icbi"} /\ C[k].a \in Nat
          /\ FarWindow <= C[k].a /\ C[k].a < FarWindow + WindowSize
      BY <1>1, <2>10, NopReaches, Zenon
    <3> QED
      BY <3>1, <3>2, Zenon
  <2>11. CASE k = 18 + L + M /\ k = Len(C) /\ C[k] = Patches!Restore
    <3>1. k > 1 /\ k = n
      BY <1>4, <2>11
    <3>2. C[k].op = "restore"
      BY <2>11, Fields
    <3> QED
      BY <1>6, <3>1, <3>2
  <2> QED
    BY <2>1, <2>3, <2>4, <2>6, <2>7, <2>8, <2>9, <2>10, <2>11, Zenon
<1>9. Windowed(C, B)
  BY <1>3, <1>6, <1>7, <1>8, Zenon DEF Windowed
<1> QED
  BY <1>9, Zenon DEF B

\* The store of a nop is followed by the flush and the invalidation of its line.
LEMMA NopTended ==
    ASSUME NEW C, NEW N \in Nat, NEW k \in 1 .. N, NEW from \in Nat, NEW addrs \in Seq(Nat),
           from + 3 * Len(addrs) <= N,
           \A j \in 1 .. 3 * Len(addrs) : C[from + j] = Patches!SetNops(addrs)[j],
           IsNop(C[k], k, from, addrs), C[k].op = "stw"
    PROVE  TendedAt(C, N, k)
<1>1. PICK n \in 1 .. Len(addrs) :
         \/ k = from + 3 * n - 2 /\ C[k] = Patches!Stw(addrs[n], "nop")
         \/ C[k] = Patches!Dcbf(addrs[n])
         \/ C[k] = Patches!Icbi(addrs[n])
  BY DEF IsNop
<1>2. ~ (C[k] = Patches!Dcbf(addrs[n])) /\ ~ (C[k] = Patches!Icbi(addrs[n]))
  <2>1. ASSUME C[k] = Patches!Dcbf(addrs[n]) PROVE FALSE
    BY <2>1, Fields
  <2>2. ASSUME C[k] = Patches!Icbi(addrs[n]) PROVE FALSE
    BY <2>2, Fields
  <2> QED
    BY <2>1, <2>2
<1>3. k = from + 3 * n - 2 /\ C[k] = Patches!Stw(addrs[n], "nop")
  BY <1>1, <1>2, Zenon
<1>4. PICK l \in Nat : l = Len(addrs)
  OBVIOUS
<1>5. n \in 1 .. l /\ from + 3 * l <= N
  BY <1>4
<1>6. PICK u, v : u = 3 * n - 1 /\ v = 3 * n
  OBVIOUS
<1>7. /\ u \in 1 .. 3 * l /\ v \in 1 .. 3 * l
      /\ from + u \in 1 .. N /\ from + v \in 1 .. N
      /\ k < from + u /\ from + u < from + v
  BY <1>3, <1>5, <1>6
<1>8. C[from + u] = Patches!Dcbf(addrs[n])
  <2>1. C[from + u] = Patches!SetNops(addrs)[u]
    BY <1>4, <1>7, Zenon
  <2>2. Patches!SetNops(addrs)[u] = Patches!Dcbf(addrs[n])
    BY <1>6, NopsAt, Zenon
  <2> QED
    BY <2>1, <2>2, Zenon
<1>9. C[from + v] = Patches!Icbi(addrs[n])
  <2>1. C[from + v] = Patches!SetNops(addrs)[v]
    BY <1>4, <1>7, Zenon
  <2>2. Patches!SetNops(addrs)[v] = Patches!Icbi(addrs[n])
    BY <1>6, NopsAt, Zenon
  <2> QED
    BY <2>1, <2>2, Zenon
<1>10. C[k].a = addrs[n]
  BY <1>3, Fields
<1>11. C[from + u].op = "dcbf" /\ C[from + u].a = addrs[n]
  BY <1>8, Fields
<1>12. C[from + v].op = "icbi" /\ C[from + v].a = addrs[n]
  BY <1>9, Fields
<1> QED
  BY <1>7, <1>10, <1>11, <1>12, Zenon DEF TendedAt

\* KernelPatches tends what it stores,
LEMMA PatchesTended ==
    ASSUME Patches!PatchesAssumption, NEW C, NEW L, NEW M, Knit(C, L, M)
    PROVE  Tended(C)
<1>1. Nops \in Seq(Nat) /\ FarNops \in Seq(Nat) /\ HookAddr \in Nat
  <2>1. {HookAddr, Window, FarWindow, WindowSize} \subseteq Nat
    BY Zenon DEF Patches!PatchesAssumption
  <2>2. HookAddr \in Nat
    BY <2>1
  <2> QED
    BY <2>2, Zenon DEF Patches!PatchesAssumption
<1>2. /\ Len(C) = 18 + L + M
      /\ C[13] = Patches!Dcbf(Patches!LineOf(HookAddr))
      /\ C[14] = Patches!Icbi(Patches!LineOf(HookAddr))
      /\ C[15] = Patches!Dcbf(Patches!LineOf(HookAddr + 32))
      /\ C[16] = Patches!Icbi(Patches!LineOf(HookAddr + 32))
      /\ \A j \in 1 .. L : C[j + 16] = Patches!SetNops(Nops)[j]
      /\ \A j \in 1 .. M : C[j + 17 + L] = Patches!SetNops(FarNops)[j]
      /\ L \in Nat /\ L = 3 * Len(Nops)
      /\ M \in Nat /\ M = 3 * Len(FarNops)
  BY Zenon DEF Laid, Knit
<1>3. PICK N : N = Len(C)
  OBVIOUS
<1>4. PICK near, far : near = L /\ far = M
  OBVIOUS
<1>5. N = 18 + near + far /\ near \in Nat /\ far \in Nat
  BY <1>2, <1>3, <1>4, Zenon
<1>6. ASSUME NEW k \in 1 .. N, C[k].op = "stw"
      PROVE  TendedAt(C, N, k)
  <2>1. \/ k = 1 /\ C[k] = Patches!Store
        \/ k = 2 /\ C[k] = Patches!SetDbat0(Window)
        \/ k \in 3 .. 12 /\ C[k] = Patches!Stw(HookAddr + 4 * (k - 3), "stub")
        \/ k = 13 /\ C[k] = Patches!Dcbf(Patches!LineOf(HookAddr))
        \/ k = 14 /\ C[k] = Patches!Icbi(Patches!LineOf(HookAddr))
        \/ k = 15 /\ C[k] = Patches!Dcbf(Patches!LineOf(HookAddr + 32))
        \/ k = 16 /\ C[k] = Patches!Icbi(Patches!LineOf(HookAddr + 32))
        \/ k \in 17 .. 16 + L /\ IsNop(C[k], k, 16, Nops)
        \/ k = 17 + L /\ C[k] = Patches!SetDbat0(FarWindow)
        \/ k \in 18 + L .. 17 + L + M /\ IsNop(C[k], k, 17 + L, FarNops)
        \/ k = 18 + L + M /\ k = Len(C) /\ C[k] = Patches!Restore
    <3>1. k \in 1 .. Len(C)
      BY <1>3, Zenon
    <3> QED
      BY <1>1, <3>1, PatchesAt, Zenon
  <2>2. /\ ~ (C[k] = Patches!Store) /\ ~ (C[k] = Patches!Restore)
        /\ \A a : /\ ~ (C[k] = Patches!SetDbat0(a)) /\ ~ (C[k] = Patches!Dcbf(a))
                  /\ ~ (C[k] = Patches!Icbi(a))
    <3>1. ASSUME C[k] = Patches!Store \/ C[k] = Patches!Restore PROVE FALSE
      BY <1>6, <3>1, Fields
    <3>2. ASSUME NEW a, C[k] = Patches!SetDbat0(a) \/ C[k] = Patches!Dcbf(a) \/ C[k] = Patches!Icbi(a)
          PROVE  FALSE
      BY <1>6, <3>2, Fields
    <3> QED
      BY <3>1, <3>2, Zenon
  <2>3. CASE k \in 3 .. 12 /\ C[k] = Patches!Stw(HookAddr + 4 * (k - 3), "stub")
    <3>1. k - 3 \in 0 .. 9
      BY <2>3
    <3>2. C[k].a = HookAddr + 4 * (k - 3)
      BY <2>3, Fields
    <3>3. Patches!LineOf(C[k].a) \in {Patches!LineOf(HookAddr), Patches!LineOf(HookAddr + 32)}
      BY <3>1, <3>2, StubPlaces, Zenon
    <3>4. /\ 13 \in 1 .. N /\ 14 \in 1 .. N /\ 15 \in 1 .. N /\ 16 \in 1 .. N
          /\ k < 13 /\ k < 15 /\ 13 < 14 /\ 15 < 16
          /\ 0 \in {0, 32, 64} /\ 32 \in {0, 32, 64} /\ HookAddr + 0 = HookAddr
      <4>1. N \in Nat /\ N >= 18
        BY <1>5
      <4>2. 13 \in 1 .. N /\ 14 \in 1 .. N /\ 15 \in 1 .. N /\ 16 \in 1 .. N
        BY <4>1
      <4>3. k < 13 /\ k < 15 /\ 13 < 14 /\ 15 < 16
        BY <2>3
      <4>4. 0 \in {0, 32, 64} /\ 32 \in {0, 32, 64} /\ HookAddr + 0 = HookAddr
        BY <1>1
      <4> QED
        BY <4>2, <4>3, <4>4
    <3>5. /\ C[13].op = "dcbf" /\ C[13].a = Patches!LineOf(HookAddr)
          /\ C[14].op = "icbi" /\ C[14].a = Patches!LineOf(HookAddr)
          /\ C[15].op = "dcbf" /\ C[15].a = Patches!LineOf(HookAddr + 32)
          /\ C[16].op = "icbi" /\ C[16].a = Patches!LineOf(HookAddr + 32)
      <4>1. /\ C[13] = Patches!Dcbf(Patches!LineOf(HookAddr))
            /\ C[14] = Patches!Icbi(Patches!LineOf(HookAddr))
            /\ C[15] = Patches!Dcbf(Patches!LineOf(HookAddr + 32))
            /\ C[16] = Patches!Icbi(Patches!LineOf(HookAddr + 32))
        BY <1>2, Zenon
      <4> QED
        BY <4>1, Fields
    <3>6. /\ Patches!LineOf(Patches!LineOf(HookAddr)) = Patches!LineOf(HookAddr)
          /\ Patches!LineOf(Patches!LineOf(HookAddr + 32)) = Patches!LineOf(HookAddr + 32)
      BY <3>4, StubPlaces
    <3>7. CASE Patches!LineOf(C[k].a) = Patches!LineOf(HookAddr)
      BY <3>4, <3>5, <3>6, <3>7, Zenon DEF TendedAt
    <3>8. CASE Patches!LineOf(C[k].a) = Patches!LineOf(HookAddr + 32)
      BY <3>4, <3>5, <3>6, <3>8, Zenon DEF TendedAt
    <3> QED
      BY <3>3, <3>7, <3>8
  <2>4. CASE IsNop(C[k], k, 16, Nops)
    <3>1. 16 \in Nat /\ 16 + 3 * Len(Nops) <= N /\ N \in Nat
      <4>1. 3 * Len(Nops) = near
        BY <1>2, <1>4, Zenon
      <4> QED
        BY <1>5, <4>1
    <3>2. \A j \in 1 .. 3 * Len(Nops) : C[16 + j] = Patches!SetNops(Nops)[j]
      <4>1. \A j \in 1 .. near : j + 16 = 16 + j
        BY <1>5
      <4> QED
        BY <1>2, <1>4, <4>1, Zenon
    <3>3. PICK f : f = 16
      OBVIOUS
    <3> QED
      BY <1>1, <1>6, <2>4, <3>1, <3>2, <3>3, NopTended, Zenon
  <2>5. CASE IsNop(C[k], k, 17 + L, FarNops)
    <3>1. 17 + L \in Nat /\ (17 + L) + 3 * Len(FarNops) <= N /\ N \in Nat
      <4>1. 3 * Len(FarNops) = far
        BY <1>2, <1>4, Zenon
      <4>2. 17 + near \in Nat /\ (17 + near) + far <= N /\ N \in Nat
        BY <1>5
      <4> QED
        BY <1>4, <4>1, <4>2, Zenon
    <3>2. \A j \in 1 .. 3 * Len(FarNops) : C[(17 + L) + j] = Patches!SetNops(FarNops)[j]
      <4>1. \A j \in 1 .. far : j + 17 + near = (17 + near) + j
        BY <1>5
      <4> QED
        BY <1>2, <1>4, <4>1, Zenon
    <3>3. PICK f : f = 17 + L
      OBVIOUS
    <3> QED
      BY <1>1, <1>6, <2>5, <3>1, <3>2, <3>3, NopTended, Zenon
  <2> QED
    BY <2>1, <2>2, <2>3, <2>4, <2>5, Zenon
<1> QED
  BY <1>3, <1>6, Zenon DEF Tended

\* with one word for each address.
LEMMA PatchesOneWord ==
    ASSUME Patches!PatchesAssumption, NEW C, NEW L, NEW M, Knit(C, L, M)
    PROVE  OneWord(C)
<1>1. Nops \in Seq(Nat) /\ FarNops \in Seq(Nat)
  BY Zenon DEF Patches!PatchesAssumption
<1>2. ASSUME NEW k \in 1 .. Len(C), C[k].op = "stw"
      PROVE  \/ C[k].a \in Patches!Range(Patches!StubWords) /\ C[k].w = "stub"
             \/ C[k].a \in Patches!Range(Nops) \cup Patches!Range(FarNops) /\ C[k].w = "nop"
  <2>1. \/ C[k] = Patches!Store \/ C[k] = Patches!Restore
        \/ \E a : \/ C[k] = Patches!SetDbat0(a) \/ C[k] = Patches!Dcbf(a)
                  \/ C[k] = Patches!Icbi(a)
        \/ k \in 3 .. 12 /\ C[k] = Patches!Stw(HookAddr + 4 * (k - 3), "stub")
        \/ IsNop(C[k], k, 16, Nops)
        \/ IsNop(C[k], k, 17 + L, FarNops)
    BY <1>1, PatchesAt, Zenon
  <2>2. CASE C[k] = Patches!Store \/ C[k] = Patches!Restore
    BY <1>2, <2>2, Fields
  <2>3. CASE \E a : \/ C[k] = Patches!SetDbat0(a) \/ C[k] = Patches!Dcbf(a)
                    \/ C[k] = Patches!Icbi(a)
    BY <1>2, <2>3, Fields
  <2>4. CASE k \in 3 .. 12 /\ C[k] = Patches!Stw(HookAddr + 4 * (k - 3), "stub")
    <3>1. C[k].a = HookAddr + 4 * (k - 3) /\ C[k].w = "stub"
      BY <2>4, Fields
    <3>2. k - 2 \in 1 .. 10 /\ (k - 2) - 1 = k - 3
      BY <2>4
    <3>3. \A n \in 1 .. 10 : HookAddr + 4 * (n - 1) \in Patches!Range(Patches!StubWords)
      BY DEF Patches!StubWords, Patches!Range
    <3> QED
      BY <3>1, <3>2, <3>3, Zenon
  <2>5. CASE IsNop(C[k], k, 16, Nops) \/ IsNop(C[k], k, 17 + L, FarNops)
    <3>1. PICK from, addrs : addrs \in {Nops, FarNops} /\ IsNop(C[k], k, from, addrs)
      BY <2>5
    <3>2. PICK n \in 1 .. Len(addrs) :
             \/ C[k] = Patches!Stw(addrs[n], "nop")
             \/ C[k] = Patches!Dcbf(addrs[n])
             \/ C[k] = Patches!Icbi(addrs[n])
      BY <3>1, Zenon DEF IsNop
    <3>3. C[k].a = addrs[n] /\ C[k].w = "nop"
      BY <1>2, <3>2, Fields
    <3>4. addrs[n] \in Patches!Range(addrs)
      BY <1>1 DEF Patches!Range
    <3>5. addrs[n] \in Patches!Range(Nops) \cup Patches!Range(FarNops)
      BY <3>1, <3>4, Zenon
    <3> QED
      BY <3>3, <3>5, Zenon
  <2> QED
    BY <2>1, <2>2, <2>3, <2>4, <2>5, Zenon
<1>3. Patches!Range(Patches!StubWords) \cap (Patches!Range(Nops) \cup Patches!Range(FarNops)) = {}
  BY Zenon DEF Patches!PatchesAssumption
<1> QED
  BY <1>2, <1>3 DEF OneWord

\* All of this for the code KernelPatches has.
LEMMA PatchesAreRight ==
    ASSUME Patches!PatchesAssumption, NEW C, C = Patches!KernelPatches
    PROVE  /\ DOMAIN C = 1 .. Len(C)
           /\ Windowed(C, PatchesBats(Len(C), 3 * Len(Nops)))
           /\ Tended(C) /\ OneWord(C)
<1>1. Nops \in Seq(Nat) /\ FarNops \in Seq(Nat)
  BY Zenon DEF Patches!PatchesAssumption
<1>2. HookAddr \in Nat /\ FarWindow \in Nat /\ Window \in Nat
  <2>1. {HookAddr, Window, FarWindow, WindowSize} \subseteq Nat
    BY Zenon DEF Patches!PatchesAssumption
  <2> QED
    BY <2>1
<1>3. 3 * Len(Nops) \in Nat /\ 3 * Len(FarNops) \in Nat
  BY <1>1
<1>4. PICK L, M : L = 3 * Len(Nops) /\ M = 3 * Len(FarNops)
  OBVIOUS
<1>5. Laid(C, L, M)
  BY <1>1, <1>2, <1>4, PatchesCode, Zenon
<1>6. Knit(C, L, M)
  BY <1>3, <1>4, <1>5, Zenon DEF Knit
<1>7. Windowed(C, PatchesBats(Len(C), L)) /\ Tended(C) /\ OneWord(C)
  BY <1>6, PatchesWindowed, PatchesTended, PatchesOneWord, Zenon
<1>8. DOMAIN C = 1 .. Len(C)
  BY <1>5, Zenon DEF Laid
<1> QED
  BY <1>4, <1>7, <1>8, Zenon

\* What DBAT0 is set to before each of its instructions.
FinalBats == [k \in 1 .. 9 |-> IF k <= 2 \/ k = 9 THEN Patches!CallersBat ELSE Window]

\* Its eight instructions.
LEMMA FinalCode ==
    LET C == Patches!KernelPatchesFinal
    IN  /\ DOMAIN C = 1 .. 8 /\ Len(C) = 8
        /\ C[1] = Patches!Store /\ C[2] = Patches!SetDbat0(Window)
        /\ C[3] = Patches!Stw(Patches!BranchAddr, "final")
        /\ C[4] = Patches!Dcbf(Patches!LineOf(HookAddr))
        /\ C[5] = Patches!Icbi(Patches!LineOf(HookAddr))
        /\ C[6] = Patches!Dcbf(Patches!LineOf(HookAddr + 64))
        /\ C[7] = Patches!Icbi(Patches!LineOf(HookAddr + 64))
        /\ C[8] = Patches!Restore
  BY DEF Patches!KernelPatchesFinal, Patches!Body, Patches!Flush

\* KernelPatchesFinal reaches what its window maps.
LEMMA FinalIsRight ==
    ASSUME Patches!PatchesAssumption, NEW C, C = Patches!KernelPatchesFinal
    PROVE  /\ DOMAIN C = 1 .. Len(C)
           /\ Windowed(C, FinalBats)
           /\ \A k \in 1 .. Len(C) : C[k].op = "stw" => C[k].a = Patches!BranchAddr
<1>1. /\ HookAddr \in Nat /\ Window \in Nat /\ WindowSize \in Nat
  <2>1. {HookAddr, Window, FarWindow, WindowSize} \subseteq Nat
    BY Zenon DEF Patches!PatchesAssumption
  <2> QED
    BY <2>1
<1>2. /\ DOMAIN C = 1 .. 8 /\ Len(C) = 8
      /\ C[1] = Patches!Store /\ C[2] = Patches!SetDbat0(Window)
      /\ C[3] = Patches!Stw(Patches!BranchAddr, "final")
      /\ C[4] = Patches!Dcbf(Patches!LineOf(HookAddr))
      /\ C[5] = Patches!Icbi(Patches!LineOf(HookAddr))
      /\ C[6] = Patches!Dcbf(Patches!LineOf(HookAddr + 64))
      /\ C[7] = Patches!Icbi(Patches!LineOf(HookAddr + 64))
      /\ C[8] = Patches!Restore
  BY FinalCode, Zenon
<1>3. /\ C[1].op = "mfdbat" /\ C[2].op = "mtdbat" /\ C[2].a = Window
      /\ C[3].op = "stw" /\ C[3].a = Patches!BranchAddr
      /\ C[4].op = "dcbf" /\ C[4].a = Patches!LineOf(HookAddr)
      /\ C[5].op = "icbi" /\ C[5].a = Patches!LineOf(HookAddr)
      /\ C[6].op = "dcbf" /\ C[6].a = Patches!LineOf(HookAddr + 64)
      /\ C[7].op = "icbi" /\ C[7].a = Patches!LineOf(HookAddr + 64)
      /\ C[8].op = "restore"
  <2>1. PICK c1, c2, c3, c4, c5, c6, c7, c8 :
           /\ c1 = C[1] /\ c2 = C[2] /\ c3 = C[3] /\ c4 = C[4]
           /\ c5 = C[5] /\ c6 = C[6] /\ c7 = C[7] /\ c8 = C[8]
    OBVIOUS
  <2>2. /\ c1 = Patches!Store /\ c2 = Patches!SetDbat0(Window)
        /\ c3 = Patches!Stw(Patches!BranchAddr, "final")
        /\ c4 = Patches!Dcbf(Patches!LineOf(HookAddr))
        /\ c5 = Patches!Icbi(Patches!LineOf(HookAddr))
        /\ c6 = Patches!Dcbf(Patches!LineOf(HookAddr + 64))
        /\ c7 = Patches!Icbi(Patches!LineOf(HookAddr + 64))
        /\ c8 = Patches!Restore
    BY <1>2, <2>1, Zenon
  <2>3. /\ c1.op = "mfdbat" /\ c2.op = "mtdbat" /\ c2.a = Window
        /\ c3.op = "stw" /\ c3.a = Patches!BranchAddr
        /\ c4.op = "dcbf" /\ c4.a = Patches!LineOf(HookAddr)
        /\ c5.op = "icbi" /\ c5.a = Patches!LineOf(HookAddr)
        /\ c6.op = "dcbf" /\ c6.a = Patches!LineOf(HookAddr + 64)
        /\ c7.op = "icbi" /\ c7.a = Patches!LineOf(HookAddr + 64)
        /\ c8.op = "restore"
    BY <2>2, Fields
  <2> QED
    BY <2>1, <2>3, Zenon
<1>4. /\ \A k \in 1 .. 9 :
            FinalBats[k] = IF k <= 2 \/ k = 9 THEN Patches!CallersBat ELSE Window
  BY DEF FinalBats
<1>5. PICK B : B = FinalBats
  OBVIOUS
<1>6. /\ B[1] = Patches!CallersBat /\ B[2] = Patches!CallersBat /\ B[9] = Patches!CallersBat
      /\ B[3] = Window /\ B[4] = Window /\ B[5] = Window /\ B[6] = Window
      /\ B[7] = Window /\ B[8] = Window
      /\ \A k \in 1 .. 9 : B[k] \in {Patches!CallersBat, Window, FarWindow}
  BY <1>4, <1>5
<1>7. /\ Patches!BranchAddr \in Nat /\ Window <= Patches!BranchAddr
      /\ Patches!BranchAddr < Window + WindowSize
  <2>1. 9 \in 0 .. 9 /\ HookAddr + 4 * 9 = HookAddr + 36
    BY <1>1
  <2> QED
    BY <2>1, StubPlaces DEF Patches!BranchAddr
<1>8. /\ Patches!LineOf(HookAddr) \in Nat /\ Window <= Patches!LineOf(HookAddr)
      /\ Patches!LineOf(HookAddr) < Window + WindowSize
      /\ Patches!LineOf(HookAddr + 64) \in Nat /\ Window <= Patches!LineOf(HookAddr + 64)
      /\ Patches!LineOf(HookAddr + 64) < Window + WindowSize
  <2>1. 0 \in {0, 32, 64} /\ 64 \in {0, 32, 64} /\ HookAddr + 0 = HookAddr
    BY <1>1
  <2> QED
    BY <2>1, StubPlaces
<1>9. ASSUME NEW k \in 1 .. 8
      PROVE  \/ /\ C[k].op = "mfdbat" /\ k = 1
                /\ B[k + 1] = B[k]
             \/ /\ C[k].op = "mtdbat" /\ k > 1
                /\ B[k + 1] = C[k].a
             \/ /\ C[k].op = "restore" /\ k > 1
                /\ B[k + 1] = Patches!CallersBat
             \/ /\ C[k].op \in {"stw", "dcbf", "icbi"} /\ k > 1
                /\ B[k + 1] = B[k]
                /\ B[k] \in {Window, FarWindow}
                /\ C[k].a \in Nat
                /\ B[k] <= C[k].a /\ C[k].a < B[k] + WindowSize
  <2>1. CASE k \in {1, 2, 8}
    BY <1>3, <1>6, <2>1
  <2>2. CASE k = 3
    BY <1>3, <1>6, <1>7, <2>2
  <2>3. CASE k \in {4, 5, 6, 7}
    BY <1>3, <1>6, <1>8, <2>3
  <2> QED
    BY <2>1, <2>2, <2>3
<1>10. Windowed(C, B)
  <2>1. 8 \in Nat /\ 8 > 0 /\ 8 + 1 = 9
    OBVIOUS
  <2> QED
    BY <1>2, <1>6, <1>9, <2>1, Zenon DEF Windowed
<1>11. \A k \in 1 .. 8 : C[k].op = "stw" => C[k].a = Patches!BranchAddr
  BY <1>3
<1> QED
  BY <1>2, <1>5, <1>10, <1>11, Zenon

\* Before instruction n the line that instruction k stores to has been flushed,
FlushedBy(C, k, n, l) ==
    \E m \in 1 .. Len(C) :
        k < m /\ m < n /\ C[m].op = "dcbf" /\ Patches!LineOf(C[m].a) = l

\* and its instructions have been let go of after that.
AgainBy(C, k, n, l) ==
    \E m, q \in 1 .. Len(C) :
        /\ k < m /\ m < q /\ q < n
        /\ C[m].op = "dcbf" /\ Patches!LineOf(C[m].a) = l
        /\ C[q].op = "icbi" /\ Patches!LineOf(C[q].a) = l

(***************************************************************************)
(* How far what has been stored to a line has got: it is what a load reads *)
(* there; after a flush memory has it, and after an invalidation that      *)
(* follows no instruction cache has anything else.                         *)
(***************************************************************************)
Arrived(C, k, n, l, la, ra, in, ca) ==
    /\ <<C[k].a, C[k].w>> \in la
    /\ FlushedBy(C, k, n, l) => <<C[k].a, C[k].w>> \in ra
    /\ AgainBy(C, k, n, l) /\ ca => <<C[k].a, C[k].w>> \in in

Written(C, n, l, la, ra, in, ca) ==
    \A k \in 1 .. Len(C) :
        k < n /\ C[k].op = "stw" /\ Patches!LineOf(C[k].a) = l =>
            Arrived(C, k, n, l, la, ra, in, ca)

\* What an instruction adds to that.
LEMMA OneMore ==
    ASSUME NEW C, Len(C) \in Nat, NEW n \in 1 .. Len(C), NEW l, NEW k \in 1 .. Len(C)
    PROVE  /\ FlushedBy(C, k, n + 1, l) =>
                 FlushedBy(C, k, n, l) \/ (C[n].op = "dcbf" /\ Patches!LineOf(C[n].a) = l)
           /\ AgainBy(C, k, n + 1, l) =>
                 \/ AgainBy(C, k, n, l)
                 \/ /\ FlushedBy(C, k, n, l)
                    /\ C[n].op = "icbi" /\ Patches!LineOf(C[n].a) = l
<1>1. PICK N \in Nat : N = Len(C)
  OBVIOUS
<1>2. \A m \in 1 .. N : /\ m < n + 1 => m < n \/ m = n
                        /\ \A q \in 1 .. N : /\ m < q /\ q < n => m < n
                                             /\ m < q /\ q < n + 1 => m < n + 1
                                             /\ m < q /\ q = n => m < n
  BY <1>1
<1>3. ASSUME FlushedBy(C, k, n + 1, l)
      PROVE  FlushedBy(C, k, n, l) \/ (C[n].op = "dcbf" /\ Patches!LineOf(C[n].a) = l)
  <2>1. PICK m \in 1 .. N :
           k < m /\ m < n + 1 /\ C[m].op = "dcbf" /\ Patches!LineOf(C[m].a) = l
    BY <1>1, <1>3, Zenon DEF FlushedBy
  <2>2. CASE m < n
    BY <1>1, <2>1, <2>2, Zenon DEF FlushedBy
  <2>3. CASE m = n
    BY <2>1, <2>3, Zenon
  <2> QED
    BY <1>2, <2>1, <2>2, <2>3, Zenon
<1>4. ASSUME AgainBy(C, k, n + 1, l)
      PROVE  \/ AgainBy(C, k, n, l)
             \/ /\ FlushedBy(C, k, n, l)
                /\ C[n].op = "icbi" /\ Patches!LineOf(C[n].a) = l
  <2>1. PICK m \in 1 .. N, q \in 1 .. N :
           /\ k < m /\ m < q /\ q < n + 1
           /\ C[m].op = "dcbf" /\ Patches!LineOf(C[m].a) = l
           /\ C[q].op = "icbi" /\ Patches!LineOf(C[q].a) = l
    BY <1>1, <1>4, Zenon DEF AgainBy
  <2>2. CASE q < n
    BY <1>1, <2>1, <2>2, Zenon DEF AgainBy
  <2>3. CASE q = n
    <3>1. m < n
      BY <1>2, <2>1, <2>3, Zenon
    <3>2. FlushedBy(C, k, n, l)
      BY <1>1, <2>1, <3>1, Zenon DEF FlushedBy
    <3> QED
      BY <2>1, <2>3, <3>2, Zenon
  <2> QED
    BY <1>2, <2>1, <2>2, <2>3, Zenon
<1> QED
  BY <1>3, <1>4, Zenon

\* Nothing of that has been done for the instruction itself.
LEMMA NotYet ==
    ASSUME NEW C, Len(C) \in Nat, NEW n \in 1 .. Len(C), NEW l
    PROVE  ~ FlushedBy(C, n, n + 1, l) /\ ~ AgainBy(C, n, n + 1, l)
<1>1. \A m \in 1 .. Len(C) : /\ ~ (n < m /\ m < n + 1)
                             /\ \A q \in 1 .. Len(C) : m < q /\ q < n + 1 => m < n + 1
  OBVIOUS
<1> QED
  BY <1>1, Zenon DEF FlushedBy, AgainBy

\* The four kinds of instructions,
LEMMA AnyInstruction ==
    ASSUME NEW C, Len(C) \in Nat, NEW n \in 1 .. Len(C), NEW l, NEW la, NEW ra, NEW in,
           NEW ca \in BOOLEAN, OneWord(C),
           Written(C, n, l, la, ra, in, ca),
           NEW la1, NEW ra1, NEW in1, NEW ca1 \in BOOLEAN,
           la1 = IF C[n].op = "stw" /\ Patches!LineOf(C[n].a) = l
                 THEN Patches!Put(la, C[n].a, C[n].w) ELSE la,
           ra1 = IF C[n].op = "dcbf" /\ Patches!LineOf(C[n].a) = l THEN la ELSE ra,
           in1 = IF C[n].op = "icbi" /\ Patches!LineOf(C[n].a) = l THEN {} ELSE in,
           ca1 = (ca /\ ~ (C[n].op = "icbi" /\ Patches!LineOf(C[n].a) = l))
    PROVE  Written(C, n + 1, l, la1, ra1, in1, ca1)
<1> SUFFICES ASSUME NEW k \in 1 .. Len(C), k < n + 1, C[k].op = "stw", Patches!LineOf(C[k].a) = l
             PROVE  Arrived(C, k, n + 1, l, la1, ra1, in1, ca1)
  BY Zenon DEF Written
<1>1. k < n \/ k = n
  <2>1. PICK N \in Nat : N = Len(C)
    OBVIOUS
  <2> QED
    BY <2>1
<1> DEFINE p == <<C[k].a, C[k].w>>
<1>2. CASE k < n
  <2>1. Arrived(C, k, n, l, la, ra, in, ca)
    BY <1>2, Zenon DEF Written
  <2>2. p \in la1
    <3>1. p \in la
      BY <2>1, Zenon DEF Arrived
    <3>2. CASE C[n].op = "stw" /\ C[n].a = C[k].a
      <4>1. C[n].w = C[k].w
        BY <3>2, Zenon DEF OneWord
      <4> QED
        BY <3>1, <3>2, <4>1 DEF Patches!Put
    <3>3. CASE ~ (C[n].op = "stw" /\ C[n].a = C[k].a)
      BY <3>1, <3>3 DEF Patches!Put
    <3> QED
      BY <3>2, <3>3
  <2>3. ASSUME FlushedBy(C, k, n + 1, l) PROVE p \in ra1
    <3>1. FlushedBy(C, k, n, l) \/ (C[n].op = "dcbf" /\ Patches!LineOf(C[n].a) = l)
      BY <2>3, OneMore
    <3>2. p \in la /\ (FlushedBy(C, k, n, l) => p \in ra)
      BY <2>1, Zenon DEF Arrived
    <3> QED
      BY <3>1, <3>2, Zenon
  <2>4. ASSUME AgainBy(C, k, n + 1, l), ca1 PROVE p \in in1
    <3>1. \/ AgainBy(C, k, n, l)
          \/ C[n].op = "icbi" /\ Patches!LineOf(C[n].a) = l
      BY <2>4, OneMore
    <3>2. AgainBy(C, k, n, l) /\ ca => p \in in
      BY <2>1, Zenon DEF Arrived
    <3> QED
      BY <2>4, <3>1, <3>2, Zenon
  <2> QED
    BY <2>2, <2>3, <2>4, Zenon DEF Arrived
<1>3. CASE k = n
  <2>1. p \in la1
    BY <1>3 DEF Patches!Put
  <2>2. ~ FlushedBy(C, n, n + 1, l) /\ ~ AgainBy(C, n, n + 1, l)
    BY NotYet, Zenon
  <2> QED
    BY <1>3, <2>1, <2>2, Zenon DEF Arrived
<1> QED
  BY <1>1, <1>2, <1>3, Zenon

\* and what the caches do by themselves.
LEMMA AnyCache ==
    ASSUME NEW C, Len(C) \in Nat, NEW n \in Nat, NEW l, NEW la, NEW ra, NEW in,
           NEW ca \in BOOLEAN,
           Written(C, n, l, la, ra, in, ca)
    PROVE  /\ Written(C, n, l, la, la, in, ca)
           /\ Written(C, n, l, la, ra, ra, TRUE)
           /\ Written(C, n, l, la, ra, {}, FALSE)
<1>1. \A k : AgainBy(C, k, n, l) => FlushedBy(C, k, n, l)
  <2>1. \A m, q \in 1 .. Len(C) : m < q /\ q < n => m < n
    OBVIOUS
  <2> QED
    BY <2>1, Zenon DEF AgainBy, FlushedBy
<1> QED
  BY <1>1, Zenon DEF Written, Arrived

\* The code of each function, and its windows.
CodeIs(f) == IF f = "KernelPatches" THEN Patches!KernelPatches ELSE Patches!KernelPatchesFinal
BatsOf(f) ==
    IF f = "KernelPatches" THEN PatchesBats(Len(Patches!KernelPatches), 3 * Len(Nops))
    ELSE FinalBats

\* Both are right.
LEMMA CodesAreRight ==
    ASSUME NEW f \in {"KernelPatches", "KernelPatchesFinal"}
    PROVE  /\ DOMAIN CodeIs(f) = 1 .. Len(CodeIs(f)) /\ Len(CodeIs(f)) \in Nat
           /\ Windowed(CodeIs(f), BatsOf(f))
           /\ f = "KernelPatches" => Tended(CodeIs(f)) /\ OneWord(CodeIs(f))
           /\ f # "KernelPatches" =>
                 \A k \in 1 .. Len(CodeIs(f)) :
                     CodeIs(f)[k].op = "stw" => CodeIs(f)[k].a = Patches!BranchAddr
<1>1. Patches!PatchesAssumption
  BY SidesAssumption, Zenon DEF SidesAssumption
<1>2. CASE f = "KernelPatches"
  <2>1. CodeIs(f) = Patches!KernelPatches
    BY <1>2, Zenon DEF CodeIs
  <2>2. BatsOf(f) = PatchesBats(Len(Patches!KernelPatches), 3 * Len(Nops))
    BY <1>2, Zenon DEF BatsOf
  <2>3. PICK C : C = Patches!KernelPatches
    OBVIOUS
  <2>4. /\ DOMAIN C = 1 .. Len(C)
        /\ Windowed(C, PatchesBats(Len(C), 3 * Len(Nops)))
        /\ Tended(C) /\ OneWord(C)
    BY <1>1, <2>3, PatchesAreRight, Zenon
  <2>5. Len(C) \in Nat
    BY <2>4, Zenon DEF Windowed
  <2> QED
    BY <1>2, <2>1, <2>2, <2>3, <2>4, <2>5, Zenon
<1>3. CASE f # "KernelPatches"
  <2>1. CodeIs(f) = Patches!KernelPatchesFinal
    BY <1>3, Zenon DEF CodeIs
  <2>2. BatsOf(f) = FinalBats
    BY <1>3, Zenon DEF BatsOf
  <2>3. PICK C : C = Patches!KernelPatchesFinal
    OBVIOUS
  <2>4. /\ DOMAIN C = 1 .. Len(C)
        /\ Windowed(C, FinalBats)
        /\ \A k \in 1 .. Len(C) : C[k].op = "stw" => C[k].a = Patches!BranchAddr
    BY <1>1, <2>3, FinalIsRight, Zenon
  <2>5. Len(C) \in Nat
    BY <2>4, Zenon DEF Windowed
  <2> QED
    BY <1>3, <2>1, <2>2, <2>3, <2>4, <2>5, Zenon
<1> QED
  BY <1>2, <1>3

\* DBAT0 is what the instructions so far have made it, and the caller's is saved.
BatInv ==
    /\ pFunction \in {"KernelPatches", "KernelPatchesFinal"}
    /\ pI \in 1 .. Len(CodeIs(pFunction)) + 1
    /\ pDbat0 = BatsOf(pFunction)[pI]
    /\ pSaved \in {Patches!CallersBat, 0}
    /\ pI > 1 => pSaved = Patches!CallersBat

\* The line has nothing but its patches, wherever it is looked at.
LineInv ==
    /\ pLine \in Patches!Lines /\ pCached \in BOOLEAN
    /\ pLatest \cup pRam \cup pInst \subseteq Patches!WordsOf[pLine]

\* What KernelPatches has stored is on its way,
WordsInv ==
    pFunction = "KernelPatches" =>
        Written(CodeIs(pFunction), pI, pLine, pLatest, pRam, pInst, pCached)

\* and of what it has stored KernelPatchesFinal takes nothing but the branch.
RestInv ==
    pFunction # "KernelPatches" =>
        \A p \in Patches!WordsOf[pLine] \cap Patches!Patches : p[1] # Patches!BranchAddr =>
            p \in pLatest /\ p \in pRam /\ (pCached => p \in pInst)

PatchInv == BatInv /\ LineInv /\ WordsInv /\ RestInv

\* A store is one of the line's patches.
LEMMA StoresArePatches ==
    ASSUME NEW f \in {"KernelPatches", "KernelPatchesFinal"}, NEW l \in Patches!Lines,
           NEW k \in 1 .. Len(CodeIs(f)), CodeIs(f)[k].op = "stw",
           Patches!LineOf(CodeIs(f)[k].a) = l
    PROVE  <<CodeIs(f)[k].a, CodeIs(f)[k].w>> \in Patches!WordsOf[l]
<1> DEFINE C == CodeIs(f)
           p == <<C[k].a, C[k].w>>
<1>1. k \in DOMAIN C
  BY CodesAreRight, Zenon
<1>2. p \in Patches!Stored(C)
  BY <1>1 DEF Patches!Stored
<1>3. C = Patches!KernelPatches \/ C = Patches!KernelPatchesFinal
  BY Zenon DEF CodeIs
<1>4. p \in Patches!Patches \cup Patches!FinalPatches
  <2>1. p \in Patches!Stored(Patches!KernelPatches) \/ p \in Patches!Stored(Patches!KernelPatchesFinal)
    BY <1>2, <1>3, Zenon
  <2> QED
    BY <2>1, Zenon DEF Patches!Patches, Patches!FinalPatches
<1>5. Patches!LineOf(p[1]) = l
  <2>1. p[1] = C[k].a
    OBVIOUS
  <2> QED
    BY <2>1, Zenon
<1> HIDE DEF p
<1>6. Patches!WordsOf[l] =
         {q \in Patches!Patches \cup Patches!FinalPatches : Patches!LineOf(q[1]) = l}
  BY DEF Patches!WordsOf
<1> QED
  BY <1>4, <1>5, <1>6 DEF p

\* What the invariant says of what runs.
LEMMA Instruction ==
    ASSUME BatInv, Patches!Running
    PROVE  /\ pI \in 1 .. Len(CodeIs(pFunction))
           /\ Patches!Current = CodeIs(pFunction)[pI]
<1>1. Patches!Code = CodeIs(pFunction)
  BY Zenon DEF Patches!Code, CodeIs
<1>2. PICK n : n = Len(CodeIs(pFunction))
  OBVIOUS
<1>3. pI \in 1 .. n + 1 /\ pI <= n /\ n \in Nat
  <2>1. pFunction \in {"KernelPatches", "KernelPatchesFinal"}
    BY Zenon DEF BatInv
  <2>2. Len(CodeIs(pFunction)) \in Nat
    BY <2>1, CodesAreRight, Zenon
  <2> QED
    BY <1>1, <1>2, <2>2, Zenon DEF BatInv, Patches!Running
<1>4. pI \in 1 .. n
  BY <1>3
<1> QED
  BY <1>1, <1>2, <1>4, Zenon DEF Patches!Current

\* What an instruction does.
LEMMA Effects ==
    ASSUME BatInv, pCached \in BOOLEAN, Patches!Step, NEW c, c = CodeIs(pFunction)[pI]
    PROVE  /\ pI \in 1 .. Len(CodeIs(pFunction))
           /\ pI' = pI + 1 /\ pFunction' = pFunction /\ pLine' = pLine
           /\ pDbat0' = IF c.op = "mtdbat" THEN c.a ELSE IF c.op = "restore" THEN pSaved
                        ELSE pDbat0
           /\ pSaved' = IF c.op = "mfdbat" THEN pDbat0 ELSE pSaved
           /\ pLatest' = IF c.op = "stw" /\ Patches!LineOf(c.a) = pLine
                         THEN Patches!Put(pLatest, c.a, c.w) ELSE pLatest
           /\ pRam' = IF c.op = "dcbf" /\ Patches!LineOf(c.a) = pLine THEN pLatest ELSE pRam
           /\ pInst' = IF c.op = "icbi" /\ Patches!LineOf(c.a) = pLine THEN {} ELSE pInst
           /\ pCached' = (pCached /\ ~ (c.op = "icbi" /\ Patches!LineOf(c.a) = pLine))
<1>1. Patches!Running /\ Patches!GoOn
  BY DEF Patches!Step, Patches!SaveBat, Patches!MoveWindow, Patches!StoreWord,
         Patches!FlushLine, Patches!InvalidateLine
<1>2. pI \in 1 .. Len(CodeIs(pFunction)) /\ Patches!Current = c
  BY <1>1, Instruction, Zenon
<1>3. pI' = pI + 1 /\ pFunction' = pFunction /\ pLine' = pLine
  BY <1>1, Zenon DEF Patches!GoOn
<1>4. Patches!Here = (Patches!LineOf(c.a) = pLine)
  BY <1>2, Zenon DEF Patches!Here
<1> DEFINE E ==
       /\ pDbat0' = IF c.op = "mtdbat" THEN c.a ELSE IF c.op = "restore" THEN pSaved
                    ELSE pDbat0
       /\ pSaved' = IF c.op = "mfdbat" THEN pDbat0 ELSE pSaved
       /\ pLatest' = IF c.op = "stw" /\ Patches!LineOf(c.a) = pLine
                     THEN Patches!Put(pLatest, c.a, c.w) ELSE pLatest
       /\ pRam' = IF c.op = "dcbf" /\ Patches!LineOf(c.a) = pLine THEN pLatest ELSE pRam
       /\ pInst' = IF c.op = "icbi" /\ Patches!LineOf(c.a) = pLine THEN {} ELSE pInst
       /\ pCached' = (pCached /\ ~ (c.op = "icbi" /\ Patches!LineOf(c.a) = pLine))
<1> SUFFICES E
  BY <1>2, <1>3, Zenon DEF E
<1>5. c.op # "icbi" =>
         (pCached /\ ~ (c.op = "icbi" /\ Patches!LineOf(c.a) = pLine)) = pCached
  OBVIOUS
<1>6. CASE Patches!SaveBat
  <2>1. /\ c.op = "mfdbat" /\ pSaved' = pDbat0
        /\ UNCHANGED <<pDbat0, pLatest, pRam, pInst, pCached>>
    BY <1>2, <1>6 DEF Patches!SaveBat, Patches!memory
  <2>2. pCached' = (pCached /\ ~ (c.op = "icbi" /\ Patches!LineOf(c.a) = pLine))
    BY <1>5, <2>1
  <2> QED
    BY <2>1, <2>2
<1>7. CASE Patches!MoveWindow
  <2>1. /\ c.op \in {"mtdbat", "restore"}
        /\ pDbat0' = IF c.op = "restore" THEN pSaved ELSE c.a
        /\ UNCHANGED <<pSaved, pLatest, pRam, pInst, pCached>>
    BY <1>2, <1>7 DEF Patches!MoveWindow, Patches!memory
  <2>2. pCached' = (pCached /\ ~ (c.op = "icbi" /\ Patches!LineOf(c.a) = pLine))
    BY <1>5, <2>1
  <2> QED
    BY <2>1, <2>2
<1>8. CASE Patches!StoreWord
  <2>1. /\ c.op = "stw"
        /\ pLatest' = IF Patches!LineOf(c.a) = pLine THEN Patches!Put(pLatest, c.a, c.w) ELSE pLatest
        /\ UNCHANGED <<pDbat0, pSaved, pRam, pInst, pCached>>
    BY <1>2, <1>4, <1>8, Zenon DEF Patches!StoreWord
  <2>2. pCached' = (pCached /\ ~ (c.op = "icbi" /\ Patches!LineOf(c.a) = pLine))
    BY <1>5, <2>1
  <2> QED
    BY <2>1, <2>2
<1>9. CASE Patches!FlushLine
  <2>1. /\ c.op = "dcbf"
        /\ pRam' = IF Patches!LineOf(c.a) = pLine THEN pLatest ELSE pRam
        /\ UNCHANGED <<pDbat0, pSaved, pLatest, pInst, pCached>>
    BY <1>2, <1>4, <1>9, Zenon DEF Patches!FlushLine
  <2>2. pCached' = (pCached /\ ~ (c.op = "icbi" /\ Patches!LineOf(c.a) = pLine))
    BY <1>5, <2>1
  <2> QED
    BY <2>1, <2>2
<1>10. CASE Patches!InvalidateLine
  <2>1. /\ c.op = "icbi"
        /\ pCached' = (pCached /\ ~ (Patches!LineOf(c.a) = pLine))
        /\ pInst' = IF Patches!LineOf(c.a) = pLine THEN {} ELSE pInst
        /\ UNCHANGED <<pDbat0, pSaved, pLatest, pRam>>
    BY <1>2, <1>4, <1>10, Zenon DEF Patches!InvalidateLine
  <2> QED
    BY <2>1
<1> QED
  BY <1>6, <1>7, <1>8, <1>9, <1>10, Zenon DEF Patches!Step

\* A step of a function keeps the invariant,
LEMMA PatchGoesOn ==
    ASSUME PatchInv, Patches!Step
    PROVE  PatchInv'
<1>1. BatInv /\ LineInv /\ WordsInv /\ RestInv /\ pCached \in BOOLEAN
  BY Zenon DEF PatchInv, LineInv
<1>2. PICK f : f = pFunction
  OBVIOUS
<1>3. f \in {"KernelPatches", "KernelPatchesFinal"}
  BY <1>1, <1>2, Zenon DEF BatInv
<1>4. PICK C : C = CodeIs(f)
  OBVIOUS
<1>5. PICK c : c = C[pI]
  OBVIOUS
<1>6. /\ pI \in 1 .. Len(C)
      /\ pI' = pI + 1 /\ pFunction' = pFunction /\ pLine' = pLine
      /\ pDbat0' = IF c.op = "mtdbat" THEN c.a ELSE IF c.op = "restore" THEN pSaved ELSE pDbat0
      /\ pSaved' = IF c.op = "mfdbat" THEN pDbat0 ELSE pSaved
      /\ pLatest' = IF c.op = "stw" /\ Patches!LineOf(c.a) = pLine
                    THEN Patches!Put(pLatest, c.a, c.w) ELSE pLatest
      /\ pRam' = IF c.op = "dcbf" /\ Patches!LineOf(c.a) = pLine THEN pLatest ELSE pRam
      /\ pInst' = IF c.op = "icbi" /\ Patches!LineOf(c.a) = pLine THEN {} ELSE pInst
      /\ pCached' = (pCached /\ ~ (c.op = "icbi" /\ Patches!LineOf(c.a) = pLine))
  <2>1. c = CodeIs(pFunction)[pI]
    BY <1>2, <1>4, <1>5, Zenon
  <2> QED
    BY <1>1, <1>2, <1>4, <2>1, Effects, Zenon
<1>7. /\ Len(C) \in Nat /\ Windowed(C, BatsOf(f))
      /\ f = "KernelPatches" => OneWord(C)
      /\ f # "KernelPatches" =>
            \A k \in 1 .. Len(C) : C[k].op = "stw" => C[k].a = Patches!BranchAddr
  BY <1>3, <1>4, CodesAreRight, Zenon
<1>8. BatInv'
  <2>1. PICK B, n : B = BatsOf(f) /\ n = Len(C) /\ n \in Nat
    BY <1>7, Zenon
  <2>2. /\ \/ /\ c.op = "mfdbat" /\ pI = 1
              /\ B[pI + 1] = B[pI]
           \/ /\ c.op = "mtdbat" /\ pI > 1
              /\ B[pI + 1] = c.a
           \/ /\ c.op = "restore" /\ pI > 1
              /\ B[pI + 1] = Patches!CallersBat
           \/ /\ c.op \in {"stw", "dcbf", "icbi"} /\ pI > 1
              /\ B[pI + 1] = B[pI]
        /\ B[1] = Patches!CallersBat
    BY <1>5, <1>6, <1>7, <2>1, Zenon DEF Windowed
  <2>3. /\ pDbat0 = B[pI] /\ pSaved \in {Patches!CallersBat, 0}
        /\ pI > 1 => pSaved = Patches!CallersBat
    BY <1>1, <1>2, <2>1, Zenon DEF BatInv
  <2>4. pDbat0' = B[pI + 1] /\ pSaved' = Patches!CallersBat
    <3>1. CASE c.op = "mfdbat" /\ pI = 1 /\ B[pI + 1] = B[pI]
      BY <1>6, <2>2, <2>3, <3>1
    <3>2. CASE c.op = "mtdbat" /\ pI > 1 /\ B[pI + 1] = c.a
      BY <1>6, <2>3, <3>2
    <3>3. CASE c.op = "restore" /\ pI > 1 /\ B[pI + 1] = Patches!CallersBat
      BY <1>6, <2>3, <3>3
    <3>4. CASE c.op \in {"stw", "dcbf", "icbi"} /\ pI > 1 /\ B[pI + 1] = B[pI]
      BY <1>6, <2>3, <3>4
    <3> QED
      BY <2>2, <3>1, <3>2, <3>3, <3>4, Zenon
  <2>5. pI \in 1 .. n /\ pI' = pI + 1
    BY <1>6, <2>1, Zenon
  <2>6. pI' \in 1 .. n + 1
    <3>1. n \in Nat
      BY <2>1, Zenon
    <3> QED
      BY <2>5, <3>1
  <2>7. CodeIs(pFunction') = C /\ BatsOf(pFunction') = B
    BY <1>2, <1>4, <1>6, <2>1, Zenon
  <2>8. pI' \in 1 .. Len(CodeIs(pFunction')) + 1
    BY <2>1, <2>6, <2>7, Zenon
  <2> QED
    BY <1>2, <1>3, <1>6, <2>4, <2>7, <2>8, Zenon DEF BatInv
<1>9. LineInv'
  <2>1. pLine \in Patches!Lines /\ pLatest \cup pRam \cup pInst \subseteq Patches!WordsOf[pLine]
    BY <1>1, Zenon DEF LineInv
  <2>2. c.op = "stw" /\ Patches!LineOf(c.a) = pLine => <<c.a, c.w>> \in Patches!WordsOf[pLine]
    BY <1>3, <1>4, <1>5, <1>6, <2>1, StoresArePatches
  <2>3. pLatest' \subseteq Patches!WordsOf[pLine]
    BY <1>6, <2>1, <2>2 DEF Patches!Put
  <2>4. pRam' \subseteq Patches!WordsOf[pLine] /\ pInst' \subseteq Patches!WordsOf[pLine]
    BY <1>6, <2>1
  <2>5. pCached' \in BOOLEAN
    BY <1>6, Zenon
  <2>6. pLatest' \cup pRam' \cup pInst' \subseteq Patches!WordsOf[pLine']
    BY <1>6, <2>3, <2>4
  <2> QED
    BY <1>6, <2>1, <2>5, <2>6, Zenon DEF LineInv
<1>10. WordsInv'
  <2> SUFFICES ASSUME f = "KernelPatches"
               PROVE  Written(C, pI + 1, pLine, pLatest', pRam', pInst', pCached')
    BY <1>2, <1>4, <1>6, Zenon DEF WordsInv
  <2>1. PICK n, l, la, ra, in, ca :
           /\ n = pI /\ l = pLine /\ la = pLatest /\ ra = pRam /\ in = pInst /\ ca = pCached
    OBVIOUS
  <2>2. PICK la1, ra1, in1, ca1 :
           la1 = pLatest' /\ ra1 = pRam' /\ in1 = pInst' /\ ca1 = pCached'
    OBVIOUS
  <2>3. Written(C, n, l, la, ra, in, ca)
    BY <1>1, <1>2, <1>4, <2>1, Zenon DEF WordsInv
  <2>4. /\ n \in 1 .. Len(C) /\ ca \in BOOLEAN /\ ca1 \in BOOLEAN /\ c = C[n]
    BY <1>1, <1>5, <1>6, <2>1, <2>2, Zenon
  <2>5. /\ la1 = IF c.op = "stw" /\ Patches!LineOf(c.a) = l
                 THEN Patches!Put(la, c.a, c.w) ELSE la
        /\ ra1 = IF c.op = "dcbf" /\ Patches!LineOf(c.a) = l THEN la ELSE ra
        /\ in1 = IF c.op = "icbi" /\ Patches!LineOf(c.a) = l THEN {} ELSE in
        /\ ca1 = (ca /\ ~ (c.op = "icbi" /\ Patches!LineOf(c.a) = l))
    BY <1>6, <2>1, <2>2, Zenon
  <2>6. Written(C, n + 1, l, la1, ra1, in1, ca1)
    BY <1>7, <2>3, <2>4, <2>5, AnyInstruction, Zenon
  <2> QED
    BY <2>1, <2>2, <2>6, Zenon
<1>11. RestInv'
  <2> SUFFICES ASSUME f # "KernelPatches",
                      NEW p \in Patches!WordsOf[pLine] \cap Patches!Patches,
                      p[1] # Patches!BranchAddr
               PROVE  p \in pLatest' /\ p \in pRam' /\ (pCached' => p \in pInst')
    BY <1>2, <1>6, Zenon DEF RestInv
  <2>1. p \in pLatest /\ p \in pRam /\ (pCached => p \in pInst)
    BY <1>1, <1>2, Zenon DEF RestInv
  <2>2. c.op = "stw" => c.a = Patches!BranchAddr
    BY <1>5, <1>6, <1>7, Zenon
  <2>3. p \in pLatest'
    BY <1>6, <2>1, <2>2 DEF Patches!Put
  <2>4. p \in pRam'
    BY <1>6, <2>1
  <2>5. pCached' => p \in pInst'
    BY <1>6, <2>1, Zenon
  <2> QED
    BY <2>3, <2>4, <2>5
<1> QED
  BY <1>8, <1>9, <1>10, <1>11, Zenon DEF PatchInv

\* and so does whatever the caches and the other cores do.
LEMMA CachesGoOn ==
    ASSUME PatchInv, Patches!Hardware
    PROVE  PatchInv'
<1>1. BatInv /\ LineInv /\ WordsInv /\ RestInv
  BY Zenon DEF PatchInv
<1>2. UNCHANGED <<pFunction, pI, pDbat0, pSaved, pLine, pLatest>>
  BY DEF Patches!Hardware, Patches!Evict, Patches!Execute, Patches!Drop
<1>3. \/ pRam' = pLatest /\ pInst' = pInst /\ pCached' = pCached
      \/ pRam' = pRam /\ pInst' = pRam /\ pCached' = TRUE
      \/ pRam' = pRam /\ pInst' = {} /\ pCached' = FALSE
  BY DEF Patches!Hardware, Patches!Evict, Patches!Execute, Patches!Drop
<1>4. BatInv'
  BY <1>1, <1>2, Zenon DEF BatInv
<1>5. LineInv'
  BY <1>1, <1>2, <1>3 DEF LineInv
<1>6. WordsInv'
  <2> SUFFICES ASSUME pFunction = "KernelPatches"
               PROVE  Written(CodeIs(pFunction), pI, pLine, pLatest, pRam', pInst', pCached')
    BY <1>2, Zenon DEF WordsInv
  <2>1. PICK C, n, l, la, ra, in, ca :
           /\ C = CodeIs(pFunction) /\ n = pI /\ l = pLine
           /\ la = pLatest /\ ra = pRam /\ in = pInst /\ ca = pCached
    OBVIOUS
  <2>2. Written(C, n, l, la, ra, in, ca) /\ ca \in BOOLEAN
    BY <1>1, <2>1, Zenon DEF WordsInv, LineInv
  <2>3. Len(C) \in Nat
    BY <1>1, <2>1, CodesAreRight, Zenon DEF BatInv
  <2>4. n \in Nat
    <3>1. PICK N : N = Len(C)
      OBVIOUS
    <3>2. n \in 1 .. N + 1 /\ N \in Nat
      BY <1>1, <2>1, <2>3, <3>1, Zenon DEF BatInv
    <3> QED
      BY <3>2
  <2>5. /\ Written(C, n, l, la, la, in, ca)
        /\ Written(C, n, l, la, ra, ra, TRUE)
        /\ Written(C, n, l, la, ra, {}, FALSE)
    BY <2>2, <2>3, <2>4, AnyCache, Zenon
  <2> QED
    BY <1>3, <2>1, <2>5, Zenon
<1>7. RestInv'
  BY <1>1, <1>2, <1>3, Zenon DEF RestInv
<1> QED
  BY <1>4, <1>5, <1>6, <1>7, Zenon DEF PatchInv

\* As the functions are called.
LEMMA PatchBegins ==
    ASSUME Patches!Init
    PROVE  PatchInv
<1>1. pFunction \in {"KernelPatches", "KernelPatchesFinal"} /\ pI = 1 /\ pSaved = 0
  BY DEF Patches!Init
<1>2. PICK C, B, n : C = CodeIs(pFunction) /\ B = BatsOf(pFunction) /\ n = Len(C)
  OBVIOUS
<1>3. n \in Nat /\ B[1] = Patches!CallersBat
  <2>1. Windowed(C, B)
    BY <1>1, <1>2, CodesAreRight, Zenon
  <2> QED
    BY <1>2, <2>1, Zenon DEF Windowed
<1>4. BatInv
  <2>1. pI \in 1 .. n + 1 /\ ~ (pI > 1)
    BY <1>1, <1>3
  <2>2. pDbat0 = Patches!CallersBat
    BY DEF Patches!Init
  <2> QED
    BY <1>1, <1>2, <1>3, <2>1, <2>2 DEF BatInv
<1>5. /\ pLine \in Patches!Lines /\ pCached \in BOOLEAN
      /\ pLatest = Patches!Before(pFunction, pLine) /\ pRam = pLatest
      /\ pInst = IF pCached THEN pRam ELSE {}
  BY DEF Patches!Init
<1>6. LineInv
  <2>1. Patches!Before(pFunction, pLine) \subseteq Patches!WordsOf[pLine]
    BY DEF Patches!Before
  <2> QED
    BY <1>5, <2>1 DEF LineInv
<1>7. WordsInv
  <2>1. \A k \in 1 .. n : ~ (k < pI)
    BY <1>1, <1>3
  <2> QED
    BY <1>2, <2>1, Zenon DEF WordsInv, Written
<1>8. RestInv
  <2> SUFFICES ASSUME pFunction # "KernelPatches",
                      NEW p \in Patches!WordsOf[pLine] \cap Patches!Patches
               PROVE  p \in pLatest /\ p \in pRam /\ (pCached => p \in pInst)
    BY Zenon DEF RestInv
  <2>1. Patches!Before(pFunction, pLine) = Patches!WordsOf[pLine] \cap Patches!Patches
    BY Zenon DEF Patches!Before
  <2> QED
    BY <1>5, <2>1
<1> QED
  BY <1>4, <1>6, <1>7, <1>8, Zenon DEF PatchInv

\* The patch functions and the caches keep the invariant whichever side runs.
LEMMA PatchInvHolds == AnySpec => []PatchInv
<1>1. AnyInit => PatchInv
  BY PatchBegins, Zenon DEF AnyInit
<1>2. PatchInv /\ [AnyNext]_all => PatchInv'
  <2> SUFFICES ASSUME PatchInv, [AnyNext]_all PROVE PatchInv'
    OBVIOUS
  <2>1. CASE Patches!Step
    BY <2>1, PatchGoesOn, Zenon
  <2>2. CASE Patches!Hardware
    BY <2>2, CachesGoOn, Zenon
  <2>3. CASE UNCHANGED patches
    BY <2>3 DEF patches, PatchInv, BatInv, LineInv, WordsInv, RestInv
  <2> QED
    BY <2>1, <2>2, <2>3 DEF AnyNext, SetupStep, PatchesStep, HookStep, all
<1> QED
  BY <1>1, <1>2, PTL DEF AnySpec

\* When a function has returned, all it stored is where it has to be.
LEMMA AllArrived ==
    ASSUME PatchInv, Patches!Returned, pFunction = "KernelPatches",
           NEW p \in Patches!WordsOf[pLine] \cap Patches!Patches
    PROVE  p \in pRam /\ (pCached => p \in pInst)
<1>1. PICK C, n, l : C = CodeIs(pFunction) /\ n = Len(C) /\ l = pLine
  OBVIOUS
<1>2. C = Patches!KernelPatches /\ C = Patches!Code
  BY <1>1, Zenon DEF CodeIs, Patches!Code
<1>3. /\ DOMAIN C = 1 .. n /\ n \in Nat /\ Tended(C)
  BY <1>1, CodesAreRight, Zenon
<1>4. pI = n + 1
  <2>1. pI \in 1 .. n + 1 /\ pI > n
    BY <1>1, <1>2, Zenon DEF PatchInv, BatInv, Patches!Returned
  <2> QED
    BY <1>3, <2>1
<1>5. PICK k \in 1 .. n : C[k].op = "stw" /\ p = <<C[k].a, C[k].w>>
  <2>1. p \in Patches!Stored(C)
    BY <1>2, Zenon DEF Patches!Patches
  <2> QED
    BY <1>3, <2>1 DEF Patches!Stored
<1>6. Patches!LineOf(C[k].a) = l
  <2>1. pLine \in Patches!Lines
    BY Zenon DEF PatchInv, LineInv
  <2>2. Patches!LineOf(p[1]) = pLine
    BY <2>1 DEF Patches!WordsOf
  <2>3. p[1] = C[k].a
    BY <1>5
  <2> QED
    BY <1>1, <2>2, <2>3, Zenon
<1>7. TendedAt(C, n, k)
  BY <1>1, <1>3, <1>5, Zenon DEF Tended
<1>8. PICK m \in 1 .. n, q \in 1 .. n :
         /\ k < m /\ m < q
         /\ C[m].op = "dcbf" /\ Patches!LineOf(C[m].a) = l
         /\ C[q].op = "icbi" /\ Patches!LineOf(C[q].a) = l
  BY <1>6, <1>7, Zenon DEF TendedAt
<1>9. k < n + 1 /\ m < n + 1 /\ q < n + 1
  BY <1>3
<1>10. FlushedBy(C, k, n + 1, l) /\ AgainBy(C, k, n + 1, l)
  BY <1>1, <1>8, <1>9, Zenon DEF FlushedBy, AgainBy
<1>11. Written(C, n + 1, l, pLatest, pRam, pInst, pCached)
  BY <1>1, <1>4, Zenon DEF PatchInv, WordsInv
<1>12. Arrived(C, k, n + 1, l, pLatest, pRam, pInst, pCached)
  BY <1>1, <1>5, <1>6, <1>9, <1>11, Zenon DEF Written
<1> QED
  BY <1>5, <1>10, <1>12, Zenon DEF Arrived

(***************************************************************************)
(* The patch functions reach memory only through the window of the moment, *)
(* give DBAT0 back, and leave every patch where all cores fetch it, for    *)
(* any addresses that keep PatchesAssumption, any number of nops, and      *)
(* whatever the caches write back, fill or drop in between.                *)
(***************************************************************************)
THEOREM PatchesAlwaysLand == AnySpec => []PatchesLand
<1>1. PatchInv => PatchesLand
  <2> SUFFICES ASSUME PatchInv
               PROVE  /\ Patches!TypeOK /\ Patches!AccessesMapped /\ Patches!BatGivenBack
                      /\ Patches!PatchesVisible /\ Patches!RestStays
    BY Zenon DEF PatchesLand
  <2>1. /\ BatInv /\ LineInv /\ WordsInv /\ RestInv
        /\ pFunction \in {"KernelPatches", "KernelPatchesFinal"}
    BY Zenon DEF PatchInv, BatInv
  <2>2. Patches!PatchesAssumption
    BY SidesAssumption, Zenon DEF SidesAssumption
  <2>3. {HookAddr, Window, FarWindow, WindowSize} \subseteq Nat
    BY <2>2, Zenon DEF Patches!PatchesAssumption
  <2>4. PICK C, B, n : C = CodeIs(pFunction) /\ B = BatsOf(pFunction) /\ n = Len(C)
    OBVIOUS
  <2>5. C = Patches!Code
    BY <2>4, Zenon DEF CodeIs, Patches!Code
  <2>6. Windowed(C, B) /\ n \in Nat
    BY <2>1, <2>4, CodesAreRight, Zenon
  <2>7. pI \in 1 .. n + 1 /\ pDbat0 = B[pI]
    BY <2>1, <2>4, Zenon DEF BatInv
  <2>8. pDbat0 \in {Patches!CallersBat, Window, FarWindow}
    BY <2>4, <2>6, <2>7, Zenon DEF Windowed
  <2>9. Patches!TypeOK
    <3>1. pI \in 1 .. Len(Patches!Code) + 1
      BY <2>4, <2>5, <2>7, Zenon
    <3>2. pSaved \in {Patches!CallersBat, 0}
      BY <2>1, Zenon DEF BatInv
    <3>3. {pDbat0, pSaved} \subseteq {Patches!CallersBat, 0, Window, FarWindow}
      BY <2>8, <3>2
    <3> QED
      BY <2>1, <3>1, <3>3, Zenon DEF LineInv, Patches!TypeOK
  <2>10. Patches!AccessesMapped
    <3> SUFFICES ASSUME Patches!Running, Patches!Current.op \in {"stw", "dcbf", "icbi"}
                 PROVE  pDbat0 # Patches!CallersBat
                        /\ Patches!Current.a \in pDbat0 .. pDbat0 + WindowSize - 1
      BY Zenon DEF Patches!AccessesMapped
    <3>1. PICK c : c = C[pI]
      OBVIOUS
    <3>2. pI \in 1 .. n /\ Patches!Current = c
      BY <2>1, <2>4, <3>1, Instruction, Zenon
    <3>3. \/ c.op = "mfdbat" \/ c.op = "mtdbat" \/ c.op = "restore"
          \/ /\ B[pI] \in {Window, FarWindow} /\ c.a \in Nat
             /\ B[pI] <= c.a /\ c.a < B[pI] + WindowSize
      BY <2>4, <2>6, <3>1, <3>2, Zenon DEF Windowed
    <3>4. c.op \in {"stw", "dcbf", "icbi"}
      BY <3>2, Zenon
    <3>5. /\ pDbat0 \in {Window, FarWindow} /\ c.a \in Nat
          /\ pDbat0 <= c.a /\ c.a < pDbat0 + WindowSize
      BY <2>7, <3>3, <3>4
    <3>6. pDbat0 # Patches!CallersBat /\ c.a \in pDbat0 .. pDbat0 + WindowSize - 1
      BY <2>3, <3>5 DEF Patches!CallersBat
    <3> QED
      BY <3>2, <3>6, Zenon
  <2>11. Patches!BatGivenBack
    <3> SUFFICES ASSUME Patches!Returned PROVE pDbat0 = Patches!CallersBat
      BY Zenon DEF Patches!BatGivenBack
    <3>1. pI > n
      BY <2>4, <2>5, Zenon DEF Patches!Returned
    <3>2. pI = n + 1
      BY <2>6, <2>7, <3>1
    <3> QED
      BY <2>4, <2>6, <2>7, <3>2, Zenon DEF Windowed
  <2>12. Patches!PatchesVisible
    BY AllArrived DEF Patches!PatchesVisible, Patches!Fetch
  <2>13. Patches!RestStays
    BY <2>1, Zenon DEF RestInv, Patches!RestStays, Patches!Fetch
  <2> QED
    BY <2>9, <2>10, <2>11, <2>12, <2>13
<1> QED
  BY <1>1, PatchInvHolds, PTL
=============================================================================
