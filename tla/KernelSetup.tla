---------------------------- MODULE KernelSetup ----------------------------
(***************************************************************************)
(* The kernel patches _start installs (doKernelSetup, doKernelSetup2) and  *)
(* the one it takes back when loading fails (revertMainHook), seen through *)
(* the caches: a store is in the data cache until it is flushed or         *)
(* evicted, instructions are fetched from the instruction cache or from    *)
(* memory, and the other cores keep running kernel code meanwhile.         *)
(*                                                                         *)
(* Memory is modelled by cache line.  Of each line only what matters is    *)
(* kept: who wrote its instructions.  icbi is taken to reach every core,   *)
(* so there is one instruction cache.                                      *)
(***************************************************************************)
EXTENDS Integers, Sequences

CONSTANTS
    TableCount,     \* KERN_SYSCALL_TBL_1 .. KERN_SYSCALL_TBL_5
    HookAddr,       \* BAT_SETUP_HOOK_ADDR
    HookFunction,   \* SaveAndResetDataBATs_And_SRs_hook, first in .kernel_code
    InterimEntry,   \* BAT_SETUP_HOOK_ENTRY of kernel_asm.S
    FinalEntry,     \* BAT_SETUP_HOOK_ENTRY of kernel_asm_other.S
    MainHook        \* the hooked instruction that starts the loader

ASSUME SetupAssumption ==
    /\ TableCount \in Nat \ {0}
    /\ {HookAddr, HookFunction, InterimEntry, FinalEntry, MainHook} \subseteq Nat

VARIABLES
    pc,         \* the step of _start
    t,          \* the table kern_write is at
    todo,       \* cache instructions still to be executed, before pc goes on
    syscall36,  \* handler of syscall 0x36 in each table
    syscall25,  \* handler of syscall 0x25 in each table
    active,     \* the table the calling process uses
    ram,        \* the lines in memory,
    dcache,     \* in the data cache (Clean if memory has the latest),
    icache      \* and in the instruction cache (Absent if fetched next time)

control == <<pc, t, todo>>
handlers == <<syscall36, syscall25, active>>
memory == <<ram, dcache, icache>>
vars == <<control, handlers, memory>>

Clean  == "clean"
Absent == "absent"
Tables == 1 .. TableCount
LineOf(a) == a - (a % 32)

\* The ten instructions of the stub, the last of which branches to the hook.
StubLines  == {LineOf(HookAddr + 4 * k) : k \in 0 .. 9}
BranchLine == LineOf(HookAddr + 36)
PageLine   == LineOf(FinalEntry)
MainLine   == LineOf(MainHook)
Lines      == StubLines \cup {PageLine, MainLine}

\* The stub is in two lines, and the hook's page and the main hook are elsewhere.
ASSUME LinesAssumption ==
    /\ StubLines = {LineOf(HookAddr), BranchLine}
    /\ BranchLine = LineOf(HookAddr + 32) /\ BranchLine # LineOf(HookAddr)
    /\ {PageLine, MainLine} \cap StubLines = {} /\ PageLine # MainLine

Original(l) == IF l = MainLine THEN "hooked"
               ELSE IF l = PageLine THEN "other" ELSE "kernel"
Contents == {"kernel", "bat", "interim", "final", "other", "hook", "hooked", "plain"}

\* What a load reads, and what an instruction fetch may read.
Latest(l) == IF dcache[l] = Clean THEN ram[l] ELSE dcache[l]
Fetch(l)  == IF icache[l] = Absent THEN ram[l] ELSE icache[l]

Init ==
    /\ pc = "tables1"
    /\ t = 1
    /\ todo = <<>>
    /\ syscall36 = [i \in Tables |-> "original"]
    /\ syscall25 = [i \in Tables |-> "original"]
    /\ active \in Tables
    /\ ram = [l \in Lines |-> Original(l)]
    /\ dcache = [l \in Lines |-> Clean]
    /\ icache \in {f \in [Lines -> Contents \cup {Absent}] :
                      \A l \in Lines : f[l] \in {Absent, Original(l)}}

At(p) == pc = p /\ todo = <<>>
GoTo(p, ops) == pc' = p /\ todo' = ops /\ UNCHANGED t

\* Stores go to the data cache.
Store(contents) ==
    /\ dcache' = [l \in Lines |-> IF l \in DOMAIN contents THEN contents[l]
                                  ELSE dcache[l]]
    /\ UNCHANGED <<ram, icache>>

\* The flush sequences of the code, one cache instruction at a time.
\* (X_Suffix is X with a bug, here and below; no action uses it.)
Ops(a) == <<[op |-> "dcbf", line |-> LineOf(a)], [op |-> "icbi", line |-> LineOf(a)]>>
FlushInterim_Far == Ops(HookAddr) \o Ops(HookAddr + 64)
FlushInterim == Ops(HookAddr) \o Ops(HookAddr + 32)
FlushFinal   == Ops(HookAddr) \o Ops(HookAddr + 64)
\* doKernelSetup2 invalidates before it flushes.
FlushPage_InvalidateOnly == <<[op |-> "icbi", line |-> PageLine]>>
FlushPage    == <<[op |-> "icbi", line |-> PageLine], [op |-> "dcbf", line |-> PageLine]>>
FlushMain_Reversed == <<[op |-> "icbi", line |-> MainLine], [op |-> "dcbf", line |-> MainLine]>>
FlushMain    == Ops(MainHook)

CacheOp ==
    /\ todo # <<>>
    /\ LET l == Head(todo).line IN
       IF l \notin Lines
         THEN UNCHANGED memory
         ELSE IF Head(todo).op = "dcbf"
                THEN /\ ram' = [ram EXCEPT ![l] = Latest(l)]
                     /\ dcache' = [dcache EXCEPT ![l] = Clean]
                     /\ UNCHANGED icache
                ELSE /\ icache' = [icache EXCEPT ![l] = Absent]
                     /\ UNCHANGED <<ram, dcache>>
    /\ todo' = Tail(todo)
    /\ UNCHANGED <<pc, t, handlers>>
-----------------------------------------------------------------------------
\* kern_write puts a handler into one table after the other.
LastTable_Missed == TableCount - 1
LastTable_Beyond == TableCount + 1
LastTable == TableCount

WriteTable(p, table, handler, next) ==
    /\ At(p)
    /\ table' = [table EXCEPT ![t] = handler]
    /\ IF t < LastTable THEN t' = t + 1 /\ UNCHANGED pc
                        ELSE t' = 1 /\ pc' = next
    /\ UNCHANGED <<todo, active, memory>>

WritePatches ==
    WriteTable("tables1", syscall36, "KernelPatches", "syscall1") /\ UNCHANGED syscall25
WriteFinal ==
    WriteTable("tables2", syscall36, "KernelPatchesFinal", "syscall2") /\ UNCHANGED syscall25
WriteCopy ==
    WriteTable("tables3", syscall25, "SCKernelCopyData", "ready") /\ UNCHANGED syscall36

\* Syscall_0x36: KernelPatches stores the stub, flushes it and returns.
CallPatches ==
    /\ At("syscall1")
    /\ IF syscall36[active] = "KernelPatches"
         THEN /\ Store([l \in StubLines |-> IF l = BranchLine THEN "interim" ELSE "bat"])
              /\ GoTo("setup2", FlushInterim)
         ELSE GoTo("setup2", <<>>) /\ UNCHANGED memory
    /\ UNCHANGED handlers

\* InitFunctionPointers runs in between; then the hook is copied to its page.
CopyHook ==
    /\ At("setup2")
    /\ Store([l \in {PageLine} |-> "hook"])
    /\ GoTo("tables2", FlushPage)
    /\ UNCHANGED handlers

\* Syscall_0x36 again: KernelPatchesFinal redirects the branch.
CallFinal ==
    /\ At("syscall2")
    /\ IF syscall36[active] = "KernelPatchesFinal"
         THEN /\ Store([l \in {BranchLine} |-> "final"])
              /\ GoTo("tables3", FlushFinal)
         ELSE GoTo("tables3", <<>>) /\ UNCHANGED memory
    /\ UNCHANGED handlers

\* do_start loads the module and enters it, or reverts the main hook.
Loaded ==
    /\ At("ready")
    /\ GoTo("entered", <<>>)
    /\ UNCHANGED <<handlers, memory>>

\* KernelWriteU32: the kernel copies the word, then its line is flushed.
RevertMainHook ==
    /\ At("ready")
    /\ IF syscall25[active] = "SCKernelCopyData"
         THEN Store([l \in {MainLine} |-> "plain"])
         ELSE UNCHANGED memory
    /\ GoTo("reverted", FlushMain)
    /\ UNCHANGED handlers

Loader ==
    \/ WritePatches \/ CallPatches \/ CopyHook \/ WriteFinal \/ CallFinal \/ WriteCopy
    \/ Loaded \/ RevertMainHook \/ CacheOp
-----------------------------------------------------------------------------
\* A modified line may be written back at any time.
Evict(l) ==
    /\ dcache[l] # Clean
    /\ ram' = [ram EXCEPT ![l] = dcache[l]]
    /\ dcache' = [dcache EXCEPT ![l] = Clean]
    /\ UNCHANGED <<control, handlers, icache>>

\* A core executes a line: it is in the instruction cache from then on.
Executable(l) == l # PageLine \/ Fetch(BranchLine) = "final"
Execute(l) ==
    /\ icache[l] = Absent
    /\ Executable(l)
    /\ icache' = [icache EXCEPT ![l] = ram[l]]
    /\ UNCHANGED <<control, handlers, ram, dcache>>

\* The instruction cache may lose a line at any time.
Drop(l) ==
    /\ icache[l] # Absent
    /\ icache' = [icache EXCEPT ![l] = Absent]
    /\ UNCHANGED <<control, handlers, ram, dcache>>

Hardware == \E l \in Lines : Evict(l) \/ Execute(l) \/ Drop(l)

Next == Loader \/ Hardware

\* Nothing is assumed of the caches.
Spec == Init /\ [][Next]_vars
-----------------------------------------------------------------------------
CacheOps == [op : {"dcbf", "icbi"}, line : Nat]
PCs == {"tables1", "syscall1", "setup2", "tables2", "syscall2", "tables3",
        "ready", "entered", "reverted"}

TypeOK ==
    /\ pc \in PCs
    /\ t \in Tables
    /\ todo \in Seq(CacheOps)
    /\ syscall36 \in [Tables -> {"original", "KernelPatches", "KernelPatchesFinal"}]
    /\ syscall25 \in [Tables -> {"original", "SCKernelCopyData"}]
    /\ active \in Tables
    /\ ram \in [Lines -> Contents]
    /\ dcache \in [Lines -> Contents \cup {Clean}]
    /\ icache \in [Lines -> Contents \cup {Absent}]

Interim == pc \in {"setup2", "tables2", "syscall2"} /\ todo = <<>>
Final   == pc \in {"tables3", "ready", "entered", "reverted"} /\ todo = <<>>

(***************************************************************************)
(* Once KernelPatches has returned, every core that fetches the stub gets  *)
(* what KernelPatches stored, whatever the caches did meanwhile.           *)
(***************************************************************************)
InterimStubVisible ==
    Interim => \A l \in StubLines :
        Fetch(l) = IF l = BranchLine THEN "interim" ELSE "bat"

(***************************************************************************)
(* No core is ever sent to 0x00FFF000 before the hook can be fetched       *)
(* there, although doKernelSetup2 invalidates the instruction cache before *)
(* it flushes the copy out of the data cache.                              *)
(***************************************************************************)
PageReadyBeforeBranch == Fetch(BranchLine) = "final" => Fetch(PageLine) = "hook"

(***************************************************************************)
(* Whichever system call table the process uses, when the setup is done    *)
(* the branch to the final hook has been stored, and the copy system call  *)
(* that revertMainHook needs is there.                                     *)
(***************************************************************************)
SetupWorksWithAnyTable ==
    pc \in {"ready", "entered"} =>
        Latest(BranchLine) = "final" /\ syscall25[active] = "SCKernelCopyData"

\* After a failed load no core can fetch the hook that starts the loader.
MainHookGone == pc = "reverted" /\ todo = <<>> => Fetch(MainLine) = "plain"

(***************************************************************************)
(* "flush and invalidate the replaced instructions": once                  *)
(* KernelPatchesFinal has returned, the instruction it replaced is the one *)
(* that is fetched.                                                        *)
(***************************************************************************)
FinalStubVisible == Final => Fetch(BranchLine) = "final"

(***************************************************************************)
(* "make the kernel setup our section in IBAT4 and jump to our function to *)
(* restore the replaced instructions": while the stub branches to the      *)
(* interim entry, the hook function is there.                              *)
(***************************************************************************)
BranchReachesFunction == Fetch(BranchLine) = "interim" => InterimEntry = HookFunction
=============================================================================
