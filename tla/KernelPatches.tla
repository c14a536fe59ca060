---------------------------- MODULE KernelPatches ----------------------------
(***************************************************************************)
(* The two functions syscall 0x36 runs in the kernel, instruction by       *)
(* instruction: KernelPatches writes the stub and nine nops through a      *)
(* window that DBAT0 is set to and moves, KernelPatchesFinal writes the    *)
(* stub's branch anew.  Stores go to the data cache, instructions are      *)
(* fetched from the instruction cache or from memory, and the other cores  *)
(* keep running the kernel meanwhile.                                      *)
(*                                                                         *)
(* Lines do not touch each other: the model watches one of them, any.  A   *)
(* line is the set of words patched in it, <<address, what>>.  Addresses   *)
(* are those of the code, less 0xFFE00000.                                 *)
(***************************************************************************)
EXTENDS Integers, Sequences, Functions

CONSTANTS
    HookAddr,   \* BAT_SETUP_HOOK_ADDR
    Nops,       \* BAT_SET_NOP_ADDR_1 .. 7, in the order they are written
    FarNops,    \* BAT_SET_NOP_ADDR_8 and 9
    Window,     \* what DBAT0 is set to: 0xFFF0 as the upper half
    FarWindow,  \* and 0xFFEE
    WindowSize  \* of a BAT without length bits

VARIABLES
    function,   \* KernelPatches or KernelPatchesFinal
    i,          \* its next instruction
    dbat0,      \* where DBAT0 maps, -1 if it is as the caller had it
    saved,      \* r5 and r6
    line,       \* the line that is watched:
    latest,     \* what a load reads there,
    ram,        \* what memory has
    inst,       \* and what the instruction cache has,
    cached      \* if it has the line

memory == <<latest, ram, inst, cached>>
vars == <<function, i, dbat0, saved, line, memory>>

CallersBat == -1
LineOf(a) == a - (a % 32)
StubWords == [k \in 1 .. 10 |-> HookAddr + 4 * (k - 1)]
BranchAddr == HookAddr + 36
Lines == {LineOf(a) : a \in Range(StubWords) \cup Range(Nops) \cup Range(FarNops)}

\* What the addresses are chosen for: the stub ends in the second line, which is
\* flushed as well, is not patched twice, and everything lies in its window.
PatchesAssumption ==
    /\ {HookAddr, Window, FarWindow, WindowSize} \subseteq Nat
    /\ Nops \in Seq(Nat) /\ FarNops \in Seq(Nat)
    /\ HookAddr % 32 < 28
    /\ Range(StubWords) \cap (Range(Nops) \cup Range(FarNops)) = {}
    /\ Window <= LineOf(HookAddr) /\ LineOf(HookAddr + 64) < Window + WindowSize
    /\ \A a \in Range(Nops) : Window <= a /\ a < Window + WindowSize
    /\ \A a \in Range(FarNops) : FarWindow <= a /\ a < FarWindow + WindowSize
-----------------------------------------------------------------------------
Ins(op, a, w) == [op |-> op, a |-> a, w |-> w]
Stw(a, w) == Ins("stw", a, w)
Dcbf(a)   == Ins("dcbf", a, "")
Icbi(a)   == Ins("icbi", a, "")
SetDbat0(base) == Ins("mtdbat", base, "")
Store   == Ins("mfdbat", 0, "")     \* "store the old DBAT0"
Restore == Ins("restore", 0, "")

\* (X_Suffix is X with a bug, here and below; nothing uses it.)
SET_R4_TO_ADDR_NotFlushed(a) == <<Stw(a, "nop"), Icbi(a), Icbi(a)>>
SET_R4_TO_ADDR(a) == <<Stw(a, "nop"), Dcbf(a), Icbi(a)>>
SetNops(addrs) ==
    [k \in 1 .. 3 * Len(addrs) |-> SET_R4_TO_ADDR(addrs[(k + 2) \div 3])[((k + 2) % 3) + 1]]

Flush(a) == <<Dcbf(LineOf(a)), Icbi(LineOf(a))>>
WriteStub == [k \in 1 .. 10 |-> Stw(StubWords[k], "stub")]

NopsOfFirmware == SetNops(Nops) \o <<SetDbat0(FarWindow)>> \o SetNops(FarNops)

Body(stores) == <<Store, SetDbat0(Window)>> \o stores \o <<Restore>>

KernelPatches ==
    Body(WriteStub \o Flush(HookAddr) \o Flush(HookAddr + 32) \o NopsOfFirmware)
KernelPatchesFinal ==
    Body(<<Stw(BranchAddr, "final")>> \o Flush(HookAddr) \o Flush(HookAddr + 64))

Code == IF function = "KernelPatches" THEN KernelPatches ELSE KernelPatchesFinal

\* The words a function stores, and those of each line.
Stored(code) == {<<code[k].a, code[k].w>> : k \in {m \in DOMAIN code : code[m].op = "stw"}}
Patches == Stored(KernelPatches)
FinalPatches == Stored(KernelPatchesFinal)
WordsOf == [l \in Lines |-> {p \in Patches \cup FinalPatches : LineOf(p[1]) = l}]
-----------------------------------------------------------------------------
\* KernelPatchesFinal runs after KernelPatches, whose patches are in memory.
Before(f, l) ==
    IF f = "KernelPatches" THEN {}
    ELSE WordsOf[l] \cap Patches

Init ==
    /\ function \in {"KernelPatches", "KernelPatchesFinal"}
    /\ i = 1
    /\ dbat0 = CallersBat
    /\ saved = 0
    /\ line \in Lines
    /\ latest = Before(function, line)
    /\ ram = latest
    /\ cached \in BOOLEAN
    /\ inst = IF cached THEN ram ELSE {}

Running == i <= Len(Code)
Current == Code[i]
GoOn == i' = i + 1 /\ UNCHANGED <<function, line>>
Here == LineOf(Current.a) = line

SaveBat ==
    /\ Running /\ Current.op = "mfdbat" /\ GoOn
    /\ saved' = dbat0
    /\ UNCHANGED <<dbat0, memory>>

\* The two halves are written one after the other, with no access in between.
MoveWindow ==
    /\ Running /\ Current.op \in {"mtdbat", "restore"} /\ GoOn
    /\ dbat0' = IF Current.op = "restore" THEN saved ELSE Current.a
    /\ UNCHANGED <<saved, memory>>

Put(words, a, w) == {p \in words : p[1] # a} \cup {<<a, w>>}

StoreWord ==
    /\ Running /\ Current.op = "stw" /\ GoOn
    /\ latest' = IF Here THEN Put(latest, Current.a, Current.w) ELSE latest
    /\ UNCHANGED <<dbat0, saved, ram, inst, cached>>

FlushLine ==
    /\ Running /\ Current.op = "dcbf" /\ GoOn
    /\ ram' = IF Here THEN latest ELSE ram
    /\ UNCHANGED <<dbat0, saved, latest, inst, cached>>

InvalidateLine ==
    /\ Running /\ Current.op = "icbi" /\ GoOn
    /\ cached' = (cached /\ ~Here)
    /\ inst' = IF Here THEN {} ELSE inst
    /\ UNCHANGED <<dbat0, saved, latest, ram>>

Step == SaveBat \/ MoveWindow \/ StoreWord \/ FlushLine \/ InvalidateLine
-----------------------------------------------------------------------------
\* The data cache writes the line back, a core executes it, or it is dropped.
Evict ==
    /\ ram # latest
    /\ ram' = latest
    /\ UNCHANGED <<function, i, dbat0, saved, line, latest, inst, cached>>

Execute ==
    /\ ~cached
    /\ cached' = TRUE
    /\ inst' = ram
    /\ UNCHANGED <<function, i, dbat0, saved, line, latest, ram>>

Drop ==
    /\ cached
    /\ cached' = FALSE
    /\ inst' = {}
    /\ UNCHANGED <<function, i, dbat0, saved, line, latest, ram>>

Hardware == Evict \/ Execute \/ Drop

Next == Step \/ Hardware

\* Interrupts are off; nothing is assumed of the caches.
Spec == Init /\ [][Next]_vars
-----------------------------------------------------------------------------
Returned == i > Len(Code)
Fetch == IF cached THEN inst ELSE ram

TypeOK ==
    /\ function \in {"KernelPatches", "KernelPatchesFinal"}
    /\ i \in 1 .. Len(Code) + 1
    /\ {dbat0, saved} \subseteq {CallersBat, 0, Window, FarWindow}
    /\ line \in Lines
    /\ latest \cup ram \cup inst \subseteq WordsOf[line]
    /\ cached \in BOOLEAN

(***************************************************************************)
(* "setup DBAT0 for access to kernel code memory": whatever is stored to,  *)
(* flushed or invalidated is in the window of the moment; outside of it    *)
(* the kernel would die of the access.                                     *)
(***************************************************************************)
AccessesMapped ==
    Running /\ Current.op \in {"stw", "dcbf", "icbi"} =>
        dbat0 # CallersBat /\ Current.a \in dbat0 .. dbat0 + WindowSize - 1

\* "restore DBAT 0 and return from interrupt": the caller gets its DBAT0 back.
BatGivenBack == Returned => dbat0 = CallersBat

(***************************************************************************)
(* When KernelPatches returns, every core that comes to one of the patched *)
(* places fetches the patch: no core can take IBAT4 or DBAT5 away again.   *)
(***************************************************************************)
PatchesVisible ==
    Returned /\ function = "KernelPatches" =>
        WordsOf[line] \cap Patches \subseteq Fetch

(***************************************************************************)
(* KernelPatchesFinal leaves what it does not store as it is: what a core  *)
(* fetches is as KernelPatches left it but for the branch.                 *)
(***************************************************************************)
RestStays ==
    function = "KernelPatchesFinal" =>
        \A p \in WordsOf[line] \cap Patches : p[1] # BranchAddr => p \in Fetch
===============================================================================
