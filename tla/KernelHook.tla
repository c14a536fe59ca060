------------------------------ MODULE KernelHook ------------------------------
(***************************************************************************)
(* What a core does when it runs into the stub in the kernel's             *)
(* SaveAndResetDataBATs_And_SRs: the ten instructions the stub replaces    *)
(* reload registers from the context r3 points to; the stub sets up IBAT4  *)
(* instead and calls the hook, which sets up DBAT5, makes up for the ten   *)
(* instructions and returns behind them.                                   *)
(*                                                                         *)
(* A value is <<what, offset>>: only where it came from matters.  A core   *)
(* finds all of the stub or nothing of it, and the branch goes to where    *)
(* the hook function is; KernelSetup is about when that is so.             *)
(***************************************************************************)
EXTENDS Integers, Sequences

CONSTANT ContextWords   \* the context's words, by their offset from r3

ContextAssumption == ContextWords \subseteq Nat

VARIABLES
    code,       \* "kernel" or "stub", whichever the core found, "hook", "back" or "lost"
    i,          \* the next instruction there
    reg,        \* r3 and r5 .. r11
    lr,
    ctr,
    spr,        \* IBAT4U, IBAT4L, DBAT5U and DBAT5L: 560, 561, 570 and 571
    sr7,
    patched     \* whether the core has run the stub before

vars == <<code, i, reg, lr, ctr, spr, sr7, patched>>

Registers == {3} \cup 5 .. 11
IBAT4     == <<560, 561>>
DBAT5     == <<570, 571>>
Bats      == {560, 561, 570, 571}

Context == <<"context", 0>>
Caller  == <<"caller", 0>>      \* where the kernel's function returns to
Behind  == <<"behind", 0>>      \* the instruction behind the stub
Unknown == <<"unknown", 0>>
BAT4U   == <<"BAT4U_VAL", 0>>
BAT4L   == <<"BAT4L_VAL", 0>>
Upper(v) == <<v[1], 16>>        \* its high half, and zeros
Word(o)  == IF o \in ContextWords THEN <<"word", o>> ELSE Unknown
-----------------------------------------------------------------------------
\* Instructions; those without an effect on these registers are "sync".
Ins(op, r, x) == [op |-> op, r |-> r, x |-> x]
Lwz(r, o)   == Ins("lwz", r, <<"offset", o>>)
Lis(r, v)   == Ins("lis", r, v)
Ori(r, v)   == Ins("ori", r, v)
Mtspr(n, r) == Ins("mtspr", r, <<"spr", n>>)
Mfspr(r, n) == Ins("mfspr", r, <<"spr", n>>)
Plain(op, r) == Ins(op, r, Unknown)

\* The instructions of the kernel that the stub replaces.
Reload ==
    <<Lwz(5, 52), Lwz(6, 56), Lwz(7, 60), Lwz(8, 64), Lwz(9, 68), Lwz(10, 72),
      Lwz(11, 76), Lwz(3, 80), Plain("sync", 0), Plain("mtsr7", 5)>>

\* (X_Suffix is X with a bug, here and below; nothing uses it.)
Stub ==
    <<Lis(7, BAT4L), Ori(7, BAT4L), Mtspr(561, 7), Lis(7, BAT4U), Ori(7, BAT4U),
      Mtspr(560, 7), Plain("sync", 0), Plain("sync", 0), Plain("mflr", 7), Plain("bla", 0)>>

LinkBack_Last(reload) == reload \o <<Plain("mtlr", 7)>>
LinkBack(reload) == <<Plain("mtlr", 7)>> \o reload
Mirror == <<Mfspr(5, 560), Mtspr(570, 5), Mfspr(5, 561), Mtspr(571, 5)>>
HookCode ==
    <<Plain("mflr", 5), Plain("mtctr", 5)>> \o LinkBack(Mirror \o Reload) \o <<Plain("bctr", 0)>>

CodeOf(c) == IF c = "hook" THEN HookCode ELSE IF c = "stub" THEN Stub ELSE Reload
-----------------------------------------------------------------------------
\* The kernel's function has r3 point to the context it loads.
Called == [r \in Registers |-> IF r = 3 THEN Context ELSE Unknown]

\* The BATs are the kernel's or, on a core that runs the loader, the loader's.
Init ==
    /\ code \in {"kernel", "stub"}
    /\ i = 1
    /\ reg = Called
    /\ lr = Caller
    /\ ctr = Unknown
    /\ spr \in [Bats -> {Unknown, BAT4U, BAT4L}]
    /\ sr7 = Unknown
    /\ patched = (code = "stub")

\* bla goes to the hook if IBAT4 maps it.
Mapped == spr[560] = BAT4U /\ spr[561] = BAT4L
Calls == IF Mapped THEN "hook" ELSE "lost"

Load(x) == IF reg[3] = Context THEN Word(x) ELSE Unknown

Fetched == CodeOf(code)[i]
Executing(op) ==
    /\ code \in {"kernel", "stub", "hook"}
    /\ i <= Len(CodeOf(code))
    /\ Fetched.op = op
FallsThrough == i' = i + 1 /\ UNCHANGED code
SetReg(v) == reg' = [reg EXCEPT ![Fetched.r] = v]

ExecLwz ==
    /\ Executing("lwz") /\ FallsThrough
    /\ SetReg(Load(Fetched.x[2]))
    /\ UNCHANGED <<lr, ctr, spr, sr7, patched>>

\* lis loads the high half and clears the low one, ori adds it.
ExecLis ==
    /\ Executing("lis") /\ FallsThrough
    /\ SetReg(Upper(Fetched.x))
    /\ UNCHANGED <<lr, ctr, spr, sr7, patched>>

ExecOri ==
    /\ Executing("ori") /\ FallsThrough
    /\ SetReg(IF reg[Fetched.r] = Upper(Fetched.x) THEN Fetched.x ELSE Unknown)
    /\ UNCHANGED <<lr, ctr, spr, sr7, patched>>

ExecMtspr ==
    /\ Executing("mtspr") /\ FallsThrough
    /\ spr' = [spr EXCEPT ![Fetched.x[2]] = reg[Fetched.r]]
    /\ UNCHANGED <<reg, lr, ctr, sr7, patched>>

ExecMfspr ==
    /\ Executing("mfspr") /\ FallsThrough
    /\ SetReg(spr[Fetched.x[2]])
    /\ UNCHANGED <<lr, ctr, spr, sr7, patched>>

ExecMove ==
    \/ /\ Executing("mflr") /\ SetReg(lr) /\ FallsThrough
       /\ UNCHANGED <<lr, ctr, spr, sr7, patched>>
    \/ /\ Executing("mtlr") /\ lr' = reg[Fetched.r] /\ FallsThrough
       /\ UNCHANGED <<reg, ctr, spr, sr7, patched>>
    \/ /\ Executing("mtctr") /\ ctr' = reg[Fetched.r] /\ FallsThrough
       /\ UNCHANGED <<reg, lr, spr, sr7, patched>>
    \/ /\ Executing("mtsr7") /\ sr7' = reg[Fetched.r] /\ FallsThrough
       /\ UNCHANGED <<reg, lr, ctr, spr, patched>>
    \/ /\ Executing("sync") /\ FallsThrough
       /\ UNCHANGED <<reg, lr, ctr, spr, sr7, patched>>

\* The stub's branch, with the link register left behind it,
ExecBla ==
    /\ Executing("bla")
    /\ code' = Calls
    /\ i' = 1
    /\ lr' = Behind
    /\ UNCHANGED <<reg, ctr, spr, sr7, patched>>

\* and the hook's way back.
ExecBctr ==
    /\ Executing("bctr")
    /\ code' = IF ctr = Behind THEN "back" ELSE "lost"
    /\ UNCHANGED <<i, reg, lr, ctr, spr, sr7, patched>>

\* The kernel's own instructions run on into what is behind them.
EndOfReload ==
    /\ code = "kernel"
    /\ i > Len(Reload)
    /\ code' = "back"
    /\ UNCHANGED <<i, reg, lr, ctr, spr, sr7, patched>>

Execute ==
    \/ ExecLwz \/ ExecLis \/ ExecOri \/ ExecMtspr \/ ExecMfspr \/ ExecMove
    \/ ExecBla \/ ExecBctr \/ EndOfReload

(***************************************************************************)
(* The kernel's function is called again, for another context.  Once the   *)
(* stub is there it stays (KernelPatches), and nobody takes the BATs back. *)
(***************************************************************************)
Again ==
    /\ code = "back"
    /\ \E c \in {"kernel", "stub"} :
          /\ patched => c = "stub"
          /\ code' = c
          /\ patched' = (c = "stub")
    /\ i' = 1
    /\ reg' = Called
    /\ lr' = Caller
    /\ ctr' = Unknown
    /\ UNCHANGED <<spr, sr7>>

Next == Execute \/ Again

Spec == Init /\ [][Next]_vars
-----------------------------------------------------------------------------
Values == {Context, Caller, Behind, Unknown, BAT4U, BAT4L, Upper(BAT4U), Upper(BAT4L)}
          \cup {<<"word", o>> : o \in ContextWords}

TypeOK ==
    /\ code \in {"kernel", "stub", "hook", "back", "lost"}
    /\ i \in 1 .. Len(HookCode) + 1
    /\ reg \in [Registers -> Values]
    /\ {lr, ctr, sr7} \subseteq Values
    /\ spr \in [Bats -> Values]
    /\ patched \in BOOLEAN

(***************************************************************************)
(* "restore the original kernel instructions that we replaced": behind the *)
(* stub r3, r5 .. r11, the segment register and the return address are     *)
(* what the kernel's own instructions would have left there.  CTR is not:  *)
(* the hook returns through it (mtctr, bctr) and the instructions it makes *)
(* up for leave CTR alone, so it is not among what is compared.            *)
(***************************************************************************)
RegistersRestored ==
    code = "back" =>
        /\ reg[3] = Word(80)
        /\ \A r \in 5 .. 11 : reg[r] = Word(52 + 4 * (r - 5))
        /\ sr7 = Word(52)
        /\ lr = Caller

(***************************************************************************)
(* The branch reaches the hook on a core whose IBAT4 was still the         *)
(* kernel's, and the hook finds its way back.                              *)
(***************************************************************************)
ComesBack == code # "lost"

(***************************************************************************)
(* "setup us a nice DBAT for our code data with same region as our code":  *)
(* once a core has been through the stub, both pairs are the loader's.     *)
(***************************************************************************)
DataFollowsCode ==
    code = "back" /\ patched =>
        /\ Mapped
        /\ \A k \in 1 .. 2 : spr[DBAT5[k]] = spr[IBAT4[k]]
===============================================================================
