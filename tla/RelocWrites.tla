---------------------------- MODULE RelocWrites ----------------------------
(***************************************************************************)
(* What elfLinkOne stores, to the bit: the halves of an address that two   *)
(* instructions put together again, and the displacement of a branch.      *)
(* Trampolines are left to ModuleLoader; a branch here is in reach or not. *)
(*                                                                         *)
(* A register value has two halves of Half values each.  An instruction is *)
(* the set of its bits, numbered from the least significant one, so that   *)
(* the masks of the code are sets as well.                                 *)
(***************************************************************************)
EXTENDS Machine

CONSTANTS
    Half,           \* the number of values of a half word
    Values,         \* symbol addresses with their addends applied
    Targets,        \* where relocations are applied
    Instructions    \* what a branch may look like before it is relocated

ASSUME RelocAssumption ==
    /\ Half \in Nat \ {0}
    /\ Half % 2 = 0
    /\ Word = Half * Half
    /\ Values \subseteq Words
    /\ Targets \subseteq Words
    /\ Instructions \subseteq SUBSET (0 .. 31)

VARIABLES
    value,
    target,
    absolute,   \* are the halves those of the address or of the distance to it?
    halves,     \* the half words stored so far: "LO", "HI", "HA"
    before,     \* the branch at target, as it was
    instr,      \* and as it is
    branch      \* which relocation it has had: "none", "REL14", "REL24" or "failed"

vars == <<value, target, absolute, halves, before, instr, branch>>

\* R_PPC_ADDR16_x takes value, R_PPC_GHS_REL16_x takes relValue.
relValue == Sub(value, target)
Source == IF absolute THEN value ELSE relValue

\* (X_Suffix is X with a bug, here and below; no action uses it.)
HalfOf_NoCarry(kind, x) ==
    IF kind = "LO" THEN x % Half ELSE x \div Half
HalfOf(kind, x) ==
    IF kind = "LO" THEN x % Half
    ELSE IF kind = "HI" THEN x \div Half ELSE Add(x, Half \div 2) \div Half

\* The difference of two int32_t, which has the width of one.
Distance == Signed(Sub(value, target))

Init ==
    /\ value \in Values
    /\ target \in Targets
    /\ absolute \in BOOLEAN
    /\ halves = [k \in {} |-> 0]
    /\ before \in Instructions
    /\ instr = before
    /\ branch = "none"

\* The relocations of the instructions that use an address come in any order.
StoreHalf(kind) ==
    /\ kind \notin DOMAIN halves
    /\ halves' = [k \in DOMAIN halves \cup {kind} |->
                     IF k = kind THEN HalfOf(kind, Source) ELSE halves[k]]
    /\ UNCHANGED <<value, target, absolute, before, instr, branch>>

\* The bits of d & mask, d being a two's complement number of n bits.
BitsOf(d, n, mask) == {i \in mask : ((d + 2 ^ n) \div 2 ^ i) % 2 = 1}

Bits(lo, hi) == lo .. hi
Displacement14 == Bits(2, 15)       \* 0x0000FFFC
Displacement24 == Bits(2, 25)       \* 0x03FFFFFC
Kept14 == Bits(0, 31) \ (Displacement14 \cup {22})      \* 0xFFBF0003
Kept24 == Bits(26, 31) \cup {0, 1}                      \* 0xFC000003

Fits14_Unaligned == -32764 <= Distance /\ Distance <= 32764
Fits14 == -32764 <= Distance /\ Distance <= 32764 /\ Distance % 4 = 0
Fits24 == -33554428 <= Distance /\ Distance <= 33554428 /\ Distance % 4 = 0

Rel14 ==
    /\ branch = "none"
    /\ IF Fits14
         THEN /\ instr' = (instr \cap Kept14) \cup BitsOf(Distance, 16, Displacement14)
              /\ branch' = "REL14"
         ELSE branch' = "failed" /\ UNCHANGED instr
    /\ UNCHANGED <<value, target, absolute, halves, before>>

Rel24 ==
    /\ branch = "none"
    /\ IF Fits24
         THEN /\ instr' = (instr \cap Kept24) \cup BitsOf(Distance, 26, Displacement24)
              /\ branch' = "REL24"
         ELSE branch' = "failed" /\ UNCHANGED instr
    /\ UNCHANGED <<value, target, absolute, halves, before>>

Finished == branch # "none" /\ DOMAIN halves = {"LO", "HI", "HA"} /\ UNCHANGED vars

Next == (\E kind \in {"LO", "HI", "HA"} : StoreHalf(kind)) \/ Rel14 \/ Rel24 \/ Finished

Spec == Init /\ [][Next]_vars
-----------------------------------------------------------------------------
TypeOK ==
    /\ value \in Values
    /\ target \in Targets
    /\ absolute \in BOOLEAN
    /\ DOMAIN halves \subseteq {"LO", "HI", "HA"}
    /\ \A k \in DOMAIN halves : halves[k] \in 0 .. (Half - 1)
    /\ before \in Instructions
    /\ instr \subseteq 0 .. 31
    /\ branch \in {"none", "REL14", "REL24", "failed"}

\* What the CPU adds for a half word it sign-extends.
SignedHalf(h) == IF 2 * h < Half THEN h ELSE h - Half

(***************************************************************************)
(* An address that was split comes back whole: the high half adjusted for  *)
(* the carry with a sign-extended low half (lis/addi, lis/lwz), the plain  *)
(* high half with a zero-extended one (lis/ori).  Halves of a distance     *)
(* come back as the address once the target is added.                      *)
(***************************************************************************)
Joined(high, low) == (high * Half + low + Word) % Word
HalvesRejoin ==
    /\ TypeOK
    /\ {"HA", "LO"} \subseteq DOMAIN halves =>
          Joined(halves["HA"], SignedHalf(halves["LO"])) = Source
    /\ {"HI", "LO"} \subseteq DOMAIN halves =>
          Joined(halves["HI"], halves["LO"]) = Source
    /\ Add(target, relValue) = value

\* Where the CPU goes: the displacement sign-extended from n bits.
Sum(t, n) ==
    LET sum[k \in 0 .. n] == IF k = 0 THEN 0 ELSE sum[k - 1] + t[k - 1] IN sum[n]
Weights(bits, n) ==
    [i \in 0 .. n - 1 |-> IF i \notin bits THEN 0 ELSE IF i = n - 1 THEN -(2 ^ i) ELSE 2 ^ i]
Weight(bits, n) == Sum(Weights(bits, n), n)

(***************************************************************************)
(* A branch that was accepted goes to its destination, forwards and        *)
(* backwards, up to the ends of its reach and across the ends of the       *)
(* address space, and an unconditional one keeps its opcode, link and      *)
(* address bits.                                                           *)
(***************************************************************************)
BranchReaches ==
    /\ branch = "REL14" => Add(target, Weight(instr \cap Displacement14, 16)) = value
    /\ branch = "REL24" =>
          /\ Add(target, Weight(instr \cap Displacement24, 26)) = value
          /\ instr \ Displacement24 = before \ Displacement24

(***************************************************************************)
(* "Masks for manipulating Power PC relocation targets": PPC_LOW14,        *)
(* 0x0020FFFC, is what relocating a conditional branch may change.         *)
(***************************************************************************)
PPC_LOW14 == Displacement14 \cup {21}
ConditionKept == branch = "REL14" => instr \ PPC_LOW14 = before \ PPC_LOW14
=============================================================================
