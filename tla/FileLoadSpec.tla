---------------------------- MODULE FileLoadSpec ----------------------------
(***************************************************************************)
(* What ModuleDataFactory::load relies on when it calls LoadFileToMem: it  *)
(* is handed every byte of the file in its place, or it is told that       *)
(* loading failed and then nothing is left open or allocated.              *)
(***************************************************************************)
EXTENDS Integers

CONSTANT FileSizes      \* the sizes a file may have

VARIABLES
    outcome,    \* what the caller knows: "none" yet, "failed", "loaded", "released"
    contents,   \* the bytes the caller can read, by the offset they come from
    holding     \* whether a descriptor or a buffer is held

vars == <<outcome, contents, holding>>

Empty == [i \in {} |-> 0]

Init == outcome = "none" /\ contents = Empty /\ holding = FALSE

\* Opening, allocating and reading are invisible to the caller.
Work ==
    /\ outcome = "none"
    /\ holding' \in BOOLEAN
    /\ UNCHANGED <<outcome, contents>>

Fail ==
    /\ outcome = "none"
    /\ outcome' = "failed"
    /\ holding' = FALSE
    /\ UNCHANGED contents

Load ==
    /\ outcome = "none"
    /\ outcome' = "loaded"
    /\ \E size \in FileSizes : contents' = [i \in 0 .. (size - 1) |-> i]
    /\ holding' = TRUE

\* The caller leaves the scope that owns the buffer.
Release ==
    /\ outcome = "loaded"
    /\ outcome' = "released"
    /\ contents' = Empty
    /\ holding' = FALSE

Next == Work \/ Fail \/ Load \/ Release

Spec == Init /\ [][Next]_vars
=============================================================================
