----------------------------- MODULE ByteString -----------------------------
(***************************************************************************)
(* What the accessors of src/elfio take a section's data for: bytes that   *)
(* can be replaced and inserted.  An insertion without memory changes      *)
(* nothing, a replacement without memory leaves none.  An insertion while  *)
(* the bookkeeping of the section is not that of its block may overrun it: *)
(* nothing is said of the bytes from then on.                              *)
(***************************************************************************)
EXTENDS Integers

CONSTANTS Byte, Inputs

VARIABLES
    size, text,     \* the bytes: a function on 1 .. size
    strained,       \* data_size is not the size of the block
    lost

vars == <<size, text, strained, lost>>

Empty == [i \in 1 .. 0 |-> CHOOSE b \in Byte : TRUE]

\* The bytes of an input go behind the first pos bytes.
Inserted(old, oldSize, pos, raw) ==
    [i \in 1 .. (oldSize + raw.len) |->
        IF i <= pos THEN old[i]
        ELSE IF i <= pos + raw.len THEN raw.byte[i - pos] ELSE old[i - raw.len]]

Init ==
    /\ size \in Nat
    /\ text \in [1 .. size -> Byte]
    /\ strained \in BOOLEAN
    /\ lost = FALSE

Set ==
    /\ ~lost
    /\ \E raw \in Inputs : size' = raw.len /\ text' = raw.byte
    /\ strained' = FALSE
    /\ UNCHANGED lost

Clear ==
    /\ ~lost
    /\ size' = 0 /\ text' = Empty
    /\ strained' = FALSE
    /\ UNCHANGED lost

Insert ==
    /\ ~lost
    /\ \E raw \in Inputs, pos \in 0 .. size :
         size' = size + raw.len /\ text' = Inserted(text, size, pos, raw)
    /\ strained' \in {strained, FALSE}
    /\ UNCHANGED lost

InsertWithoutMemory ==
    /\ ~lost
    /\ strained' = TRUE
    /\ UNCHANGED <<size, text, lost>>

InsertOverruns ==
    /\ ~lost /\ strained
    /\ lost' = TRUE
    /\ strained' = strained

Next == Set \/ Clear \/ Insert \/ InsertWithoutMemory \/ InsertOverruns

Spec == Init /\ [][Next]_vars
=============================================================================
