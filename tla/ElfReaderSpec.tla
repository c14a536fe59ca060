--------------------------- MODULE ElfReaderSpec ----------------------------
(***************************************************************************)
(* What ModuleDataFactory::load relies on when reader.load() returns true: *)
(* the sections of a well-formed file in the order of the file, each with  *)
(* its decoded bytes and its name.  When memory runs out, load() may fail  *)
(* or crash, or leave sections without bytes or still compressed, but no   *)
(* section ever has another's bytes.  Of other files nothing is promised.  *)
(***************************************************************************)
EXTENDS ElfImage

CONSTANT Images

VARIABLES
    image,      \* the file
    starved,    \* an allocation has failed
    result,     \* "none" yet, "loaded", "failed" or "crashed"
    view        \* the sections as the caller sees them

vars == <<image, starved, result, view>>

Init == image \in Images /\ starved = FALSE /\ result = "none" /\ view = <<>>

Starve ==
    /\ result = "none"
    /\ starved' = TRUE
    /\ UNCHANGED <<image, result, view>>

\* A section as it may be after an allocation failed.
Damaged(h, s) ==
    \/ s.data = NoData
    \/ s.data = WholeData(h) /\ s.size = WholeSize(h)
    \/ Compressed(h) /\ s.data = FileBytes(h.offset, h.size) /\ s.size = h.size

\* The last allocation may be the one that fails.
Finish ==
    /\ result = "none"
    /\ result' \in {"loaded", "failed", "crashed"}
    /\ starved' \in {starved, TRUE}
    /\ \/ ~WellFormed(image)
       \/ starved' /\ result' # "loaded"
       \/ /\ starved'
          /\ Len(view') = Len(image.shdrs)
          /\ \A i \in DOMAIN image.shdrs : Damaged(image.shdrs[i], view'[i])
       \/ /\ result' = "loaded"
          /\ view' = [i \in DOMAIN image.shdrs |-> WholeSection(image, image.shdrs[i])]
    /\ UNCHANGED image

Next == Starve \/ Finish

Spec == Init /\ [][Next]_vars
=============================================================================
