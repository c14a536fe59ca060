--------------------------- MODULE MCRelocWrites ---------------------------
(***************************************************************************)
(* RelocWrites for TLC, whose integers are signed 32-bit words: half words *)
(* of 2^14 values, targets in the middle of the address space and at its   *)
(* sign border, and values at the ends of each branch's reach, at the      *)
(* borders of the low half and at both of these borders.                   *)
(***************************************************************************)
EXTENDS RelocWrites

MCTargets == {50331648, 50331652, 134217724}
MCValues ==
    {50331648 + d : d \in {-33554432, -33554428, -32768, -32764, -8, -2, 0, 2, 4,
                           8191, 8192, 16383, 32764, 32768, 33554428, 33554432}}
    \cup {0, 8191, 8192, 134217724, 134217752, 268435455}

\* b, bl, bdz and bne, with something in the displacement already.
MCInstructions == {{27, 30}, {0, 27, 30, 5}, {30, 25, 22, 3}, {30, 23, 21, 17}}
=============================================================================
