--------------------------- MODULE MCKernelSetup ---------------------------
(***************************************************************************)
(* KernelCode for TLC: the addresses of the code, those of the kernel less *)
(* 0xFFE00000 because of TLC's integers.                                   *)
(***************************************************************************)
EXTENDS KernelCode

MCContextWords == {52, 56, 60, 64, 68, 72, 76, 80}
MCNops == <<1076076, 1076216, 1049544, 1049548, 1169164, 1169192, 1169452>>
MCFarNops == <<922052, 922056>>
=============================================================================
