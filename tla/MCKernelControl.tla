--------------------------- MODULE MCKernelControl ---------------------------
(***************************************************************************)
(* KernelControl on a small instance: 2 bit half words, 4 bit words, and   *)
(* statuses that show truncation (5 and 1 have the same low bits), the     *)
(* status of a timeout (14 = -2) and the one of a failed load (15 = -1).   *)
(***************************************************************************)
EXTENDS KernelControl

MCExitStatus == {1, 5, 14, 15}
=============================================================================
