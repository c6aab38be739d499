----------------------------- MODULE MCI2cMaster -----------------------------
(***************************************************************************)
(* I2cMaster with bytes of two values.                                     *)
(***************************************************************************)
EXTENDS I2cMaster
=============================================================================
