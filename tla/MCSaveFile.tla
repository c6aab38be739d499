----------------------------- MODULE MCSaveFile -----------------------------
(***************************************************************************)
(* SaveFile with an EEPROM of three chunks, bytes of base 5, and files     *)
(* that end within a chunk, at the end of one, and that are too long.  The *)
(* last one leaves a size of zero and an overrun for the next load.  Bytes *)
(* on the line come as fast as the board reads them, or while it stores a  *)
(* chunk.                                                                  *)
(***************************************************************************)
EXTENDS SaveFile

MCByte == 0..4
MCFiles == {<<1, 2, 3>>, <<4, 3, 2, 1>>, <<4, 3, 2, 1, 1, 4, 0, 0, 1>>}
MCContents == {[a \in 0..(EEPROM_SIZE - 1) |-> 0]}
=============================================================================
