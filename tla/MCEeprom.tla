------------------------------- MODULE MCEeprom -------------------------------
(***************************************************************************)
(* Eeprom with two pages of four bytes, the calls that start and end in    *)
(* and across pages, and a clock that wraps.                               *)
(***************************************************************************)
EXTENDS Eeprom

MCByte == 0..6
MCAddresses == {0, 3}
MCPayloads == {<<>>, <<1>>, <<2, 3, 4, 5, 6>>}
MCLengths == {0, 5}
MCContents == {[a \in 0..(EEPROM_SIZE - 1) |-> a % 7]}
=============================================================================
