------------------------------ MODULE MCPanel -------------------------------
(***************************************************************************)
(* Two pages of four columns, and two pictures with no byte in common nor  *)
(* twice.                                                                  *)
(***************************************************************************)
EXTENDS Panel
Picture(first) == [p \in PageNumbers |-> [c \in Columns |-> first + COLS * p + c]]
MCByte == 100 .. 107 \cup 200 .. 207
MCImages == {Picture(100), Picture(200)}
=============================================================================
