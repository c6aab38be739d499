---------------------------- MODULE MCTrapFrame -----------------------------
(***************************************************************************)
(* A program whose registers are all different, which pushes up to one     *)
(* word, and handlers that overwrite one register or all.                  *)
(***************************************************************************)
EXTENDS TrapFrame
MCClobbers == {{"v0"}, {"ra"}, CallerSaved}
MCStarts == {[r \in Registers |-> r]}
MCValue == Registers \cup {"junk"}
=============================================================================
