------------------------------- MODULE MCMenu -------------------------------
(***************************************************************************)
(* Menu with two lines, so that both menus scroll, and up to three files.  *)
(***************************************************************************)
EXTENDS Menu
=============================================================================
