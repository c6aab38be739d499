------------------------------ MODULE MCScreen ------------------------------
(***************************************************************************)
(* A panel of three pages of four columns, with characters of two by two   *)
(* pixels, and texts that are shorter than a line, as long and longer.     *)
(***************************************************************************)
EXTENDS Screen
MCGlyph ==
    [ch \in {" ", "a", "b"} |->
        IF ch = " " THEN [c \in Rows |-> {}]
        ELSE IF ch = "a" THEN [c \in Rows |-> {c}]
        ELSE [c \in Rows |-> IF c = 0 THEN Rows ELSE {}]]
MCTexts == {<<"b">>, <<"a", "b">>, <<"b", "a", "a">>}
MCDing == <<"b">>
MCName == <<"a">>
=============================================================================
