------------------------------- MODULE Screen -------------------------------
(***************************************************************************)
(* The screen: the pixels of displaybuffer, drawn by display_addstring and *)
(* by the rows of the animation, and what the panel shows of them.  Who    *)
(* draws: the system calls of a program (syscalls.c:24-50), the            *)
(* screensaver and the intro animation.                                    *)
(*                                                                         *)
(* Sizes are parameters, in the proportions of the code: a page of the     *)
(* panel is as high as a character (FONT, 8 in the code), a line holds     *)
(* COLS \div FONT characters.  display_update is one step here: module     *)
(* Panel models it byte by byte.                                           *)
(***************************************************************************)
EXTENDS Integers, Sequences

CONSTANTS
    PAGES,      \* 4 in the code
    COLS,       \* 128
    FONT,       \* 8: rows and columns of a character
    Glyph,      \* Glyph[ch][c]: the lit rows of column c of character ch
    Texts,      \* the strings programs print
    Ding,       \* the screensaver's text
    Name,       \* the animation's text
    None        \* no print: a page drawn otherwise

Space == " "
Rows == 0 .. FONT - 1
Lines == 0 .. PAGES - 1
DISPLAY_ROWS == PAGES * FONT
DISPLAY_BUFFER_SIZE == PAGES * COLS
Bytes == 0 .. DISPLAY_BUFFER_SIZE - 1
Pixels == Bytes \X Rows
LineLength == COLS \div FONT
Prints == [text : Texts \cup {<<>>}, invert : BOOLEAN]

ASSUME ScreenAssumption ==
    /\ {PAGES, COLS, FONT, LineLength} \subseteq Nat \ {0} /\ PAGES > 1
    /\ COLS = LineLength * FONT
    /\ \A t \in Texts \cup {Ding, Name} : t \in Seq(DOMAIN Glyph)
    /\ Len(Ding) \in 1 .. LineLength
    /\ None \notin Prints
    /\ \A ch \in DOMAIN Glyph : Glyph[ch] \in [Rows -> SUBSET Rows]
    /\ Space \in DOMAIN Glyph /\ \A c \in Rows : Glyph[Space][c] = {}

VARIABLES
    buffer,     \* displaybuffer: the pixels that are lit
    panel,      \* the pixels lit on the panel
    past,       \* offsets outside of the buffer that were written
    want,       \* history: the last print of every line, or None
    pc,         \* "idle", "saver" or "intro"
    saver,      \* the locals of screensaver, while it runs
    i           \* the animation's counter, while it runs
vars == <<buffer, panel, past, want, pc, saver, i>>

----------------------------------------------------------------------------
(* display_addstring, at the positions its callers draw at: they leave room *)
(* for a character, which it checks first.                                  *)

Cut(text) == SubSeq(text, 1, IF Len(text) > LineLength THEN LineLength ELSE Len(text))

\* What the call returns: 0, or -1 for a string that was cut.  The mutant stops
\* one character early.
FitsShort(text) == Len(text) < LineLength
Fits(text) == Len(text) <= LineLength

\* The columns a text is drawn to, and the rows lit in one of them.
Columns(x, text) == x .. x + Len(Cut(text)) * FONT - 1
LitRows(x, text, col) ==
    Glyph[Cut(text)[1 + (col - x) \div FONT]][(col - x) % FONT]

\* A pixel is a bit of a byte.
Offset(row, col) == (row \div FONT) * COLS + col
PixelAt(row, col) == <<Offset(row, col), row % FONT>>

\* The pixels of a text at (x, y): its area, and those lit in it.
Area(x, y, text) == {PixelAt(y + r, col) : r \in Rows, col \in Columns(x, text)}
LitPixels(x, y, text) ==
    UNION {{PixelAt(y + r, col) : r \in LitRows(x, text, col)} : col \in Columns(x, text)}

\* Normal text clears the bytes of its first page only and adds its pixels;
\* inverted text lights its whole area and removes its pixels.
FirstPage(x, y, text) == {<<Offset(y, col), r>> : r \in Rows, col \in Columns(x, text)}
AddString(buf, x, y, text, invert) ==
    Pixels \cap (IF invert THEN (buf \cup Area(x, y, text)) \ LitPixels(x, y, text)
                 ELSE (buf \ FirstPage(x, y, text)) \cup LitPixels(x, y, text))

\* The bytes outside of the buffer that a text at (x, y) writes.
Outside(x, y, text) == {p[1] : p \in Area(x, y, text)} \ Bytes

Blank == [k \in 1 .. LineLength |-> Space]

\* display_clear, display_white: what they fill the buffer with.
Filled(white) == IF white THEN Pixels ELSE {}
NoPrint == [l \in Lines |-> None]

----------------------------------------------------------------------------
(* The system calls. *)

\* A line is blanked, then printed; the panel is refreshed only if the text
\* was not cut.  The mutant relies on the text to blank what it covers.
PrintedOver(buf, line, text, invert) ==
    AddString(buf, 0, line * FONT, text, invert)
Printed(buf, line, text, invert) ==
    AddString(AddString(buf, 0, line * FONT, Blank, invert), 0, line * FONT, text, invert)

LineThere(line) == line < PAGES

SysScreenPrint(line, text, invert) ==
    /\ pc = "idle" /\ LineThere(line)
    /\ buffer' = Printed(buffer, line, text, invert)
    /\ panel' = IF Fits(text) THEN buffer' ELSE panel
    /\ past' = past \cup Outside(0, line * FONT, text)
    /\ want' = [want EXCEPT ![line] = [text |-> text, invert |-> invert]]
    /\ UNCHANGED <<pc, saver, i>>

\* White, unless bit 0 of the flag is set.
SysScreenClear(white) ==
    /\ pc = "idle"
    /\ buffer' = Filled(white)
    /\ panel' = buffer'
    /\ want' = [l \in Lines |-> [text |-> <<>>, invert |-> white]]
    /\ UNCHANGED <<past, pc, saver, i>>

----------------------------------------------------------------------------
(* The screensaver. *)

Width == Len(Ding) * FONT

ScreensaverStart ==
    /\ pc = "idle"
    /\ buffer' = {} /\ panel' = {}
    /\ want' = NoPrint
    /\ pc' \in {"saver", "idle"}            \* switch 4
    /\ UNCHANGED <<past, saver, i>>

\* A coordinate turns at its far end and at 0, then moves.
Turned(z, speed, far) ==
    LET bounced == IF far THEN -speed ELSE speed
    IN  IF z <= 0 THEN -bounced ELSE bounced
Moved(z, speed) == (IF z <= 0 THEN 0 ELSE z) + speed

\* The text turns only after it has crossed the right edge, by one column; the
\* mutant's, by two.
RightEdgeLate(x) == x + Width > COLS + 1
RightEdge(x) == x + Width > COLS
LowEdge(y) == y + FONT >= DISPLAY_ROWS

SaverStarts == [x |-> 1, y |-> 1, xSpeed |-> 1, ySpeed |-> 1]
SaverMoves ==
    LET xs == Turned(saver.x, saver.xSpeed, RightEdge(saver.x))
        ys == Turned(saver.y, saver.ySpeed, LowEdge(saver.y))
    IN  [x |-> Moved(saver.x, xs), y |-> Moved(saver.y, ys), xSpeed |-> xs, ySpeed |-> ys]

ScreensaverFrame ==
    /\ pc = "saver"
    /\ LET s == SaverMoves IN
       /\ \E invert \in BOOLEAN :           \* switch 3
             buffer' = AddString(Filled(invert), s.x, s.y, Ding, invert)
       /\ past' = past \cup Outside(s.x, s.y, Ding)
       /\ \/ pc' = "saver" /\ saver' = s     \* switch 4
          \/ pc' = "idle" /\ saver' = SaverStarts
    /\ panel' = buffer'
    /\ UNCHANGED <<want, i>>

----------------------------------------------------------------------------
(* The intro animation: a wipe from the top around the name. *)

NameX == COLS \div 4
NameY == FONT + FONT \div 2

(* The name is within the display.                                         *)
ASSUME NameAssumption == /\ NameX + Len(Name) * FONT <= COLS
                         /\ NameY + FONT <= DISPLAY_ROWS

\* draw_horizontal_line and clear_horizontal_line: a row that is not there is
\* refused.  The mutant forgets the bit of the row in its byte.
RowThere(y) == y < DISPLAY_ROWS
RowBytes(y) == {Offset(y, col) : col \in 0 .. COLS - 1}
RowPage(y) == IF RowThere(y) THEN RowBytes(y) \X Rows ELSE {}
RowPixels(y) == IF RowThere(y) THEN RowBytes(y) \X {y % FONT} ELSE {}
DrawRow(buf, y) == Pixels \cap (buf \cup RowPixels(y))
ClearRow(buf, y) == buf \ RowPixels(y)
RowOutside(y) == {p[1] : p \in RowPixels(y)} \ Bytes

IntroStart ==
    /\ pc = "idle"
    /\ buffer' = Pixels /\ panel' = Pixels
    /\ want' = NoPrint
    /\ pc' = "intro"
    /\ UNCHANGED <<past, saver, i>>

IntroFrame ==
    /\ pc = "intro"
    /\ buffer' = DrawRow(ClearRow(AddString(buffer, NameX, NameY, Name, TRUE), i), i + 1)
    /\ panel' = buffer'
    /\ past' = past \cup Outside(NameX, NameY, Name) \cup RowOutside(i) \cup RowOutside(i + 1)
    /\ IF i + 1 < DISPLAY_ROWS THEN i' = i + 1 /\ pc' = "intro"
       ELSE i' = 0 /\ pc' = "idle"
    /\ UNCHANGED <<want, saver>>

----------------------------------------------------------------------------

Init ==
    /\ buffer = {} /\ panel = {}
    /\ past = {}
    /\ want = NoPrint
    /\ pc = "idle"
    /\ saver = SaverStarts
    /\ i = 0

Next ==
    \/ \E line \in 0 .. PAGES, text \in Texts, invert \in BOOLEAN :
          SysScreenPrint(line, text, invert)
    \/ \E white \in BOOLEAN : SysScreenClear(white)
    \/ ScreensaverStart \/ ScreensaverFrame
    \/ IntroStart \/ IntroFrame

Spec == Init /\ [][Next]_vars

----------------------------------------------------------------------------
(* Correctness. *)

TypeOK ==
    /\ {buffer, panel} \subseteq SUBSET Pixels
    /\ past \subseteq Nat
    /\ want \in [Lines -> Prints \cup {None}]
    /\ pc \in {"idle", "saver", "intro"}
    /\ saver.x \in 0 .. COLS /\ saver.y \in 0 .. DISPLAY_ROWS - FONT
    /\ i \in 0 .. DISPLAY_ROWS

\* What a line that shows `print` looks like, pixel by pixel: its characters
\* followed by spaces, as many as fit, dark on light if inverted.
RowsOf(print, c) ==
    LET k == 1 + c \div FONT
        ch == IF k <= Len(print.text) THEN print.text[k] ELSE Space
    IN  {r \in Rows : (r \in Glyph[ch][c % FONT]) # print.invert}
Showing(set, o) == {r \in Rows : <<o, r>> \in set}

\* A printed line shows its last print and nothing of what was there before,
\* whatever was drawn on the other lines (syscalls.c:29-33).
LinesHoldPrints ==
    \A l \in Lines : want[l] # None =>
        \A c \in 0 .. COLS - 1 : Showing(buffer, l * COLS + c) = RowsOf(want[l], c)

\* The panel differs from the buffer only on lines whose last text was too long
\* for a line: that print returns without refreshing the panel
\* (syscalls.c:34), and shows with the next one.
PanelLags ==
    \A o \in Bytes : Showing(panel, o) # Showing(buffer, o) =>
        LET l == o \div COLS IN want[l] # None /\ Len(want[l].text) > LineLength

\* Nothing is drawn past the buffer, not by the last frame of the animation, which
\* goes on to a row that is not there (animation.c:36), either; but for one byte,
\* the next one, by a screensaver whose text hangs one column over the right edge
\* of the last page (screensaver.c:20 turns it too late).
OneBytePast == past \subseteq {DISPLAY_BUFFER_SIZE}

\* The frames of the animation: around the name, the rows above the wipe are
\* dark and the ones below are lit; the name's area shows the name dark on
\* light, but for the two rows at the edge of the wipe.
InName(row, c) == row \in NameY .. NameY + FONT - 1 /\ c \in Columns(NameX, Name)
WipesAroundName ==
    pc = "intro" =>
        \A row \in 0 .. DISPLAY_ROWS - 1, c \in 0 .. COLS - 1 :
            PixelAt(row, c) \in buffer <=>
                \/ row = i
                \/ row > i /\ ~(i > 0 /\ InName(row, c) /\ row - NameY \in LitRows(NameX, Name, c))
                \/ row < i - 1 /\ InName(row, c) /\ row - NameY \notin LitRows(NameX, Name, c)
=============================================================================
