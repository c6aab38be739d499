---------------------------- MODULE Screen_proofs ----------------------------
(***************************************************************************)
(* Proofs about Screen, for panels, characters and texts of any size: what *)
(* may be written past displaybuffer and by whom, and what a line shows.   *)
(***************************************************************************)
EXTENDS Screen, SequenceTheorems, TLAPS

\* The right edge of the screensaver is one column past the display's; at an edge
\* the text moves towards it, so that it turns there.
FarX == COLS - Width + 1
FarY == DISPLAY_ROWS - FONT
Bounces(z, speed, far) ==
    z \in 0 .. far /\ speed \in {-1, 1} /\ (z = 0 => speed = -1) /\ (z = far => speed = 1)

SaverInv == /\ DOMAIN saver = {"x", "y", "xSpeed", "ySpeed"}
            /\ Bounces(saver.x, saver.xSpeed, FarX)
            /\ Bounces(saver.y, saver.ySpeed, FarY)

Inv == TypeOK /\ SaverInv /\ OneBytePast

-----------------------------------------------------------------------------
(* Arithmetic. *)

\* A product does not shrink with its factor.
LEMMA Times ==
    ASSUME NEW a \in Nat, NEW b \in Nat, a <= b, NEW c \in Nat
    PROVE  a * c \in Nat /\ b * c \in Nat /\ a * c <= b * c
<1>1. PICK d \in Nat : b = a + d
  <2>1. b - a \in Nat /\ b = a + (b - a)
    OBVIOUS
  <2> QED
    BY <2>1
<1>2. d * c \in Nat /\ a * c \in Nat /\ (a + d) * c = a * c + d * c
  OBVIOUS
<1> QED
  BY <1>1, <1>2

\* The sizes, and those that follow from them.
LEMMA Sizes ==
    /\ PAGES \in Nat \ {0} /\ PAGES > 1 /\ COLS \in Nat \ {0} /\ FONT \in Nat \ {0}
    /\ LineLength \in Nat \ {0} /\ COLS = LineLength * FONT
    /\ DISPLAY_ROWS \in Nat /\ DISPLAY_BUFFER_SIZE \in Nat
    /\ DISPLAY_ROWS = (PAGES - 1) * FONT + FONT
    /\ DISPLAY_BUFFER_SIZE = (PAGES - 1) * COLS + COLS
    /\ Width \in 1 .. COLS /\ FarX \in 1 .. COLS /\ FarY \in Nat \ {0}
<1>0. /\ PAGES \in Nat \ {0} /\ PAGES > 1 /\ COLS \in Nat \ {0} /\ FONT \in Nat \ {0}
      /\ LineLength \in Nat \ {0} /\ COLS = LineLength * FONT
  BY ScreenAssumption
<1>1. Len(Ding) \in Nat /\ 1 <= Len(Ding) /\ Len(Ding) <= LineLength
  <2>1. Len(Ding) \in 1 .. LineLength
    BY ScreenAssumption
  <2> HIDE DEF LineLength
  <2> QED
    BY <1>0, <2>1
<1>2. PICK p \in Nat \ {0} : PAGES = p + 1
  <2>1. PAGES - 1 \in Nat \ {0} /\ PAGES = (PAGES - 1) + 1
    BY <1>0, <1>1
  <2> QED
    BY <2>1
<1>3. p * FONT \in Nat /\ p * COLS \in Nat /\ (p + 1) * FONT = p * FONT + FONT
      /\ (p + 1) * COLS = p * COLS + COLS /\ PAGES - 1 = p
  BY <1>0, <1>1, <1>2
<1>4. 1 * FONT <= p * FONT /\ 1 * FONT <= Len(Ding) * FONT /\ Len(Ding) * FONT <= LineLength * FONT
      /\ Len(Ding) * FONT \in Nat
  BY <1>0, <1>1, <1>2, Times
<1>5. DISPLAY_ROWS = p * FONT + FONT /\ DISPLAY_BUFFER_SIZE = p * COLS + COLS
  BY <1>2, <1>3 DEF DISPLAY_ROWS, DISPLAY_BUFFER_SIZE
<1>6. Width \in 1 .. COLS
  BY <1>0, <1>1, <1>4 DEF Width
<1>7. FarX \in 1 .. COLS /\ FarY \in Nat \ {0}
  BY <1>0, <1>1, <1>3, <1>4, <1>5, <1>6 DEF FarX, FarY
<1> QED
  BY <1>0, <1>1, <1>3, <1>5, <1>6, <1>7

\* A text is a sequence of characters that the font has.
LEMMA Strings ==
    \A t \in Texts \cup {Ding, Name} :
        t \in Seq(DOMAIN Glyph) /\ Len(t) \in Nat /\ DOMAIN t = 1 .. Len(t)
<1> SUFFICES ASSUME NEW t \in Texts \cup {Ding, Name}
             PROVE  t \in Seq(DOMAIN Glyph) /\ Len(t) \in Nat /\ DOMAIN t = 1 .. Len(t)
  OBVIOUS
<1>1. t \in Seq(DOMAIN Glyph)
  BY ScreenAssumption
<1> QED
  BY <1>1, LenProperties

\* The page of a row of the display.
LEMMA PageOfRow ==
    ASSUME NEW row \in 0 .. (DISPLAY_ROWS - 1)
    PROVE  row \div FONT \in 0 .. (PAGES - 1)
<1> DEFINE q == row \div FONT
<1>1. FONT \in Nat \ {0} /\ PAGES \in Nat \ {0} /\ row \in Nat /\ row < DISPLAY_ROWS
      /\ DISPLAY_ROWS = PAGES * FONT /\ DISPLAY_ROWS \in Nat
  BY Sizes DEF DISPLAY_ROWS
<1>2. q \in Nat /\ q * FONT <= row
  BY <1>1
<1> HIDE DEF q
<1>3. ASSUME PAGES <= q PROVE FALSE
  <2>1. PAGES * FONT <= q * FONT /\ q * FONT \in Nat
    BY <1>1, <1>2, <1>3, Times
  <2> QED
    BY <1>1, <1>2, <2>1
<1>4. q \in 0 .. (PAGES - 1)
  BY <1>1, <1>2, <1>3
<1> QED
  BY <1>4 DEF q

\* The byte of a row and a column, of which there may be one more than the display's.
LEMMA OffsetOf ==
    ASSUME NEW row \in 0 .. (DISPLAY_ROWS - 1), NEW col \in 0 .. COLS
    PROVE  /\ Offset(row, col) \in 0 .. DISPLAY_BUFFER_SIZE
           /\ col < COLS => Offset(row, col) \in Bytes
<1> DEFINE q == row \div FONT
<1>1. q \in Nat /\ q <= PAGES - 1 /\ PAGES - 1 \in Nat /\ COLS \in Nat
  BY PageOfRow, Sizes
<1> HIDE DEF q
<1>2. q * COLS \in Nat /\ q * COLS <= (PAGES - 1) * COLS /\ (PAGES - 1) * COLS \in Nat
  BY <1>1, Times
<1>3. Offset(row, col) = q * COLS + col
  BY DEF Offset, q
<1>4. DISPLAY_BUFFER_SIZE = (PAGES - 1) * COLS + COLS
  BY Sizes
<1> QED
  BY <1>1, <1>2, <1>3, <1>4 DEF Bytes

\* A text that is drawn within the display's rows, and at most one column over its
\* right edge, writes at most one byte past the buffer (display.c:204-246).
LEMMA WritesPast ==
    ASSUME NEW x \in Nat, NEW y \in Nat, NEW text, Len(text) \in Nat,
           y + FONT <= DISPLAY_ROWS
    PROVE  /\ x + Len(Cut(text)) * FONT <= COLS + 1 =>
                 Outside(x, y, text) \subseteq {DISPLAY_BUFFER_SIZE}
           /\ x + Len(Cut(text)) * FONT <= COLS => Outside(x, y, text) = {}
<1> DEFINE w == Len(Cut(text)) * FONT
<1>1. FONT \in Nat \ {0} /\ COLS \in Nat \ {0} /\ DISPLAY_ROWS \in Nat /\ DISPLAY_BUFFER_SIZE \in Nat
  BY Sizes
<1>2. \A o \in {p[1] : p \in Area(x, y, text)} :
         \E row \in y .. (y + FONT - 1), col \in x .. (x + w - 1) : o = Offset(row, col)
  BY <1>1 DEF Area, PixelAt, Rows, Columns
<1>3. ASSUME NEW o \in Outside(x, y, text), w \in Int, x + w <= COLS + 1
      PROVE  o = DISPLAY_BUFFER_SIZE /\ ~(x + w <= COLS)
  <2>1. o \notin Bytes /\ o \in {p[1] : p \in Area(x, y, text)}
    BY <1>3 DEF Outside
  <2>2. PICK row \in y .. (y + FONT - 1), col \in x .. (x + w - 1) : o = Offset(row, col)
    BY <1>2, <2>1
  <2>3. row \in 0 .. (DISPLAY_ROWS - 1) /\ col \in 0 .. COLS
    BY <1>1, <1>3, <2>2
  <2>4. o \in 0 .. DISPLAY_BUFFER_SIZE /\ (col < COLS => o \in Bytes)
    BY <2>2, <2>3, OffsetOf
  <2> QED
    BY <1>1, <1>3, <2>1, <2>2, <2>4 DEF Bytes
<1>4. w \in Int
  <2>1. Len(Cut(text)) \in Nat
    BY Sizes DEF Cut
  <2> QED
    BY <1>1, <2>1
<1> HIDE DEF w
<1>5. x + w <= COLS + 1 => Outside(x, y, text) \subseteq {DISPLAY_BUFFER_SIZE}
  BY <1>3, <1>4
<1>6. x + w <= COLS => Outside(x, y, text) = {}
  BY <1>1, <1>3, <1>4
<1> QED
  BY <1>5, <1>6 DEF w

-----------------------------------------------------------------------------
(* What a line shows. *)

\* Quotient and remainder of a sum are its parts.
LEMMA Parts ==
    ASSUME NEW a \in Nat, NEW b \in Nat \ {0}, NEW r \in 0 .. (b - 1)
    PROVE  (a * b + r) \div b = a /\ (a * b + r) % b = r
<1> DEFINE n == a * b + r
           q == n \div b
           m == n % b
<1>1. n \in Nat /\ a * b \in Nat
  OBVIOUS
<1>2. q \in Nat /\ m \in 0 .. (b - 1) /\ n = b * q + m /\ b * q = q * b
  BY <1>1
<1> HIDE DEF q, m
<1>3. ASSUME NEW j \in Nat, NEW k \in Nat, j < k PROVE j * b + b <= k * b /\ j * b \in Nat /\ k * b \in Nat
  <2>1. (j + 1) * b <= k * b /\ k * b \in Nat
    BY <1>3, Times
  <2>2. (j + 1) * b = j * b + b /\ j * b \in Nat
    OBVIOUS
  <2> QED
    BY <2>1, <2>2
<1>4. ~(q < a)
  BY <1>1, <1>2, <1>3
<1>5. ~(a < q)
  BY <1>1, <1>2, <1>3
<1>6. q = a
  BY <1>2, <1>4, <1>5
<1>7. m = r
  BY <1>1, <1>2, <1>6
<1> QED
  BY <1>6, <1>7 DEF q, m

\* A pixel of a line, and that the pixels of different places differ.
LEMMA PixelOfLine ==
    ASSUME NEW line \in Lines, NEW col \in 0 .. (COLS - 1)
    PROVE  /\ \A r \in Rows : PixelAt(line * FONT + r, col) = <<line * COLS + col, r>>
           /\ Offset(line * FONT, col) = line * COLS + col
           /\ line * COLS + col \in Bytes /\ (line * COLS + col) \div COLS = line
           /\ (line * COLS + col) % COLS = col
<1>1. line \in Nat /\ FONT \in Nat \ {0} /\ COLS \in Nat \ {0} /\ line <= PAGES - 1 /\ PAGES - 1 \in Nat
  BY Sizes DEF Lines
<1>2. \A r \in Rows : (line * FONT + r) \div FONT = line /\ (line * FONT + r) % FONT = r
  BY <1>1, Parts DEF Rows
<1>3. \A r \in Rows : PixelAt(line * FONT + r, col) = <<line * COLS + col, r>>
  BY <1>2 DEF PixelAt, Offset
<1>4. 0 \in Rows /\ line * FONT + 0 = line * FONT
  BY <1>1 DEF Rows
<1>5. Offset(line * FONT, col) = line * COLS + col
  BY <1>2, <1>4 DEF Offset
<1>6. line * COLS \in Nat /\ line * COLS <= (PAGES - 1) * COLS /\ (PAGES - 1) * COLS \in Nat
  BY <1>1, Times
<1>7. line * COLS + col \in Bytes
  BY <1>1, <1>6, Sizes DEF Bytes
<1>8. (line * COLS + col) \div COLS = line /\ (line * COLS + col) % COLS = col
  BY <1>1, Parts
<1> QED
  BY <1>3, <1>5, <1>7, <1>8

\* The characters of a text that are drawn, and the columns they are drawn to.
LEMMA CutText ==
    ASSUME NEW text \in Seq(DOMAIN Glyph)
    PROVE  /\ Columns(0, text) \subseteq 0 .. (COLS - 1)
           /\ \A c \in 0 .. (COLS - 1) :
                 /\ c \in Columns(0, text) <=> 1 + c \div FONT <= Len(text)
                 /\ c \in Columns(0, text) => /\ LitRows(0, text, c) = Glyph[text[1 + c \div FONT]][c % FONT]
                                              /\ LitRows(0, text, c) \subseteq Rows
<1>0. Len(text) \in Nat /\ DOMAIN text = 1 .. Len(text)
  BY LenProperties
<1>1. FONT \in Nat \ {0} /\ LineLength \in Nat \ {0} /\ COLS = LineLength * FONT /\ COLS \in Nat \ {0}
  BY Sizes
<1> HIDE DEF LineLength
<1> DEFINE n == IF Len(text) > LineLength THEN LineLength ELSE Len(text)
<1>2. n \in Nat /\ n <= Len(text) /\ n <= LineLength /\ (n = Len(text) \/ n = LineLength)
  BY <1>0, <1>1
<1>3. Cut(text) = SubSeq(text, 1, n)
  BY DEF Cut
<1> HIDE DEF n
<1>4. Len(Cut(text)) = n /\ \A k \in 1 .. n : Cut(text)[k] = text[k]
  BY <1>0, <1>2, <1>3
<1>5. n * FONT \in Nat /\ n * FONT <= COLS
  BY <1>1, <1>2, Times
<1>6. Columns(0, text) = 0 .. (n * FONT - 1)
  BY <1>4, <1>5 DEF Columns
<1>7. ASSUME NEW c \in 0 .. (COLS - 1)
      PROVE  /\ c \in Columns(0, text) <=> 1 + c \div FONT <= Len(text)
             /\ c \in Columns(0, text) => /\ LitRows(0, text, c) = Glyph[text[1 + c \div FONT]][c % FONT]
                                          /\ LitRows(0, text, c) \subseteq Rows
  <2> DEFINE q == c \div FONT
  <2>1. c \in Nat /\ q \in Nat /\ c % FONT \in 0 .. (FONT - 1) /\ c = FONT * q + (c % FONT) /\ c < COLS
        /\ FONT * q = q * FONT /\ c - 0 = c
    BY <1>1
  <2> HIDE DEF q
  <2>8. q \in Nat /\ 1 + q \in Nat
    BY <2>1
  <2>2. ASSUME NEW k \in Nat PROVE c < k * FONT <=> 1 + q <= k
    <3>1. k * FONT \in Nat /\ q * FONT \in Nat
      BY <1>1, <2>1
    <3>2. CASE 1 + q <= k
      <4>1. (1 + q) * FONT <= k * FONT /\ (1 + q) * FONT = FONT + q * FONT
        BY <1>1, <2>1, <3>2, Times
      <4> QED
        BY <1>1, <2>1, <3>1, <3>2, <4>1
    <3>3. CASE ~(1 + q <= k)
      <4>1. k <= q
        BY <2>1, <3>3
      <4>2. k * FONT <= q * FONT
        BY <1>1, <2>1, <4>1, Times
      <4> QED
        BY <2>1, <3>1, <3>3, <4>2
    <3> QED
      BY <3>2, <3>3
  <2>3. 1 + q <= LineLength
    BY <1>1, <2>1, <2>2
  <2>4. c \in Columns(0, text) <=> c < n * FONT
    BY <1>5, <1>6, <2>1
  <2>5. c \in Columns(0, text) <=> 1 + q <= n
    BY <1>2, <2>2, <2>4
  <2>6. c \in Columns(0, text) <=> 1 + q <= Len(text)
    <3> DEFINE m == Len(text)
    <3>0. m \in Nat /\ n \in Nat /\ n <= m /\ (n = m \/ n = LineLength)
      BY <1>0, <1>2
    <3> HIDE DEF m
    <3>2. 1 + q <= n <=> 1 + q <= m
      BY <1>1, <2>3, <2>8, <3>0
    <3>1. 1 + q <= n <=> 1 + q <= Len(text)
      BY <3>2 DEF m
    <3> QED
      BY <2>5, <3>1
  <2>7. ASSUME c \in Columns(0, text)
        PROVE  /\ LitRows(0, text, c) = Glyph[text[1 + q]][c % FONT]
               /\ LitRows(0, text, c) \subseteq Rows
    <3>1. 1 + q \in 1 .. n /\ 1 + q \in DOMAIN text
      <4>1. 1 + q <= n
        BY <2>5, <2>7
      <4> DEFINE m == Len(text)
      <4>2. m \in Nat /\ DOMAIN text = 1 .. m /\ n \in Nat /\ n <= m
        BY <1>0, <1>2
      <4> HIDE DEF m
      <4>3. 1 + q \in 1 .. n /\ 1 + q \in 1 .. m
        BY <2>8, <4>1, <4>2
      <4> QED
        BY <4>2, <4>3
    <3>2. LitRows(0, text, c) = Glyph[text[1 + q]][c % FONT]
      BY <1>4, <2>1, <3>1 DEF LitRows, q
    <3>3. text[1 + q] \in DOMAIN Glyph
      BY <3>1, ElementOfSeq, <1>0
    <3>4. Glyph[text[1 + q]] \in [Rows -> SUBSET Rows] /\ c % FONT \in Rows
      BY <2>1, <3>3, ScreenAssumption DEF Rows
    <3> QED
      BY <3>2, <3>4
  <2> QED
    BY <2>6, <2>7 DEF q
<1>8. n * FONT - 1 <= COLS - 1
  BY <1>1, <1>5
<1>9. Columns(0, text) \subseteq 0 .. (COLS - 1)
  BY <1>1, <1>5, <1>6, <1>8
<1> QED
  BY <1>7, <1>9

\* What a text on one line covers and lights of another or of the same.
LEMMA Drawn ==
    ASSUME NEW line \in Lines, NEW text \in Seq(DOMAIN Glyph),
           NEW l \in Lines, NEW c \in 0 .. (COLS - 1), NEW r \in Rows
    PROVE  LET p == <<l * COLS + c, r>>
               y == line * FONT
               here == l = line /\ c \in Columns(0, text)
           IN  /\ p \in Pixels
               /\ p \in Area(0, y, text) <=> here
               /\ p \in FirstPage(0, y, text) <=> here
               /\ p \in LitPixels(0, y, text) <=> here /\ r \in LitRows(0, text, c)
<1> DEFINE p == <<l * COLS + c, r>>
           y == line * FONT
           here == l = line /\ c \in Columns(0, text)
<1>1. \A col \in Columns(0, text) : col \in 0 .. (COLS - 1)
  BY CutText
<1>2. \A col \in Columns(0, text), s \in Rows : PixelAt(y + s, col) = <<line * COLS + col, s>>
  BY <1>1, PixelOfLine
<1>3. \A col \in Columns(0, text) : Offset(y, col) = line * COLS + col
  BY <1>1, PixelOfLine
<1>4. ASSUME NEW col \in Columns(0, text), line * COLS + col = l * COLS + c PROVE l = line /\ c = col
  BY <1>1, <1>4, PixelOfLine
<1>5. p \in Pixels
  BY PixelOfLine DEF Pixels
<1>6. p \in Area(0, y, text) <=> here
  BY <1>2, <1>4 DEF Area
<1>7. p \in FirstPage(0, y, text) <=> here
  BY <1>3, <1>4 DEF FirstPage
<1>8. p \in LitPixels(0, y, text) <=> here /\ r \in LitRows(0, text, c)
  <2>1. \A col \in Columns(0, text) : LitRows(0, text, col) \subseteq Rows
    BY <1>1, CutText
  <2>2. p \in LitPixels(0, y, text) <=>
            \E col \in Columns(0, text) : \E s \in LitRows(0, text, col) : p = PixelAt(y + s, col)
    BY DEF LitPixels
  <2>3. \A col \in Columns(0, text) : \A s \in LitRows(0, text, col) : PixelAt(y + s, col) = <<line * COLS + col, s>>
    BY <1>2, <2>1
  <2> QED
    BY <1>4, <2>2, <2>3
<1> QED
  BY <1>5, <1>6, <1>7, <1>8

\* A line of spaces.
LEMMA BlankLine ==
    /\ Blank \in Seq(DOMAIN Glyph)
    /\ Columns(0, Blank) = 0 .. (COLS - 1)
    /\ \A c \in 0 .. (COLS - 1) : LitRows(0, Blank, c) = {}
<1>1. FONT \in Nat \ {0} /\ LineLength \in Nat \ {0} /\ COLS = LineLength * FONT /\ COLS \in Nat \ {0}
      /\ Space \in DOMAIN Glyph
  BY Sizes, ScreenAssumption
<1> HIDE DEF LineLength
<1>2. Blank \in [1 .. LineLength -> DOMAIN Glyph] /\ DOMAIN Blank = 1 .. LineLength
  BY <1>1 DEF Blank
<1>3. Blank \in Seq(DOMAIN Glyph)
  <2>1. Blank \in UNION {[1 .. n -> DOMAIN Glyph] : n \in Nat}
    BY <1>1, <1>2
  <2> QED
    BY <2>1, SeqDef, Zenon
<1>4. Len(Blank) = LineLength
  <2>1. Len(Blank) \in Nat /\ DOMAIN Blank = 1 .. Len(Blank)
    BY <1>3, LenProperties
  <2> DEFINE m == Len(Blank)
  <2>2. m \in Nat /\ LineLength \in Nat \ {0} /\ 1 .. m = 1 .. LineLength
    BY <1>1, <1>2, <2>1
  <2> HIDE DEF m
  <2>3. LineLength \in 1 .. LineLength /\ 1 \in 1 .. LineLength
    BY <2>2
  <2>4. LineLength <= m /\ 1 <= m
    BY <2>2, <2>3
  <2>5. m \in 1 .. LineLength
    BY <2>2, <2>4
  <2>6. m = LineLength
    BY <2>2, <2>4, <2>5
  <2> QED
    BY <2>6 DEF m
<1>5. Len(Cut(Blank)) = LineLength
  BY <1>1, <1>3, <1>4 DEF Cut
<1>6. Columns(0, Blank) = 0 .. (COLS - 1)
  <2>1. 0 + Len(Cut(Blank)) * FONT - 1 = COLS - 1
    BY <1>1, <1>5
  <2> QED
    BY <2>1, Zenon DEF Columns
<1>7. ASSUME NEW c \in 0 .. (COLS - 1) PROVE LitRows(0, Blank, c) = {}
  <2>1. /\ LitRows(0, Blank, c) = Glyph[Blank[1 + c \div FONT]][c % FONT]
        /\ 1 + c \div FONT <= Len(Blank)
    BY <1>3, <1>6, CutText
  <2>2. c \in Nat /\ c \div FONT \in Nat /\ c % FONT \in Rows
    BY <1>1 DEF Rows
  <2>3. 1 + c \div FONT \in 1 .. LineLength
    BY <1>1, <1>4, <2>1, <2>2
  <2>4. Blank[1 + c \div FONT] = Space
    BY <2>3 DEF Blank
  <2> QED
    BY <2>1, <2>2, <2>4, ScreenAssumption
<1> QED
  BY <1>3, <1>6, <1>7

\* What a print leaves of a buffer.
DrawsLine(line, text, invert) ==
    \A buf : \A l \in Lines, c \in 0 .. (COLS - 1) :
       Showing(Printed(buf, line, text, invert), l * COLS + c) =
          IF l = line THEN RowsOf([text |-> text, invert |-> invert], c)
          ELSE Showing(buf \cap Pixels, l * COLS + c)

\* A print draws its own line, as RowsOf has it, and nothing of another (syscalls.c:24-36).
LEMMA PrintedLine ==
    ASSUME NEW line \in Lines, NEW text \in Seq(DOMAIN Glyph), NEW invert \in BOOLEAN
    PROVE  DrawsLine(line, text, invert)
<1> SUFFICES ASSUME NEW buf, NEW l \in Lines, NEW c \in 0 .. (COLS - 1)
             PROVE  Showing(Printed(buf, line, text, invert), l * COLS + c) =
                       IF l = line THEN RowsOf([text |-> text, invert |-> invert], c)
                       ELSE Showing(buf \cap Pixels, l * COLS + c)
  BY DEF DrawsLine
<1> DEFINE y == line * FONT
           print == [text |-> text, invert |-> invert]
           blanked == AddString(buf, 0, y, Blank, invert)
           k == 1 + c \div FONT
<1>1. ASSUME NEW r \in Rows
      PROVE  <<l * COLS + c, r>> \in Printed(buf, line, text, invert) <=>
                IF l = line THEN r \in RowsOf(print, c) ELSE <<l * COLS + c, r>> \in buf
  <2> DEFINE p == <<l * COLS + c, r>>
             here == l = line /\ c \in Columns(0, text)
  <2>1. /\ p \in Pixels /\ (p \in Area(0, y, text) <=> here) /\ (p \in FirstPage(0, y, text) <=> here)
        /\ p \in LitPixels(0, y, text) <=> here /\ r \in LitRows(0, text, c)
    BY Drawn
  <2>2. /\ p \in Area(0, y, Blank) <=> l = line
        /\ p \in FirstPage(0, y, Blank) <=> l = line
        /\ p \notin LitPixels(0, y, Blank)
    <3>1. Blank \in Seq(DOMAIN Glyph) /\ c \in Columns(0, Blank) /\ LitRows(0, Blank, c) = {}
      BY BlankLine
    <3> QED
      BY <3>1, Drawn
  <2>3. Printed(buf, line, text, invert) = AddString(blanked, 0, y, text, invert)
    BY DEF Printed
  <2>4. /\ c \in Columns(0, text) <=> k <= Len(text)
        /\ c \in Columns(0, text) => LitRows(0, text, c) = Glyph[text[k]][c % FONT]
    BY CutText
  <2>5. c % FONT \in Rows
    BY Sizes DEF Rows
  <2> DEFINE ch == IF k <= Len(text) THEN text[k] ELSE Space
  <2>6. r \in RowsOf(print, c) <=> (r \in Glyph[ch][c % FONT]) # invert
    BY DEF RowsOf
  <2>7. ~(k <= Len(text)) => r \notin Glyph[ch][c % FONT]
    BY <2>5, ScreenAssumption
  <2>8. k <= Len(text) => Glyph[ch][c % FONT] = Glyph[text[k]][c % FONT]
    OBVIOUS
  <2> DEFINE lit == r \in Glyph[ch][c % FONT]
  <2>9. /\ lit => here \/ l # line
        /\ here => (lit <=> r \in LitRows(0, text, c))
    BY <2>4, <2>7, <2>8
  <2> HIDE DEF ch, lit, here, p, y
  <2>10. CASE invert
    <3>1. p \in blanked <=> l = line \/ p \in buf
      BY <2>1, <2>2, <2>10 DEF AddString
    <3>2. p \in AddString(blanked, 0, y, text, invert) <=>
             (p \in blanked \/ here) /\ ~(here /\ r \in LitRows(0, text, c))
      BY <2>1, <2>10 DEF AddString
    <3>3. r \in RowsOf(print, c) <=> ~lit
      BY <2>6, <2>10 DEF lit
    <3> QED
      BY <2>3, <2>9, <3>1, <3>2, <3>3 DEF here, p
  <2>11. CASE ~invert
    <3>1. p \in blanked <=> l # line /\ p \in buf
      BY <2>1, <2>2, <2>11 DEF AddString
    <3>2. p \in AddString(blanked, 0, y, text, invert) <=>
             (p \in blanked /\ ~here) \/ (here /\ r \in LitRows(0, text, c))
      BY <2>1, <2>11 DEF AddString
    <3>3. r \in RowsOf(print, c) <=> lit
      BY <2>6, <2>11 DEF lit
    <3> QED
      BY <2>3, <2>9, <3>1, <3>2, <3>3 DEF here, p
  <2> QED
    BY <2>10, <2>11
<1>2. \A r \in Rows : <<l * COLS + c, r>> \in Pixels
  BY PixelOfLine DEF Pixels
<1>3. RowsOf(print, c) \subseteq Rows
  BY DEF RowsOf
<1> QED
  BY <1>1, <1>2, <1>3 DEF Showing

-----------------------------------------------------------------------------

\* The screensaver's text turns at both of its edges.
LEMMA Turns ==
    ASSUME NEW far \in Nat \ {0}, NEW z, NEW speed, Bounces(z, speed, far)
    PROVE  LET s == Turned(z, speed, z >= far) IN Bounces(Moved(z, s), s, far)
  BY DEF Bounces, Turned, Moved

\* A frame of the screensaver draws within the rows of the display and at most one
\* column over its right edge.
LEMMA SaverMovesTurns ==
    ASSUME SaverInv
    PROVE  LET s == SaverMoves IN
              /\ DOMAIN s = {"x", "y", "xSpeed", "ySpeed"}
              /\ Bounces(s.x, s.xSpeed, FarX) /\ Bounces(s.y, s.ySpeed, FarY)
<1>1. FarX \in Nat \ {0} /\ FarY \in Nat \ {0} /\ Width \in Nat /\ COLS \in Nat /\ FONT \in Nat /\ DISPLAY_ROWS \in Nat
  BY Sizes
<1>2. RightEdge(saver.x) <=> saver.x >= FarX
  BY <1>1 DEF RightEdge, FarX, SaverInv, Bounces
<1>3. LowEdge(saver.y) <=> saver.y >= FarY
  BY <1>1 DEF LowEdge, FarY, SaverInv, Bounces
<1>4. RightEdge(saver.x) = (saver.x >= FarX) /\ LowEdge(saver.y) = (saver.y >= FarY)
  BY <1>2, <1>3 DEF RightEdge, LowEdge
<1> DEFINE xs == Turned(saver.x, saver.xSpeed, saver.x >= FarX)
           ys == Turned(saver.y, saver.ySpeed, saver.y >= FarY)
<1>5. Bounces(Moved(saver.x, xs), xs, FarX) /\ Bounces(Moved(saver.y, ys), ys, FarY)
  BY <1>1, Turns DEF SaverInv
<1>6. SaverMoves = [x |-> Moved(saver.x, xs), y |-> Moved(saver.y, ys), xSpeed |-> xs, ySpeed |-> ys]
  BY <1>4 DEF SaverMoves
<1> HIDE DEF xs, ys
<1> QED
  BY <1>5, <1>6

\* What is drawn is pixels of the buffer.
LEMMA DrawsPixels ==
    /\ \A buf, x, y, text, invert : AddString(buf, x, y, text, invert) \subseteq Pixels
    /\ \A buf, line, text, invert : Printed(buf, line, text, invert) \subseteq Pixels
    /\ \A white : Filled(white) \subseteq Pixels
    /\ \A buf, y, z : buf \subseteq Pixels => DrawRow(ClearRow(buf, y), z) \subseteq Pixels
  BY DEF AddString, Printed, Filled, DrawRow, ClearRow

\* The animation's name and its rows are within the buffer: the row behind the last
\* is refused (animation.c:7, animation.c:18).
LEMMA AnimationWithin ==
    /\ Outside(NameX, NameY, Name) = {}
    /\ \A y \in Nat : RowOutside(y) = {}
<1>1. /\ FONT \in Nat \ {0} /\ COLS \in Nat \ {0} /\ LineLength \in Nat \ {0}
      /\ NameX \in Nat /\ NameY \in Nat /\ Len(Name) \in Nat
  BY Sizes, Strings DEF NameX, NameY
<1>2. Outside(NameX, NameY, Name) = {}
  <2> DEFINE n == Len(Cut(Name))
  <2>1. n \in Nat /\ n <= Len(Name)
    <3> HIDE DEF LineLength
    <3> QED
      BY <1>1 DEF Cut
  <2> HIDE DEF n
  <2>2. n * FONT \in Nat /\ Len(Name) * FONT \in Nat /\ n * FONT <= Len(Name) * FONT
    BY <1>1, <2>1, Times
  <2>3. NameX + n * FONT <= COLS
    BY <1>1, <2>2, NameAssumption
  <2> QED
    BY <1>1, <2>3, NameAssumption, WritesPast DEF n
<1>3. ASSUME NEW y \in Nat PROVE RowOutside(y) = {}
  <2>1. CASE RowThere(y)
    <3>1. y \in 0 .. (DISPLAY_ROWS - 1)
      BY <2>1, Sizes DEF RowThere
    <3>2. RowBytes(y) \subseteq Bytes
      BY <1>1, <3>1, OffsetOf DEF RowBytes
    <3> QED
      BY <3>2 DEF RowOutside, RowPixels
  <2>2. CASE ~RowThere(y)
    BY <2>2 DEF RowOutside, RowPixels
  <2> QED
    BY <2>1, <2>2
<1> QED
  BY <1>2, <1>3

\* Every step keeps Inv.
LEMMA InvSteps ==
    ASSUME Inv, [Next]_vars
    PROVE  Inv'
<1> USE DEF Inv, TypeOK, OneBytePast
<1>0. /\ PAGES \in Nat /\ COLS \in Nat /\ FONT \in Nat \ {0} /\ DISPLAY_ROWS \in Nat
      /\ DISPLAY_BUFFER_SIZE \in Nat /\ FarX \in 1 .. COLS /\ FarY \in Nat \ {0}
  BY Sizes
<1>1. ASSUME NEW line \in 0 .. PAGES, NEW text \in Texts, NEW invert \in BOOLEAN,
             SysScreenPrint(line, text, invert)
      PROVE  Inv'
  <2>1. line \in Lines
    BY <1>0, <1>1 DEF SysScreenPrint, LineThere, Lines
  <2>2. Outside(0, line * FONT, text) = {}
    <3>1. Len(text) \in Nat
      BY Strings
    <3>2. line \in Nat /\ line <= PAGES - 1 /\ PAGES - 1 \in Nat
      BY <1>0, <2>1 DEF Lines
    <3>3. line * FONT \in Nat /\ line * FONT + FONT <= DISPLAY_ROWS
      <4>1. line * FONT <= (PAGES - 1) * FONT /\ line * FONT \in Nat /\ (PAGES - 1) * FONT \in Nat
        BY <1>0, <3>2, Times
      <4> QED
        BY <1>0, <4>1, Sizes
    <3>4. 0 + Len(Cut(text)) * FONT <= COLS
      <4>1. Len(Cut(text)) \in Nat /\ Len(Cut(text)) <= LineLength /\ LineLength \in Nat
        BY <3>1, Sizes DEF Cut
      <4>2. Len(Cut(text)) * FONT <= LineLength * FONT /\ Len(Cut(text)) * FONT \in Nat
        BY <1>0, <4>1, Times
      <4> QED
        BY <4>2, Sizes
    <3> QED
      BY <3>1, <3>3, <3>4, WritesPast
  <2>3. past' = past /\ UNCHANGED <<pc, saver, i>>
    BY <1>1, <2>2 DEF SysScreenPrint
  <2>4. buffer' \subseteq Pixels /\ panel' \subseteq Pixels
    BY <1>1, DrawsPixels DEF SysScreenPrint
  <2>5. want' \in [Lines -> Prints \cup {None}]
    BY <1>1, <2>1 DEF SysScreenPrint, Prints
  <2> QED
    BY <2>3, <2>4, <2>5 DEF SaverInv
<1>2. ASSUME NEW white \in BOOLEAN, SysScreenClear(white) PROVE Inv'
  <2>1. buffer' \subseteq Pixels /\ panel' \subseteq Pixels
    BY <1>2, DrawsPixels DEF SysScreenClear
  <2>2. want' \in [Lines -> Prints \cup {None}]
    BY <1>2 DEF SysScreenClear, Prints
  <2> QED
    BY <1>2, <2>1, <2>2 DEF SysScreenClear, SaverInv
<1>3. ASSUME ScreensaverStart PROVE Inv'
  BY <1>3 DEF ScreensaverStart, SaverInv, NoPrint
<1>4. ASSUME ScreensaverFrame PROVE Inv'
  <2> DEFINE s == SaverMoves
  <2>1. /\ DOMAIN s = {"x", "y", "xSpeed", "ySpeed"}
        /\ Bounces(s.x, s.xSpeed, FarX) /\ Bounces(s.y, s.ySpeed, FarY)
    BY <1>4, SaverMovesTurns
  <2>2. /\ past' = past \cup Outside(s.x, s.y, Ding)
        /\ saver' = s \/ saver' = SaverStarts
        /\ pc' \in {"saver", "idle"} /\ panel' = buffer' /\ UNCHANGED <<want, i>>
    BY <1>4 DEF ScreensaverFrame
  <2>3. buffer' \subseteq Pixels
    BY <1>4, DrawsPixels DEF ScreensaverFrame
  <2> HIDE DEF s
  <2>4. s.x \in 0 .. FarX /\ s.y \in 0 .. FarY
    BY <2>1 DEF Bounces
  <2>5. Outside(s.x, s.y, Ding) \subseteq {DISPLAY_BUFFER_SIZE}
    <3>1. Len(Cut(Ding)) = Len(Ding) /\ Len(Ding) \in Nat
      <4>1. LineLength \in Nat /\ Len(Ding) \in 1 .. LineLength
        BY ScreenAssumption, Sizes
      <4> HIDE DEF LineLength
      <4>2. Len(Ding) \in Nat /\ ~(Len(Ding) > LineLength)
        BY <4>1
      <4> QED
        BY <4>2 DEF Cut
    <3>2. s.x \in Nat /\ s.y \in Nat /\ s.y + FONT <= DISPLAY_ROWS
      BY <1>0, <2>4 DEF FarY
    <3>3. s.x + Len(Cut(Ding)) * FONT <= COLS + 1
      BY <1>0, <2>4, <3>1, Sizes DEF FarX, Width
    <3> QED
      BY <3>1, <3>2, <3>3, WritesPast
  <2>6. SaverInv'
    <3>1. CASE saver' = s
      BY <2>1, <3>1 DEF SaverInv
    <3>2. CASE saver' = SaverStarts
      BY <1>0, <3>2 DEF SaverInv, SaverStarts, Bounces
    <3> QED
      BY <2>2, <3>1, <3>2
  <2>7. saver'.x \in 0 .. COLS /\ saver'.y \in 0 .. DISPLAY_ROWS - FONT
    BY <1>0, <2>6 DEF SaverInv, Bounces, FarY
  <2>8. past' \subseteq Nat /\ past' \subseteq {DISPLAY_BUFFER_SIZE}
    BY <1>0, <2>2, <2>5
  <2> QED
    BY <2>2, <2>3, <2>6, <2>7, <2>8
<1>5. ASSUME IntroStart PROVE Inv'
  BY <1>5 DEF IntroStart, SaverInv, NoPrint
<1>6. ASSUME IntroFrame PROVE Inv'
  <2>1. buffer' \subseteq Pixels
    BY <1>6, DrawsPixels DEF IntroFrame
  <2>2. i' \in 0 .. DISPLAY_ROWS /\ pc' \in {"idle", "intro"}
    BY <1>0, <1>6 DEF IntroFrame
  <2>3. past' = past
    <3>1. i \in Nat /\ i + 1 \in Nat
      BY <1>0
    <3> QED
      BY <1>6, <3>1, AnimationWithin DEF IntroFrame
  <2> QED
    BY <1>6, <2>1, <2>2, <2>3 DEF IntroFrame, SaverInv
<1>7. ASSUME UNCHANGED vars PROVE Inv'
  BY <1>7 DEF vars, SaverInv
<1> QED
  BY <1>1, <1>2, <1>3, <1>4, <1>5, <1>6, <1>7 DEF Next

\* Inv holds throughout.
LEMMA Invariance == Spec => []Inv
<1>1. Init => Inv
  <2> SUFFICES ASSUME Init PROVE Inv
    OBVIOUS
  <2>1. SaverInv
    BY Sizes DEF Init, SaverInv, SaverStarts, Bounces
  <2>2. saver.x \in 0 .. COLS /\ saver.y \in 0 .. DISPLAY_ROWS - FONT /\ i \in 0 .. DISPLAY_ROWS
    BY <2>1, Sizes DEF Init, SaverInv, Bounces, FarY
  <2> QED
    BY <2>1, <2>2 DEF Init, Inv, TypeOK, OneBytePast, NoPrint
<1> QED
  BY <1>1, InvSteps, PTL DEF Spec

-----------------------------------------------------------------------------

\* Lines keep their prints; the other drawings are over all of them.
ShowInv == (pc # "idle" => want = NoPrint) /\ LinesHoldPrints /\ PanelLags

\* The line and the column of a byte.
LEMMA PlaceOf ==
    ASSUME NEW o \in Bytes
    PROVE  o \div COLS \in Lines /\ o % COLS \in 0 .. (COLS - 1) /\ o = (o \div COLS) * COLS + (o % COLS)
<1> DEFINE q == o \div COLS
<1>1. COLS \in Nat \ {0} /\ PAGES \in Nat \ {0} /\ o \in Nat /\ o < DISPLAY_BUFFER_SIZE
      /\ DISPLAY_BUFFER_SIZE = PAGES * COLS /\ DISPLAY_BUFFER_SIZE \in Nat
  BY Sizes DEF Bytes, DISPLAY_BUFFER_SIZE
<1>2. q \in Nat /\ q * COLS <= o /\ o % COLS \in 0 .. (COLS - 1) /\ o = COLS * q + (o % COLS)
      /\ COLS * q = q * COLS
  BY <1>1
<1> HIDE DEF q
<1>3. ~(PAGES <= q)
  <2>1. ASSUME PAGES <= q PROVE PAGES * COLS <= q * COLS /\ q * COLS \in Nat
    BY <1>1, <1>2, <2>1, Times
  <2> QED
    BY <1>1, <1>2, <2>1
<1>4. q \in Lines
  BY <1>1, <1>2, <1>3 DEF Lines
<1> QED
  BY <1>2, <1>4 DEF q

\* A cleared line looks like one with an empty text.
LEMMA ClearedLine ==
    ASSUME NEW white \in BOOLEAN, NEW l \in Lines, NEW c \in 0 .. (COLS - 1)
    PROVE  Showing(Filled(white), l * COLS + c) = RowsOf([text |-> <<>>, invert |-> white], c)
<1> DEFINE print == [text |-> <<>>, invert |-> white]
<1>1. \A r \in Rows : <<l * COLS + c, r>> \in Pixels
  BY PixelOfLine DEF Pixels
<1>2. FONT \in Nat \ {0} /\ COLS \in Nat
  BY Sizes
<1>3. c % FONT \in Rows /\ c \div FONT \in Nat
  BY <1>2 DEF Rows
<1>4. ~(1 + c \div FONT <= Len(print.text))
  <2> DEFINE q == c \div FONT
  <2>1. Len(print.text) = 0
    OBVIOUS
  <2> HIDE DEF q, print
  <2>2. q \in Nat
    BY <1>3 DEF q
  <2>3. ~(1 + q <= 0)
    BY <2>2
  <2> QED
    BY <2>1, <2>3 DEF q
<1>5. Glyph[Space][c % FONT] = {}
  BY <1>3, ScreenAssumption
<1>6. RowsOf(print, c) = {r \in Rows : (r \in Glyph[Space][c % FONT]) # white}
  BY <1>4 DEF RowsOf
<1>7. CASE white
  <2>1. RowsOf(print, c) = Rows
    BY <1>5, <1>6, <1>7
  <2>2. Showing(Filled(white), l * COLS + c) = Rows
    BY <1>1, <1>7 DEF Showing, Filled
  <2> QED
    BY <2>1, <2>2
<1>8. CASE ~white
  <2>1. RowsOf(print, c) = {}
    BY <1>5, <1>6, <1>8
  <2>2. Showing(Filled(white), l * COLS + c) = {}
    BY <1>8 DEF Showing, Filled
  <2> QED
    BY <2>1, <2>2
<1> QED
  BY <1>7, <1>8

\* Every step keeps ShowInv.
LEMMA ShowSteps ==
    ASSUME Inv, ShowInv, [Next]_vars
    PROVE  ShowInv'
<1> USE DEF ShowInv
<1>1. ASSUME NEW line \in 0 .. PAGES, NEW text \in Texts, NEW invert \in BOOLEAN,
             SysScreenPrint(line, text, invert)
      PROVE  ShowInv'
  <2> DEFINE print == [text |-> text, invert |-> invert]
  <2>1. line \in Lines
    BY <1>1, Sizes DEF SysScreenPrint, LineThere, Lines
  <2>2. text \in Seq(DOMAIN Glyph) /\ Len(text) \in Nat
    BY Strings
  <2>3. /\ pc' = "idle" /\ buffer' = Printed(buffer, line, text, invert)
        /\ panel' = (IF Fits(text) THEN buffer' ELSE panel)
        /\ want' = [want EXCEPT ![line] = print]
    BY <1>1 DEF SysScreenPrint
  <2>4. buffer \cap Pixels = buffer /\ want \in [Lines -> Prints \cup {None}]
    BY DEF Inv, TypeOK
  <2>5. /\ want'[line] = print /\ want'[line].text = text
        /\ \A l \in Lines : l # line => want'[l] = want[l]
    BY <2>1, <2>3, <2>4
  <2>6. ASSUME NEW l \in Lines, NEW c \in 0 .. (COLS - 1)
        PROVE  Showing(buffer', l * COLS + c) =
                  IF l = line THEN RowsOf(print, c) ELSE Showing(buffer, l * COLS + c)
    <3>2. DrawsLine(line, text, invert)
      BY <2>1, <2>2, PrintedLine
    <3>1. Showing(Printed(buffer, line, text, invert), l * COLS + c) =
             IF l = line THEN RowsOf(print, c) ELSE Showing(buffer \cap Pixels, l * COLS + c)
      BY <3>2, Zenon DEF DrawsLine
    <3> HIDE DEF print
    <3> QED
      BY <2>3, <2>4, <3>1
  <2> HIDE DEF print
  <2>7. LinesHoldPrints'
    <3> SUFFICES ASSUME NEW l \in Lines, want'[l] # None, NEW c \in 0 .. (COLS - 1)
                 PROVE  Showing(buffer', l * COLS + c) = RowsOf(want'[l], c)
      BY DEF LinesHoldPrints, Showing, RowsOf
    <3> QED
      BY <2>5, <2>6 DEF LinesHoldPrints
  <2>8. PanelLags'
    <3>1. CASE Fits(text)
      BY <2>3, <3>1 DEF PanelLags, Showing
    <3>2. CASE ~Fits(text)
      <4> SUFFICES ASSUME NEW o \in Bytes, Showing(panel', o) # Showing(buffer', o)
                   PROVE  want'[o \div COLS] # None /\ Len(want'[o \div COLS].text) > LineLength
        BY DEF PanelLags, Showing
      <4> DEFINE l == o \div COLS
                 c == o % COLS
      <4>1. l \in Lines /\ c \in 0 .. (COLS - 1) /\ o = l * COLS + c
        BY PlaceOf
      <4> HIDE DEF l, c
      <4>2. CASE l = line
        <5>1. print # None
          BY ScreenAssumption DEF Prints, print
        <5>2. Len(text) > LineLength
          BY <2>2, <3>2, Sizes DEF Fits
        <5> QED
          BY <2>5, <4>2, <5>1, <5>2 DEF l
      <4>3. CASE l # line
        <5>1. Showing(buffer', o) = Showing(buffer, o)
          BY <2>6, <4>1, <4>3
        <5>2. Showing(panel, o) # Showing(buffer, o)
          BY <2>3, <3>2, <5>1
        <5> QED
          BY <2>5, <4>1, <4>3, <5>2 DEF PanelLags, l
      <4> QED
        BY <4>2, <4>3
    <3> QED
      BY <3>1, <3>2
  <2> QED
    BY <2>3, <2>7, <2>8
<1>2. ASSUME NEW white \in BOOLEAN, SysScreenClear(white) PROVE ShowInv'
  <2>1. /\ pc' = "idle" /\ buffer' = Filled(white) /\ panel' = buffer'
        /\ want' = [l \in Lines |-> [text |-> <<>>, invert |-> white]]
    BY <1>2 DEF SysScreenClear
  <2>2. LinesHoldPrints'
    <3> SUFFICES ASSUME NEW l \in Lines, NEW c \in 0 .. (COLS - 1)
                 PROVE  Showing(buffer', l * COLS + c) = RowsOf(want'[l], c)
      BY DEF LinesHoldPrints, Showing, RowsOf
    <3>2. Showing(Filled(white), l * COLS + c) = RowsOf([text |-> <<>>, invert |-> white], c)
      BY ClearedLine
    <3>3. want'[l] = [text |-> <<>>, invert |-> white]
      BY <2>1
    <3> QED
      BY <2>1, <3>2, <3>3, Zenon
  <2> QED
    BY <2>1, <2>2 DEF PanelLags, Showing
<1>3. ASSUME panel' = buffer', want' = NoPrint PROVE ShowInv'
  BY <1>3 DEF LinesHoldPrints, PanelLags, Showing, NoPrint
<1>4. ASSUME ScreensaverStart PROVE ShowInv'
  BY <1>3, <1>4 DEF ScreensaverStart
<1>5. ASSUME ScreensaverFrame PROVE ShowInv'
  BY <1>3, <1>5 DEF ScreensaverFrame
<1>6. ASSUME IntroStart PROVE ShowInv'
  BY <1>3, <1>6 DEF IntroStart
<1>7. ASSUME IntroFrame PROVE ShowInv'
  BY <1>3, <1>7 DEF IntroFrame
<1>8. ASSUME UNCHANGED vars PROVE ShowInv'
  BY <1>8 DEF vars, LinesHoldPrints, PanelLags, Showing, RowsOf
<1> QED
  BY <1>1, <1>2, <1>4, <1>5, <1>6, <1>7, <1>8 DEF Next

\* ShowInv holds throughout.
LEMMA ShowInvariance == Spec => []ShowInv
<1>1. Init => ShowInv
  BY DEF Init, ShowInv, LinesHoldPrints, PanelLags, NoPrint, Showing
<1> QED
  BY <1>1, Invariance, ShowSteps, PTL DEF Spec

-----------------------------------------------------------------------------
(* The intro animation. *)

\* The pixels of the display are those of its rows and columns, each of one of them.
LEMMA PixelOf ==
    ASSUME NEW row \in 0 .. (DISPLAY_ROWS - 1), NEW c \in 0 .. (COLS - 1)
    PROVE  /\ PixelAt(row, c) \in Pixels
           /\ \A y \in Nat : PixelAt(row, c) \in RowPixels(y) <=> y = row
           /\ \A y \in Nat, d \in 0 .. (COLS - 1) : PixelAt(row, c) = PixelAt(y, d) <=> y = row /\ d = c
<1>1. FONT \in Nat \ {0} /\ COLS \in Nat \ {0} /\ row \in Nat
  BY Sizes
<1>2. \A y \in Nat : y \div FONT \in Nat /\ y % FONT \in Rows /\ y = FONT * (y \div FONT) + (y % FONT)
  BY <1>1 DEF Rows
<1>3. \A y \in Nat, z \in Nat : y \div FONT = z \div FONT /\ y % FONT = z % FONT <=> y = z
  BY <1>2, Zenon
<1>4. \A y \in Nat, d \in 0 .. (COLS - 1) :
          Offset(y, d) \div COLS = y \div FONT /\ Offset(y, d) % COLS = d
  BY <1>1, <1>2, Parts DEF Offset
<1>5. PixelAt(row, c) \in Pixels
  BY <1>1, <1>2, OffsetOf DEF PixelAt, Pixels
<1>6. \A y \in Nat, d \in 0 .. (COLS - 1) : PixelAt(row, c) = PixelAt(y, d) => y = row /\ d = c
  <2> SUFFICES ASSUME NEW y \in Nat, NEW d \in 0 .. (COLS - 1), PixelAt(row, c) = PixelAt(y, d)
               PROVE  y = row /\ d = c
    OBVIOUS
  <2>1. Offset(row, c) = Offset(y, d) /\ row % FONT = y % FONT
    BY DEF PixelAt
  <2>2. row \div FONT = y \div FONT /\ d = c
    BY <1>1, <1>4, <2>1
  <2> QED
    BY <1>1, <1>3, <2>1, <2>2
<1>7. ASSUME NEW y \in Nat PROVE PixelAt(row, c) \in RowPixels(y) <=> y = row
  <2>1. PixelAt(row, c) \in RowPixels(y) <=>
            RowThere(y) /\ \E d \in 0 .. (COLS - 1) : PixelAt(row, c) = PixelAt(y, d)
    BY DEF RowPixels, RowBytes, PixelAt
  <2>2. RowThere(row)
    BY <1>1, Sizes DEF RowThere
  <2> QED
    BY <1>6, <2>1, <2>2
<1> QED
  BY <1>5, <1>6, <1>7

\* What the name covers and what it lights of a pixel.
NameLit(row, c) == InName(row, c) /\ row - NameY \in LitRows(NameX, Name, c)

LEMMA NameDrawn ==
    ASSUME NEW row \in 0 .. (DISPLAY_ROWS - 1), NEW c \in 0 .. (COLS - 1)
    PROVE  /\ PixelAt(row, c) \in Area(NameX, NameY, Name) <=> InName(row, c)
           /\ PixelAt(row, c) \in LitPixels(NameX, NameY, Name) <=> NameLit(row, c)
<1>1. /\ FONT \in Nat \ {0} /\ COLS \in Nat \ {0} /\ LineLength \in Nat \ {0} /\ row \in Nat
      /\ NameX \in Nat /\ NameY \in Nat /\ Len(Name) \in Nat
  BY Sizes, Strings DEF NameX, NameY
<1> DEFINE n == Len(Cut(Name))
<1>2. n \in Nat /\ n <= Len(Name)
  <2> HIDE DEF LineLength
  <2> QED
    BY <1>1 DEF Cut
<1>3. n * FONT \in Nat /\ Len(Name) * FONT \in Nat /\ n * FONT <= Len(Name) * FONT
  BY <1>1, <1>2, Times
<1>4. NameX + Len(Name) * FONT <= COLS
  BY NameAssumption
<1>5. Columns(NameX, Name) = NameX .. (NameX + n * FONT - 1)
  BY DEF Columns
<1> HIDE DEF n
<1>6. Columns(NameX, Name) \subseteq 0 .. (COLS - 1)
  BY <1>1, <1>3, <1>4, <1>5
<1>7. \A col \in Columns(NameX, Name) : LitRows(NameX, Name, col) \subseteq Rows
  <2> SUFFICES ASSUME NEW col \in Columns(NameX, Name) PROVE LitRows(NameX, Name, col) \subseteq Rows
    OBVIOUS
  <2> DEFINE d == col - NameX
             q == d \div FONT
  <2>1. d \in Nat /\ d < n * FONT
    BY <1>1, <1>3, <1>5
  <2> HIDE DEF d
  <2>2. q \in Nat /\ d % FONT \in Rows /\ d = FONT * q + (d % FONT) /\ FONT * q = q * FONT /\ q * FONT \in Nat
    BY <1>1, <2>1 DEF Rows
  <2> HIDE DEF q
  <2>3. q * FONT <= d
    BY <1>1, <2>1, <2>2 DEF Rows
  <2>4. q < n
    <3> SUFFICES ASSUME n <= q PROVE FALSE
      BY <1>2, <2>2
    <3>1. n * FONT <= q * FONT
      BY <1>1, <1>2, <2>2, Times
    <3> QED
      BY <1>3, <2>1, <2>2, <2>3, <3>1
  <2>5. Cut(Name)[1 + q] \in DOMAIN Glyph
    <3>1. Name \in Seq(DOMAIN Glyph) /\ DOMAIN Name = 1 .. Len(Name)
      BY Strings
    <3>2. 1 + q \in 1 .. n /\ 1 + q \in 1 .. Len(Name)
      BY <1>1, <1>2, <2>2, <2>4
    <3>3. Cut(Name)[1 + q] = Name[1 + q]
      <4> DEFINE m == IF Len(Name) > LineLength THEN LineLength ELSE Len(Name)
      <4>1. Cut(Name) = SubSeq(Name, 1, m)
        BY DEF Cut
      <4>2. m \in Nat
        BY <1>1
      <4> HIDE DEF m
      <4>3. n = m
        BY <1>1, <4>1, <4>2 DEF n
      <4> QED
        BY <3>2, <4>1, <4>2, <4>3
    <3> QED
      BY <3>1, <3>2, <3>3, ElementOfSeq
  <2>6. Glyph[Cut(Name)[1 + q]] \in [Rows -> SUBSET Rows]
    BY <2>5, ScreenAssumption
  <2>7. LitRows(NameX, Name, col) = Glyph[Cut(Name)[1 + q]][d % FONT]
    BY DEF LitRows, d, q
  <2> QED
    BY <2>2, <2>6, <2>7
<1>8. \A r \in Rows, col \in Columns(NameX, Name) :
          PixelAt(row, c) = PixelAt(NameY + r, col) <=> NameY + r = row /\ col = c
  <2>1. \A r \in Rows : NameY + r \in Nat
    BY <1>1 DEF Rows
  <2> QED
    BY <1>6, <2>1, PixelOf
<1>9. PixelAt(row, c) \in Area(NameX, NameY, Name) <=>
          \E r \in Rows, col \in Columns(NameX, Name) : NameY + r = row /\ col = c
  BY <1>8 DEF Area
<1>10. PixelAt(row, c) \in LitPixels(NameX, NameY, Name) <=>
          \E col \in Columns(NameX, Name) : \E r \in LitRows(NameX, Name, col) : NameY + r = row /\ col = c
  <2>1. PixelAt(row, c) \in LitPixels(NameX, NameY, Name) <=>
          \E col \in Columns(NameX, Name) : \E r \in LitRows(NameX, Name, col) :
              PixelAt(row, c) = PixelAt(NameY + r, col)
    BY DEF LitPixels
  <2> QED
    BY <1>7, <1>8, <2>1
<1>11. \A r \in Rows : NameY + r = row => r = row - NameY /\ row \in NameY .. (NameY + FONT - 1)
  BY <1>1 DEF Rows
<1>12. row \in NameY .. (NameY + FONT - 1) => row - NameY \in Rows /\ NameY + (row - NameY) = row
  BY <1>1 DEF Rows
<1> QED
  BY <1>7, <1>9, <1>10, <1>11, <1>12 DEF InName, NameLit

\* While the animation runs its counter is a row of the display.
WipeInv == /\ WipesAroundName
           /\ i \in Nat /\ (pc # "intro" => i = 0) /\ (pc = "intro" => i < DISPLAY_ROWS)

LEMMA WipeSteps ==
    ASSUME WipeInv, [Next]_vars
    PROVE  WipeInv'
<1> USE DEF WipeInv
<1>0. DISPLAY_ROWS \in Nat /\ 0 < DISPLAY_ROWS
  BY Sizes
<1>1. ASSUME NEW line \in 0 .. PAGES, NEW text \in Texts, NEW invert \in BOOLEAN,
             SysScreenPrint(line, text, invert)
      PROVE  WipeInv'
  BY <1>1 DEF SysScreenPrint, WipesAroundName
<1>2. ASSUME NEW white \in BOOLEAN, SysScreenClear(white) PROVE WipeInv'
  BY <1>2 DEF SysScreenClear, WipesAroundName
<1>3. CASE ScreensaverStart
  BY <1>3 DEF ScreensaverStart, WipesAroundName
<1>4. CASE ScreensaverFrame
  BY <1>4 DEF ScreensaverFrame, WipesAroundName
<1>5. CASE IntroStart
  <2>1. pc' = "intro" /\ i' = 0 /\ buffer' = Pixels
    BY <1>5 DEF IntroStart
  <2>2. WipesAroundName'
    <3> SUFFICES ASSUME NEW row \in 0 .. (DISPLAY_ROWS - 1), NEW c \in 0 .. (COLS - 1)
                 PROVE  row = 0 \/ row > 0
      BY <2>1, PixelOf DEF WipesAroundName
    <3> QED
      BY <1>0
  <2> QED
    BY <1>0, <2>1, <2>2
<1>6. CASE IntroFrame
  <2>1. /\ pc = "intro" /\ i \in Nat
        /\ buffer' = DrawRow(ClearRow(AddString(buffer, NameX, NameY, Name, TRUE), i), i + 1)
        /\ IF i + 1 < DISPLAY_ROWS THEN i' = i + 1 /\ pc' = "intro" ELSE i' = 0 /\ pc' = "idle"
    BY <1>6 DEF IntroFrame
  <2>2. CASE ~(i + 1 < DISPLAY_ROWS)
    BY <2>1, <2>2 DEF WipesAroundName
  <2>3. CASE i + 1 < DISPLAY_ROWS
    <3>1. i' = i + 1 /\ pc' = "intro"
      BY <2>1, <2>3
    <3>2. ASSUME NEW row \in 0 .. (DISPLAY_ROWS - 1), NEW c \in 0 .. (COLS - 1)
          PROVE  PixelAt(row, c) \in buffer' <=>
                    \/ row = i + 1
                    \/ row > i + 1 /\ ~NameLit(row, c)
                    \/ row < i /\ InName(row, c) /\ ~NameLit(row, c)
      <4>1. PixelAt(row, c) \in buffer <=>
                \/ row = i
                \/ row > i /\ ~(i > 0 /\ NameLit(row, c))
                \/ row < i - 1 /\ InName(row, c) /\ ~NameLit(row, c)
        BY <2>1, <3>2 DEF WipesAroundName, NameLit
      <4>2. PixelAt(row, c) \in buffer' <=>
                \/ row = i + 1
                \/ /\ row # i
                   /\ PixelAt(row, c) \in buffer \/ InName(row, c)
                   /\ ~NameLit(row, c)
        <5>1. i + 1 \in Nat
          BY <2>1
        <5> QED
          BY <2>1, <3>2, <5>1, PixelOf, NameDrawn DEF DrawRow, ClearRow, AddString
      <4>3. NameLit(row, c) => InName(row, c)
        BY DEF NameLit
      <4> HIDE DEF WipeInv
      <4>4. row \in Int /\ i \in Nat
        BY <2>1
      <4> QED
        BY <4>1, <4>2, <4>3, <4>4
    <3>3. (i + 1) - 1 = i /\ i + 1 > 0
      BY <2>1
    <3>4. WipesAroundName'
      BY <3>1, <3>2, <3>3 DEF WipesAroundName, InName, NameLit
    <3> QED
      BY <2>1, <2>3, <3>1, <3>4
  <2> QED
    BY <2>2, <2>3
<1>7. CASE UNCHANGED vars
  BY <1>7 DEF vars, WipesAroundName
<1> QED
  BY <1>1, <1>2, <1>3, <1>4, <1>5, <1>6, <1>7 DEF Next

-----------------------------------------------------------------------------
(* The theorems. *)

\* The text of the screensaver stays on the display but for one column.
THEOREM ScreenTypes == Spec => []TypeOK
<1>1. Inv => TypeOK
  BY DEF Inv
<1> QED
  BY <1>1, Invariance, PTL

\* No system call writes past displaybuffer, and the screensaver (screensaver.c:18-32)
\* writes one byte past it at most, whatever the sizes.
THEOREM WritesOneBytePast == Spec => []OneBytePast
<1>1. Inv => OneBytePast
  BY DEF Inv
<1> QED
  BY <1>1, Invariance, PTL

\* Every line shows its last print, whatever was printed before and on which line
\* (syscalls.c:24-36, display.c:192-246), for every panel, font and text.
THEOREM LinesShowPrints == Spec => []LinesHoldPrints
<1>1. ShowInv => LinesHoldPrints
  BY DEF ShowInv
<1> QED
  BY <1>1, ShowInvariance, PTL

\* The panel lags behind displaybuffer only where a text did not fit (syscalls.c:34).
THEOREM PanelLagsOnly == Spec => []PanelLags
<1>1. ShowInv => PanelLags
  BY DEF ShowInv
<1> QED
  BY <1>1, ShowInvariance, PTL

\* The animation wipes the display around the name: a frame draws the name, clears a
\* row and draws the next one over what the frames before it left (animation.c:33-40).
THEOREM WipeSparesName == Spec => []WipesAroundName
<1>1. Init => WipeInv
  BY DEF Init, WipeInv, WipesAroundName
<1>2. WipeInv => WipesAroundName
  BY DEF WipeInv
<1> QED
  BY <1>1, <1>2, WipeSteps, PTL DEF Spec
=============================================================================
