------------------------------- MODULE Panel --------------------------------
(***************************************************************************)
(* display_update (display.c:264-282) byte by byte: spi_send_recv over the *)
(* SPI module, the pin that tells commands from data, and the panel.       *)
(*                                                                         *)
(* The update may be abandoned between any two of its steps: the menus run *)
(* with interrupts enabled, and the handler of a late timer 3 flag leaves  *)
(* by a jump (KernelControl, ResumesLiveFrame).  The next menu starts      *)
(* another update on the module and the panel as they were left.           *)
(*                                                                         *)
(* The SPI module and the panel are external: a byte written to SPI2BUF    *)
(* goes to the shift register as soon as that is free; its end sets RBF,   *)
(* and the panel takes the byte as the pin says at that moment.            *)
(***************************************************************************)
EXTENDS Integers

CONSTANTS
    PAGES, COLS,    \* 4 and 128 in the code
    Low,            \* columns that the low column command reaches: 16
    Byte,           \* the bytes of a picture
    SetPage,        \* the byte 0x22
    SetPageAsPage,  \* the page that byte selects when taken for a page: 2
    LowColumn,      \* the byte 0x00: column 0 of the low ones
    HighColumn,     \* the byte 0x10: and of the high ones
    Images,         \* contents of displaybuffer
    None,           \* nothing in a register of the SPI module, nothing known
    MaxAbandoned    \* bound: how many updates are abandoned

PageNumbers == 0 .. PAGES - 1
Columns == 0 .. COLS - 1
Modes == {"command", "data"}
Commands == {SetPage, LowColumn, HighColumn}
PerPage == 4 + COLS     \* bytes of an update: four commands and a row of data

Flights == [byte : PageNumbers \cup Commands, mode : {"command"}]
             \cup [byte : Byte, mode : {"data"}]
Panels == [mem : [PageNumbers -> [Columns -> Byte]],
           page : PageNumbers, col : Columns, operand : BOOLEAN]

ASSUME PanelAssumption ==
    /\ {PAGES, COLS, Low} \subseteq Nat \ {0}
    /\ COLS % Low = 0 /\ PAGES <= Low
    /\ MaxAbandoned \in Nat
    /\ Images \subseteq [PageNumbers -> [Columns -> Byte]]
    /\ SetPageAsPage \in PageNumbers
    /\ SetPage # LowColumn /\ SetPage # HighColumn /\ LowColumn # HighColumn
    /\ Commands \cap PageNumbers = {}
    /\ None \notin Flights /\ None \notin Panels

VARIABLES
    \* the driver
    buffer,     \* displaybuffer
    pc,         \* "idle", "select", "put" or "get"
    i, k,       \* the page and how many of its bytes this update has sent
    \* the SPI module and the pin
    mode,       \* what the pin says: "command" or "data"
    txb, sr,    \* SPI2BUF waiting to be shifted and the shift register
    rbf,        \* SPI2STAT.SPIRBF
    \* the panel
    panel,      \* its memory, page, column, and whether a page is to follow;
                \* None once it has taken a byte in the wrong mode
    \* history
    skewed,     \* an update was abandoned between the write and the read of a byte
    dirty,      \* this update started when the panel expected a page number
    complete,   \* the last update returned
    abandoned   \* updates abandoned so far
driver == <<buffer, pc, i, k>>
spi == <<txb, sr, rbf>>
history == <<skewed, dirty, complete, abandoned>>
vars == <<driver, mode, spi, panel, history>>

----------------------------------------------------------------------------
(* What is sent as byte `place` of page `page`. *)

ModeOf(place) == IF place < 4 THEN "command" ELSE "data"

\* The mutant leaves the high part of the column as it is.
SentLow(page, place) ==
    IF place = 0 THEN SetPage
    ELSE IF place = 1 THEN page
    ELSE IF place \in {2, 3} THEN LowColumn
    ELSE buffer[page][place - 4]
Sent(page, place) ==
    IF place = 0 THEN SetPage
    ELSE IF place = 1 THEN page
    ELSE IF place = 2 THEN LowColumn
    ELSE IF place = 3 THEN HighColumn
    ELSE buffer[page][place - 4]

----------------------------------------------------------------------------
(* The driver. *)

DisplayUpdate(image) ==
    /\ pc = "idle"
    /\ buffer' = image
    /\ i' = 0 /\ k' = 0
    /\ pc' = "select"
    /\ dirty' = (panel # None /\ panel.operand) /\ complete' = FALSE
    /\ UNCHANGED <<mode, spi, panel, skewed, abandoned>>

\* The pin moves before the commands of a page and before its data.
Selects(place) == place \in {0, 4}
Select ==
    /\ pc = "select"
    /\ mode' = IF Selects(k) THEN ModeOf(k) ELSE mode
    /\ pc' = "put"
    /\ UNCHANGED <<buffer, i, k, spi, panel, history>>

\* spi_send_recv: wait until the transmit buffer is empty and write.
Put ==
    /\ pc = "put"
    /\ txb = None                                       \* SPITBE
    /\ txb' = [byte |-> Sent(i, k), mode |-> ModeOf(k)]
    /\ pc' = "get"
    /\ UNCHANGED <<buffer, i, k, mode, sr, rbf, panel, history>>

\* Wait until a byte has been received and read it.  The mutant only waits until
\* the next one can be written.
AnsweredEarly == txb = None
Answered == rbf

\* The next byte of the page, the next page, or the end.
Advance ==
    IF k + 1 < PerPage THEN k' = k + 1 /\ pc' = "select" /\ UNCHANGED <<i, complete>>
    ELSE IF i + 1 < PAGES THEN i' = i + 1 /\ k' = 0 /\ pc' = "select" /\ UNCHANGED complete
    ELSE i' = 0 /\ k' = 0 /\ pc' = "idle" /\ complete' = TRUE

Get ==
    /\ pc = "get"
    /\ Answered
    /\ rbf' = FALSE
    /\ Advance
    /\ UNCHANGED <<buffer, mode, txb, sr, panel, skewed, dirty, abandoned>>

\* The handler of a late timer 3 flag jumps away.
Abandoned ==
    /\ pc # "idle" /\ abandoned < MaxAbandoned
    /\ pc' = "idle" /\ i' = 0 /\ k' = 0
    /\ skewed' = (skewed \/ pc = "get")
    /\ abandoned' = abandoned + 1
    /\ UNCHANGED <<buffer, mode, spi, panel, dirty, complete>>

----------------------------------------------------------------------------
(* The SPI module and the panel. *)

Load ==
    /\ txb # None /\ sr = None
    /\ sr' = txb /\ txb' = None
    /\ UNCHANGED <<driver, mode, rbf, panel, history>>

\* A command byte: the page of a page command, a page command, the high columns,
\* or the low ones, with the column in the byte.
Commanded(p, byte) ==
    IF p.operand
    THEN [p EXCEPT !.operand = FALSE,
                   !.page = IF byte \in PageNumbers THEN byte ELSE SetPageAsPage]
    ELSE IF byte = SetPage THEN [p EXCEPT !.operand = TRUE]
    ELSE IF byte = HighColumn THEN [p EXCEPT !.col = @ % Low]
    ELSE [p EXCEPT !.col = @ - (@ % Low) + (IF byte \in PageNumbers THEN byte ELSE 0)]

\* A byte of a picture: the columns wrap in their page.
Painted(p, byte) ==
    [p EXCEPT !.mem[p.page][p.col] = byte, !.col = IF @ + 1 < COLS THEN @ + 1 ELSE 0]

\* A byte has been shifted out.  What the panel does after it has taken one in the
\* wrong mode is not modelled.  A second byte received before the first is read
\* is lost.
Shifted ==
    /\ sr # None
    /\ sr' = None
    /\ rbf' = TRUE
    /\ panel' = IF panel = None \/ sr.mode # mode THEN None
                ELSE IF mode = "command" THEN Commanded(panel, sr.byte)
                ELSE Painted(panel, sr.byte)
    /\ UNCHANGED <<driver, mode, txb, history>>

----------------------------------------------------------------------------

Init ==
    /\ buffer \in Images
    /\ pc = "idle" /\ i = 0 /\ k = 0
    /\ mode = "command"
    /\ txb = None /\ sr = None /\ rbf = FALSE
    /\ panel \in [mem : Images, page : {0}, col : {0}, operand : {FALSE}]
    /\ skewed = FALSE /\ dirty = FALSE /\ complete = FALSE
    /\ abandoned = 0

Next ==
    \/ \E image \in Images : DisplayUpdate(image)
    \/ Select \/ Put \/ Get \/ Abandoned
    \/ Load \/ Shifted

Spec == Init /\ [][Next]_vars

----------------------------------------------------------------------------
(* Correctness. *)

TypeOK ==
    /\ buffer \in Images
    /\ pc \in {"idle", "select", "put", "get"}
    /\ i \in PageNumbers /\ k \in 0 .. PerPage - 1
    /\ mode \in Modes
    /\ txb \in Flights \cup {None} /\ sr \in Flights \cup {None}
    /\ panel \in Panels \cup {None}
    /\ rbf \in BOOLEAN /\ skewed \in BOOLEAN /\ dirty \in BOOLEAN /\ complete \in BOOLEAN
    /\ abandoned \in 0 .. MaxAbandoned

\* The panel takes every byte as a command or as data as display_update meant
\* it, though the pin is moved without asking the SPI module: a send returns
\* only when its byte has been shifted (display.c:81-86).  It no longer does once
\* an update has been abandoned between a write and its read: RBF stays set, and
\* every later send returns one byte early, until the next reset.
ShiftedInMode == panel = None => skewed

\* An update that returns has brought the whole buffer to the panel, whatever
\* earlier ones were abandoned at, with two exceptions: the skew above, and an
\* update abandoned between the page command and its page, which makes the next
\* one (and that one only) paint its first page elsewhere.
PanelShowsBuffer ==
    pc = "idle" /\ complete /\ ~skewed /\ ~dirty => panel.mem = buffer
=============================================================================
