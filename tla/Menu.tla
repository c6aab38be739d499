-------------------------------- MODULE Menu --------------------------------
(***************************************************************************)
(* The menus: display_menu, render_menu and help_menu (menu.c), main_menu  *)
(* and program_selector (ui.c).  All input is the level of four buttons,   *)
(* which the user presses and releases at any moment, several at a time,   *)
(* and which nested menus poll one after the other.                        *)
(***************************************************************************)
EXTENDS Integers, FiniteSets

CONSTANTS
    Word,       \* the size of a pointer, which sizeof counts: 4
    MainItems,  \* the items of main_menu, 6
    Lines,      \* lines of the display, 4
    MAX_FILES   \* the files that program_selector lists at most

ASSUME MenuAssumption == /\ {Word, Lines, MAX_FILES} \subseteq Nat \ {0}
                         /\ MainItems \in Nat /\ MainItems > 5 /\ Lines <= MainItems

SEL == 1
DOWN == 2
UP == 3
EXIT == 4
Buttons == {SEL, DOWN, UP, EXIT}

VARIABLES
    pc,        \* what runs
    menu,      \* the list that display_menu shows
    items,     \* its number of elements
    length,    \* display_menu's length
    selected,  \* display_menu's selected
    changed,   \* has_changed
    snap,      \* bits of btn that are not handled yet
    btns,      \* the buttons that are down
    screen,    \* the items on the display, and the inverted one
    acted      \* history: buttons acted on since they went down

list == <<menu, items, length>>
view == <<selected, changed, snap>>
vars == <<pc, list, view, btns, screen, acted>>

NoScreen == [shown |-> {}, inverted |-> -1]

TypeOK ==
    /\ pc \in {"help", "loop", "handle", "away", "list", "run", "result", "release", "wild"}
    /\ menu \in {"main", "programs"}
    /\ items \in 1..(MainItems + MAX_FILES) /\ length \in items..(Word * items)
    /\ selected \in 0..(length - 1) /\ changed \in BOOLEAN
    /\ snap \subseteq Buttons /\ btns \subseteq Buttons /\ acted \subseteq Buttons
    /\ screen.shown \subseteq Nat /\ Cardinality(screen.shown) <= Lines

Init == /\ pc = "help" /\ btns \in SUBSET Buttons
        /\ menu = "main" /\ items = MainItems /\ length = Word * MainItems
        /\ selected = 0 /\ changed = TRUE /\ snap = {}
        /\ screen = NoScreen /\ acted = {}

-----------------------------------------------------------------------------
(* The user.                                                               *)

Press(b) == /\ b \notin btns /\ btns' = btns \cup {b}
            /\ acted' = acted \ {b}
            /\ UNCHANGED <<pc, list, view, screen>>

Release(b) == /\ b \in btns /\ btns' = btns \ {b}
              /\ UNCHANGED <<pc, list, view, screen, acted>>

-----------------------------------------------------------------------------
(* display_menu                                                            *)

Goto(from, to) == /\ pc = from
                  /\ pc' = to
                  /\ UNCHANGED btns

(* A call of display_menu from main_menu, and from program_selector.       *)
Enter(m, n, len) == /\ menu' = m /\ items' = n /\ length' = len
                    /\ selected' = 0 /\ changed' = TRUE /\ snap' = {}
                    /\ UNCHANGED screen

(* main_menu takes the size of its array for its length.                   *)
EnterMain == Enter("main", MainItems, Word * MainItems)

(* The window scrolls so that the selected item is the last line.          *)
RenderMenu(len, sel) ==
    LET first == IF sel < Lines - 1 THEN 0 ELSE sel - (Lines - 1)
    IN  [shown |-> {i \in first..(first + Lines - 1) : i - first < len}, inverted |-> sel]

(* Drawing an element that is not there may end anywhere: nothing that     *)
(* follows "wild" is modelled.                                             *)
Render == /\ changed
          /\ screen' = RenderMenu(length, selected)
          /\ \/ Goto("loop", "loop")
             \/ /\ ~(RenderMenu(length, selected).shown \subseteq 0..(items - 1))
                /\ Goto("loop", "wild")
          /\ changed' = FALSE
          /\ UNCHANGED <<list, selected, snap, acted>>

Getbtns == /\ ~changed /\ Goto("loop", "handle")
           /\ snap' = btns
           /\ UNCHANGED <<list, selected, changed, screen, acted>>

(* The bits of btn are looked at in this order; for all but EXIT the       *)
(* button's release is waited for.                                         *)
FirstLast(b) == b \in snap /\ \A c \in snap : c <= b   \* mutant: in the reverse order

First(b) == b \in snap /\ \A c \in snap : b <= c

Act(b) == acted' = acted \cup {b}

MoveAtOnce(b, allowed, to) ==   \* mutant: the release is not waited for
    /\ First(b)
    /\ Goto("handle", "handle") /\ Act(b)
    /\ selected' = IF allowed THEN to ELSE selected
    /\ changed' = (changed \/ allowed)
    /\ snap' = snap \ {b}
    /\ UNCHANGED <<list, screen>>

MovePressed(b, allowed, to) ==   \* mutant: the next press is waited for
    /\ First(b) /\ b \in btns
    /\ Goto("handle", "handle") /\ Act(b)
    /\ selected' = IF allowed THEN to ELSE selected
    /\ changed' = (changed \/ allowed)
    /\ snap' = snap \ {b}
    /\ UNCHANGED <<list, screen>>

MoveUnseen(b, allowed, to) ==   \* mutant: has_changed is not set
    /\ First(b) /\ b \notin btns
    /\ Goto("handle", "handle") /\ Act(b)
    /\ selected' = IF allowed THEN to ELSE selected
    /\ snap' = snap \ {b}
    /\ UNCHANGED <<list, changed, screen>>

Move(b, allowed, to) ==
    /\ First(b) /\ b \notin btns
    /\ Goto("handle", "handle") /\ Act(b)
    /\ selected' = IF allowed THEN to ELSE selected
    /\ changed' = (changed \/ allowed)
    /\ snap' = snap \ {b}
    /\ UNCHANGED <<list, screen>>

Down == Move(DOWN, selected < length - 1, selected + 1)
Up   == Move(UP, selected > 0, selected - 1)

Again == /\ snap = {} /\ Goto("handle", "loop")
         /\ UNCHANGED <<list, view, screen, acted>>

(* display_menu returns -1; main_menu calls it again, program_selector     *)
(* returns to main_menu, which does.                                       *)
Exit == /\ First(EXIT) /\ Goto("handle", "loop") /\ Act(EXIT)
        /\ EnterMain

(* display_menu returns selected: the switch of main_menu, or run_file.    *)
Select ==
    /\ First(SEL) /\ SEL \notin btns /\ Act(SEL)
    /\ \/ /\ menu = "main"
          /\ \/ selected = 0 /\ Goto("handle", "help")
             \/ selected = 3 /\ Goto("handle", "list")
             \/ selected \in {1, 2, 4, 5} /\ Goto("handle", "away")
             \/ selected > 5 /\ Goto("handle", "loop")
       \/ menu = "programs" /\ Goto("handle", "run")
    /\ IF pc' = "loop" THEN EnterMain ELSE UNCHANGED <<list, view, screen>>

-----------------------------------------------------------------------------
(* help_menu, program_selector, and what main_menu calls.                  *)

Help == /\ EXIT \in btns
        /\ Goto("help", "loop")
        /\ EnterMain
        /\ UNCHANGED acted

(* The screensaver, the tests and the animation, each of which ends when   *)
(* it likes; they draw what they like.                                     *)
Away == /\ Goto("away", "loop")
        /\ EnterMain
        /\ UNCHANGED acted

ListFiles ==
    /\ Goto("list", "loop")
    /\ \/ EnterMain                                         \* none, or an error
       \/ \E n \in 1..MAX_FILES : Enter("programs", n, n)
    /\ UNCHANGED acted

RunFile ==
    /\ \/ /\ Goto("run", "loop")                             \* it could not be loaded
          /\ EnterMain
       \/ /\ Goto("run", "result")
          /\ screen' = NoScreen
          /\ UNCHANGED <<list, view>>
    /\ UNCHANGED acted

ResultSeen == /\ btns # {}
              /\ Goto("result", "release")
              /\ UNCHANGED <<list, view, screen, acted>>

ResultLeft == /\ btns = {}
              /\ Goto("release", "loop")
              /\ EnterMain
              /\ UNCHANGED acted

Program == \/ Render \/ Getbtns \/ Down \/ Up \/ Again \/ Exit \/ Select
           \/ Help \/ Away \/ ListFiles \/ RunFile \/ ResultSeen \/ ResultLeft

Next == Program \/ (\E b \in Buttons : Press(b) \/ Release(b))

Spec == Init /\ [][Next]_vars

FairSpec == Spec /\ WF_vars(Program)

-----------------------------------------------------------------------------
(* When display_menu reads the buttons, the display shows the selected     *)
(* item, inverted, among as many neighbours as there are lines: no move    *)
(* is left undrawn (has_changed and the window of render_menu).  They are  *)
(* elements of the list (menu.c:62) until the user has moved past the last *)
(* one, which the main menu, whose length is sizeof(menuItems), lets him.  *)
ScreenShowsSelection ==
    pc \in {"loop", "handle"} /\ ~changed =>
        /\ screen.inverted = selected /\ selected \in screen.shown
        /\ Cardinality(screen.shown) = (IF length < Lines THEN length ELSE Lines)
        /\ screen.shown \subseteq 0..(length - 1)
        /\ (menu = "programs" \/ selected < items) => screen.shown \subseteq 0..(items - 1)

(* A button that goes down moves or selects once, however long it stays    *)
(* down, whatever the other buttons do meanwhile and whichever menu reads  *)
(* it next.  (EXIT is the exception in the code: it is not waited for.)    *)
OncePerPress ==
    [][\A b \in {SEL, DOWN, UP} :
          pc = "handle" /\ First(b) /\ (snap' # snap \/ pc' # pc) => b \notin acted]_vars

(* What is run is what was shown inverted when the button was looked at.   *)
RunsWhatIsShown ==
    [][(pc = "handle" /\ pc' \in {"run", "help", "list", "away"})
           => screen.inverted = selected]_vars

(* A button held down does not lock a menu up: once all of them stay       *)
(* released, whoever runs is never left waiting for a release, with other  *)
(* bits of btn still to handle.                                            *)
ReadsAgain == <>[](btns = {}) => []<>(pc \notin {"handle", "release"})
=============================================================================
