----------------------------- MODULE Menu_proofs -----------------------------
(***************************************************************************)
(* Proofs about Menu, for displays and lists of any length: what is shown  *)
(* when the buttons are read, what a button runs, and that it acts once.   *)
(***************************************************************************)
EXTENDS Menu, FiniteSetTheorems, TLAPS

\* The main menu is longer for display_menu than it is; a list of programs is not.
ListInv ==
    /\ menu = "main" => items = MainItems /\ length = Word * MainItems
    /\ menu = "programs" => items \in 1..MAX_FILES /\ length = items

\* Whenever a move is still to be drawn, SEL is not among the bits that are left:
\* the first bit is looked at first.  What is drawn is drawn from the selection.
DrawnInv ==
    /\ pc \in {"loop", "handle"} /\ ~changed => screen = RenderMenu(length, selected)
    /\ pc = "handle" /\ changed => SEL \notin snap

\* A button that acted is up, but for EXIT; the bits left are of buttons that did not act.
ActedInv ==
    /\ acted \cap btns \subseteq {EXIT}
    /\ pc = "handle" => acted \cap snap \subseteq {EXIT}

Inv == TypeOK /\ ListInv /\ DrawnInv /\ ActedInv

-----------------------------------------------------------------------------

\* The constants are numbers, and a list is no longer than Word times its elements.
LEMMA Numbers ==
    /\ Word \in Nat \ {0} /\ Lines \in Nat \ {0} /\ MAX_FILES \in Nat \ {0}
    /\ MainItems \in Nat /\ MainItems > 5 /\ Lines <= MainItems
  BY MenuAssumption

LEMMA Longer ==
    ASSUME NEW n \in Nat
    PROVE  Word * n \in Nat /\ n <= Word * n
<1>1. PICK w \in Nat : Word = w + 1
  <2>1. Word - 1 \in Nat /\ Word = (Word - 1) + 1
    BY Numbers
  <2> QED
    BY <2>1
<1>2. w * n \in Nat /\ (w + 1) * n = w * n + n
  OBVIOUS
<1> QED
  BY <1>1, <1>2

\* The window of render_menu (menu.c:49-77): as many lines as there are, of the list,
\* with the selected one among them.
LEMMA Window ==
    ASSUME NEW len \in Nat \ {0}, NEW sel \in 0..(len - 1)
    PROVE  LET shown == RenderMenu(len, sel).shown
               n     == IF len < Lines THEN len ELSE Lines
           IN  /\ sel \in shown /\ shown \subseteq 0..(len - 1) /\ Cardinality(shown) = n
               /\ \A i \in shown : i <= sel \/ i < n
<1> DEFINE first == IF sel < Lines - 1 THEN 0 ELSE sel - (Lines - 1)
           n     == IF len < Lines THEN len ELSE Lines
           shown == RenderMenu(len, sel).shown
<1>1. Lines \in Nat \ {0} /\ n \in Nat \ {0} /\ n <= Lines /\ n <= len /\ sel \in Nat /\ sel < len
  BY Numbers
<1>2. first \in Nat /\ first <= sel /\ sel <= first + n - 1 /\ first + n <= len
  BY <1>1
<1>3. shown = {i \in first..(first + Lines - 1) : i - first < len}
  BY DEF RenderMenu
<1>4. first = 0 \/ first + n - 1 = sel
  BY <1>1
<1> HIDE DEF first
<1>5. shown = first..(first + n - 1)
  BY <1>1, <1>2, <1>3
<1> HIDE DEF shown, n
<1>6. Cardinality(shown) = n
  <2>1. first \in Int /\ first + n - 1 \in Int /\ first <= first + n - 1
    BY <1>1, <1>2
  <2>2. Cardinality(first..(first + n - 1)) = (first + n - 1) - first + 1
    BY <2>1, FS_Interval
  <2> QED
    BY <1>1, <1>2, <1>5, <2>2
<1>7. sel \in shown /\ shown \subseteq 0..(len - 1) /\ \A i \in shown : i <= sel \/ i < n
  BY <1>1, <1>2, <1>4, <1>5
<1> QED
  BY <1>6, <1>7 DEF shown, n

-----------------------------------------------------------------------------

\* Coming back to main_menu.
LEMMA EnterMainSteps ==
    ASSUME Inv, EnterMain, pc' = "loop", btns' = btns, acted' \subseteq acted \cup {EXIT}
    PROVE  Inv'
<1>1. /\ menu' = "main" /\ items' = MainItems /\ length' = Word * MainItems
      /\ selected' = 0 /\ changed' = TRUE /\ snap' = {} /\ screen' = screen
  BY DEF EnterMain, Enter
<1>2. Word * MainItems \in Nat /\ MainItems <= Word * MainItems /\ MainItems \in Nat
      /\ MAX_FILES \in Nat /\ MainItems > 5
  BY Longer, Numbers
<1>3. /\ items' \in 1..(MainItems + MAX_FILES) /\ length' \in items'..(Word * items')
      /\ selected' \in 0..(length' - 1)
  BY <1>1, <1>2
<1>4. ListInv' /\ DrawnInv' /\ ActedInv'
  BY <1>1 DEF Inv, ListInv, DrawnInv, ActedInv
<1> QED
  BY <1>1, <1>3, <1>4 DEF Inv, TypeOK, Buttons

\* A move to where the list has an element.
LEMMA MoveSteps ==
    ASSUME Inv, NEW b \in {DOWN, UP}, NEW allowed \in BOOLEAN, NEW to,
           allowed => to \in 0..(length - 1), Move(b, allowed, to)
    PROVE  Inv'
<1>1. /\ First(b) /\ b \notin btns /\ pc = "handle" /\ pc' = "handle"
      /\ acted' = acted \cup {b} /\ snap' = snap \ {b}
      /\ selected' = (IF allowed THEN to ELSE selected) /\ changed' = (changed \/ allowed)
      /\ UNCHANGED <<btns, menu, items, length, screen>>
  BY DEF Move, Goto, Act, list
<1>2. b \in Buttons /\ b # EXIT /\ SEL \notin snap
  BY <1>1 DEF First, Buttons, SEL, DOWN, UP, EXIT
<1>3. selected' \in 0..(length' - 1)
  BY <1>1 DEF Inv, TypeOK
<1>4. changed' \in BOOLEAN
  BY <1>1 DEF Inv, TypeOK
<1>5. TypeOK'
  BY <1>1, <1>2, <1>3, <1>4 DEF Inv, TypeOK
<1>6. ListInv' /\ ActedInv'
  BY <1>1, <1>2 DEF Inv, ListInv, ActedInv
<1>7. DrawnInv'
  <2>1. ~changed' => selected' = selected /\ ~changed
    BY <1>1
  <2> QED
    BY <1>1, <1>2, <2>1 DEF Inv, DrawnInv
<1> QED
  BY <1>5, <1>6, <1>7 DEF Inv

\* Every step keeps Inv.
LEMMA InvSteps ==
    ASSUME Inv, [Next]_vars
    PROVE  Inv'
<1>0. length \in Nat \ {0} /\ selected \in 0..(length - 1)
  <2>1. items \in Nat \ {0} /\ length \in Nat /\ items <= length
    BY Numbers, Longer DEF Inv, TypeOK
  <2> QED
    BY <2>1 DEF Inv, TypeOK
<1>1. ASSUME NEW b \in Buttons, Press(b) PROVE Inv'
  BY <1>1 DEF Press, list, view, Inv, TypeOK, ListInv, DrawnInv, ActedInv
<1>2. ASSUME NEW b \in Buttons, Release(b) PROVE Inv'
  BY <1>2 DEF Release, list, view, Inv, TypeOK, ListInv, DrawnInv, ActedInv
<1>3. ASSUME Render PROVE Inv'
  <2>1. /\ screen' = RenderMenu(length, selected) /\ changed' = FALSE /\ pc' \in {"loop", "wild"}
        /\ UNCHANGED <<btns, menu, items, length, selected, snap, acted>>
    BY <1>3 DEF Render, Goto, list
  <2>2. screen'.shown \subseteq Nat /\ Cardinality(screen'.shown) <= Lines
    <3> DEFINE shown == RenderMenu(length, selected).shown
               n     == IF length < Lines THEN length ELSE Lines
    <3>1. shown \subseteq 0..(length - 1) /\ Cardinality(shown) = n
      BY <1>0, Window
    <3>2. n <= Lines
      BY <1>0, Numbers
    <3>3. screen'.shown = shown
      BY <2>1
    <3> HIDE DEF shown, n
    <3> QED
      BY <1>0, <3>1, <3>2, <3>3
  <2> QED
    BY <2>1, <2>2 DEF Inv, TypeOK, ListInv, DrawnInv, ActedInv
<1>4. ASSUME Getbtns PROVE Inv'
  BY <1>4 DEF Getbtns, Goto, list, Inv, TypeOK, ListInv, DrawnInv, ActedInv
<1>5. ASSUME Down PROVE Inv'
  <2>1. (selected < length - 1) \in BOOLEAN
        /\ (selected < length - 1 => selected + 1 \in 0..(length - 1))
    BY <1>0
  <2> QED
    BY <1>5, <2>1, MoveSteps DEF Down
<1>6. ASSUME Up PROVE Inv'
  <2>1. (selected > 0) \in BOOLEAN /\ (selected > 0 => selected - 1 \in 0..(length - 1))
    BY <1>0
  <2> QED
    BY <1>6, <2>1, MoveSteps DEF Up
<1>7. ASSUME Again PROVE Inv'
  BY <1>7 DEF Again, Goto, list, view, Inv, TypeOK, ListInv, DrawnInv, ActedInv
<1>8. ASSUME Exit PROVE Inv'
  BY <1>8, EnterMainSteps DEF Exit, Goto, Act
<1>9. ASSUME Select PROVE Inv'
  <2>1. /\ pc' \in {"help", "list", "away", "loop", "run"} /\ btns' = btns
        /\ acted' = acted \cup {SEL} /\ SEL \notin btns
    BY <1>9 DEF Select, Goto, Act
  <2>2. CASE pc' = "loop"
    <3>1. EnterMain
      BY <1>9, <2>2 DEF Select
    <3>2. ActedInv'
      BY <2>1, <2>2 DEF ActedInv, Inv
    <3>3. /\ menu' = "main" /\ items' = MainItems /\ length' = Word * MainItems
          /\ selected' = 0 /\ changed' = TRUE /\ snap' = {} /\ screen' = screen
      BY <3>1 DEF EnterMain, Enter
    <3>4. Word * MainItems \in Nat /\ MainItems <= Word * MainItems /\ MainItems \in Nat
          /\ MAX_FILES \in Nat /\ MainItems > 5
      BY Longer, Numbers
    <3>5. /\ items' \in 1..(MainItems + MAX_FILES) /\ length' \in items'..(Word * items')
          /\ selected' \in 0..(length' - 1)
      BY <3>3, <3>4
    <3> QED
      BY <2>1, <2>2, <3>2, <3>3, <3>5 DEF Inv, TypeOK, ListInv, DrawnInv, Buttons
  <2>3. CASE pc' # "loop"
    <3>1. UNCHANGED <<menu, items, length, selected, changed, snap, screen>>
      BY <1>9, <2>3 DEF Select, list, view
    <3> QED
      BY <2>1, <2>3, <3>1 DEF Inv, TypeOK, ListInv, DrawnInv, ActedInv, Buttons
  <2> QED
    BY <2>2, <2>3
<1>10. ASSUME Help PROVE Inv'
  BY <1>10, EnterMainSteps DEF Help, Goto
<1>11. ASSUME Away PROVE Inv'
  BY <1>11, EnterMainSteps DEF Away, Goto
<1>12. ASSUME ListFiles PROVE Inv'
  <2>1. pc' = "loop" /\ btns' = btns /\ acted' = acted
    BY <1>12 DEF ListFiles, Goto
  <2>2. CASE EnterMain
    BY <2>1, <2>2, EnterMainSteps
  <2>3. ASSUME NEW n \in 1..MAX_FILES, Enter("programs", n, n) PROVE Inv'
    <3>1. /\ menu' = "programs" /\ items' = n /\ length' = n
          /\ selected' = 0 /\ changed' = TRUE /\ snap' = {} /\ screen' = screen
      BY <2>3 DEF Enter
    <3>2. n \in Nat \ {0} /\ n <= Word * n /\ n <= MainItems + MAX_FILES /\ Word * n \in Nat
          /\ MainItems + MAX_FILES \in Nat
      BY Longer, Numbers
    <3>3. /\ items' \in 1..(MainItems + MAX_FILES) /\ length' \in items'..(Word * items')
          /\ selected' \in 0..(length' - 1)
      BY <3>1, <3>2
    <3> QED
      BY <2>1, <3>1, <3>3 DEF Inv, TypeOK, ListInv, DrawnInv, ActedInv
  <2> QED
    BY <1>12, <2>2, <2>3 DEF ListFiles
<1>13. ASSUME RunFile PROVE Inv'
  <2>1. CASE Goto("run", "loop") /\ EnterMain
    BY <1>13, <2>1, EnterMainSteps DEF RunFile, Goto
  <2>2. CASE Goto("run", "result") /\ screen' = NoScreen /\ UNCHANGED <<list, view>>
    <3>1. screen'.shown = {}
      BY <2>2 DEF NoScreen
    <3>2. screen'.shown \subseteq Nat /\ Cardinality(screen'.shown) <= Lines
      BY <3>1, FS_EmptySet, Numbers
    <3> QED
      BY <1>13, <2>2, <3>2 DEF RunFile, Goto, list, view, Inv, TypeOK, ListInv, DrawnInv, ActedInv
  <2> QED
    BY <1>13, <2>1, <2>2 DEF RunFile
<1>14. ASSUME ResultSeen PROVE Inv'
  BY <1>14 DEF ResultSeen, Goto, list, view, Inv, TypeOK, ListInv, DrawnInv, ActedInv
<1>15. ASSUME ResultLeft PROVE Inv'
  BY <1>15, EnterMainSteps DEF ResultLeft, Goto
<1>16. ASSUME UNCHANGED vars PROVE Inv'
  BY <1>16 DEF vars, list, view, Inv, TypeOK, ListInv, DrawnInv, ActedInv
<1> QED
  BY <1>1, <1>2, <1>3, <1>4, <1>5, <1>6, <1>7, <1>8, <1>9, <1>10, <1>11, <1>12, <1>13,
     <1>14, <1>15, <1>16 DEF Next, Program

\* Inv holds throughout.
LEMMA Invariance == Spec => []Inv
<1>1. Init => Inv
  <2> SUFFICES ASSUME Init PROVE Inv
    OBVIOUS
  <2>1. Word * MainItems \in Nat /\ MainItems <= Word * MainItems /\ MainItems \in Nat
        /\ MAX_FILES \in Nat /\ MainItems > 5 /\ Lines \in Nat
    BY Longer, Numbers
  <2>2. /\ items \in 1..(MainItems + MAX_FILES) /\ length \in items..(Word * items)
        /\ selected \in 0..(length - 1)
    BY <2>1 DEF Init
  <2>3. screen.shown \subseteq Nat /\ Cardinality(screen.shown) <= Lines
    BY <2>1, FS_EmptySet DEF Init, NoScreen
  <2> QED
    BY <2>2, <2>3 DEF Init, Inv, TypeOK, ListInv, DrawnInv, ActedInv
<1> QED
  BY <1>1, InvSteps, PTL DEF Spec

-----------------------------------------------------------------------------

\* display_menu's selected stays in 0..length-1, and no more lines are drawn than
\* the display has.
THEOREM MenuTypes == Spec => []TypeOK
<1>1. Inv => TypeOK
  BY DEF Inv
<1> QED
  BY <1>1, Invariance, PTL

\* When the buttons are read the display shows the selection (menu.c:18-47, 49-77).
THEOREM ShowsSelection == Spec => []ScreenShowsSelection
<1>1. ASSUME Inv PROVE ScreenShowsSelection
  <2> SUFFICES ASSUME pc \in {"loop", "handle"}, ~changed
               PROVE  /\ screen.inverted = selected /\ selected \in screen.shown
                      /\ Cardinality(screen.shown) = (IF length < Lines THEN length ELSE Lines)
                      /\ screen.shown \subseteq 0..(length - 1)
                      /\ (menu = "programs" \/ selected < items) => screen.shown \subseteq 0..(items - 1)
    BY DEF ScreenShowsSelection
  <2>1. items \in Nat \ {0} /\ length \in Nat \ {0} /\ items <= length /\ selected \in 0..(length - 1)
    <3>1. items \in Nat \ {0} /\ length \in Nat /\ items <= length
      BY <1>1, Numbers, Longer DEF Inv, TypeOK
    <3> QED
      BY <1>1, <3>1 DEF Inv, TypeOK
  <2>2. screen = RenderMenu(length, selected)
    BY <1>1 DEF Inv, DrawnInv
  <2> DEFINE n == IF length < Lines THEN length ELSE Lines
  <2>3. /\ selected \in screen.shown /\ screen.shown \subseteq 0..(length - 1)
        /\ Cardinality(screen.shown) = n
        /\ \A i \in screen.shown : i <= selected \/ i < n
    BY <2>1, <2>2, Window
  <2>4. menu = "programs" \/ (menu = "main" /\ items = MainItems)
    BY <1>1 DEF Inv, TypeOK, ListInv
  <2>5. CASE menu = "programs"
    <3>1. length = items
      BY <1>1, <2>5 DEF Inv, ListInv
    <3> QED
      BY <2>2, <2>3, <3>1 DEF RenderMenu
  <2>6. CASE items = MainItems
    <3>1. Lines \in Nat /\ Lines <= items
      BY <2>6, Numbers
    <3>2. selected < items => screen.shown \subseteq 0..(items - 1)
      BY <2>1, <2>3, <3>1
    <3>3. menu = "programs" => length = items
      BY <1>1 DEF Inv, ListInv
    <3> QED
      BY <2>2, <2>3, <3>2, <3>3 DEF RenderMenu
  <2> QED
    BY <2>4, <2>5, <2>6
<1> QED
  BY <1>1, Invariance, PTL

\* What SEL runs is what was inverted: a bit of btn that is looked at later cannot have
\* moved the selection before (menu.c:30-44).
THEOREM RunsShown == Spec => RunsWhatIsShown
<1>1. ASSUME Inv, [Next]_vars, pc = "handle", pc' \in {"run", "help", "list", "away"}
      PROVE  screen.inverted = selected
  <2>1. Select
    BY <1>1 DEF Next, Program, vars, Press, Release, Render, Getbtns, Down, Up, Move, Again, Exit,
                Help, Away, ListFiles, RunFile, ResultSeen, ResultLeft, Goto
  <2>2. SEL \in snap
    BY <2>1 DEF Select, First
  <2>3. screen = RenderMenu(length, selected)
    BY <1>1, <2>2 DEF Inv, TypeOK, DrawnInv
  <2> QED
    BY <2>3 DEF RenderMenu
<1>2. ASSUME Inv, [Next]_vars
      PROVE  [(pc = "handle" /\ pc' \in {"run", "help", "list", "away"})
                 => screen.inverted = selected]_vars
  BY <1>1, <1>2
<1> QED
  BY <1>2, Invariance, PTL DEF Spec, RunsWhatIsShown

\* A button that stays down acts once, whichever of the nested menus reads it.
THEOREM ActsOnce == Spec => OncePerPress
<1>1. ASSUME Inv, NEW b \in {SEL, DOWN, UP}, pc = "handle", First(b)
      PROVE  b \notin acted
  BY <1>1 DEF Inv, ActedInv, First, SEL, DOWN, UP, EXIT
<1>2. ASSUME Inv
      PROVE  [\A b \in {SEL, DOWN, UP} :
                pc = "handle" /\ First(b) /\ (snap' # snap \/ pc' # pc) => b \notin acted]_vars
  BY <1>1, <1>2
<1> QED
  BY <1>2, Invariance, PTL DEF OncePerPress
=============================================================================
