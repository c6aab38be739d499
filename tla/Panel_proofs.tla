---------------------------- MODULE Panel_proofs ----------------------------
(***************************************************************************)
(* Proofs of Panel's properties, for every size of panel.  Where a byte    *)
(* is (OneInFlight) comes first; from it, that each byte reaches the panel *)
(* in its mode, and then what the panel has got of the update (Painting).  *)
(***************************************************************************)
EXTENDS Panel, TLAPS

\* What % and \div are.
LEMMA Remainder ==
    ASSUME NEW c \in Nat, NEW l \in Nat \ {0}
    PROVE  /\ c % l \in 0 .. l - 1
           /\ c = (c \div l) * l + (c % l)
           /\ c \div l \in Nat
  OBVIOUS

\* A multiple leaves no remainder.
LEMMA Multiple ==
    ASSUME NEW q \in Nat, NEW l \in Nat \ {0}
    PROVE  (q * l) % l = 0
  OBVIOUS

\* The columns that the column commands (display.c:273-275) can select exist.
LEMMA RowFits ==
    ASSUME NEW c \in Columns
    PROVE  /\ c % Low \in Columns
           /\ c - (c % Low) \in Columns
           /\ (c - (c % Low)) % Low = 0
           /\ \A p \in PageNumbers : c - (c % Low) + p \in Columns
<1> DEFINE q == c \div Low
           n == COLS \div Low
<1>0. /\ PAGES \in Nat \ {0} /\ COLS \in Nat \ {0} /\ Low \in Nat \ {0} /\ c \in Nat /\ c < COLS
      /\ COLS % Low = 0 /\ PAGES <= Low
  BY PanelAssumption DEF Columns
<1>1. c % Low \in 0 .. Low - 1 /\ c = q * Low + (c % Low) /\ q \in Nat
  BY <1>0, Remainder
<1>2. COLS = n * Low /\ n \in Nat
  BY <1>0, Remainder
<1> HIDE DEF q, n
<1>3. q * Low < n * Low
  BY <1>0, <1>1, <1>2
<1>4. q < n
  BY <1>0, <1>1, <1>2, <1>3
<1>5. (q + 1) * Low <= n * Low
  BY <1>0, <1>1, <1>2, <1>4
<1>6. (q + 1) * Low = q * Low + Low
  BY <1>0, <1>1
<1>7. (q * Low) % Low = 0 /\ q * Low \in Nat
  BY <1>0, <1>1, Multiple
<1>8. c - (c % Low) = q * Low
  BY <1>0, <1>1, <1>7
<1> QED
  BY <1>0, <1>1, <1>2, <1>5, <1>6, <1>7, <1>8 DEF Columns, PageNumbers

----------------------------------------------------------------------------
(* Types. *)

\* What spi_send_recv is given (display.c:269-280).
LEMMA SentTyped ==
    ASSUME TypeOK
    PROVE  [byte |-> Sent(i, k), mode |-> ModeOf(k)] \in Flights
<1>0. PAGES \in Nat \ {0} /\ COLS \in Nat \ {0} /\ buffer \in [PageNumbers -> [Columns -> Byte]]
  BY PanelAssumption DEF TypeOK
<1>1. i \in PageNumbers /\ k \in 0 .. 3 + COLS
  BY <1>0 DEF TypeOK, PerPage
<1>2. CASE k < 4
  <2>1. Sent(i, k) \in PageNumbers \cup Commands
    BY <1>1, <1>2 DEF Sent, Commands
  <2> QED
    BY <1>1, <1>2, <2>1 DEF ModeOf, Flights
<1>3. CASE k >= 4
  <2>1. k - 4 \in Columns
    BY <1>0, <1>1, <1>3 DEF Columns
  <2>2. buffer[i][k - 4] \in Byte
    BY <1>0, <1>1, <2>1
  <2>3. Sent(i, k) = buffer[i][k - 4] /\ ModeOf(k) = "data"
    BY <1>1, <1>3 DEF Sent, ModeOf
  <2> QED
    BY <2>2, <2>3 DEF Flights
<1> QED
  BY <1>1, <1>2, <1>3

\* A command leaves the panel a panel.
LEMMA CommandedTyped ==
    ASSUME NEW p \in Panels, NEW byte
    PROVE  Commanded(p, byte) \in Panels
<1>1. /\ p.col \in Columns /\ p.col % Low \in Columns
      /\ p.col - (p.col % Low) \in Columns
      /\ \A n \in PageNumbers : p.col - (p.col % Low) + n \in Columns
  BY RowFits DEF Panels
<1>2. SetPageAsPage \in PageNumbers
  BY PanelAssumption
<1>3. p.col - (p.col % Low) + (IF byte \in PageNumbers THEN byte ELSE 0) \in Columns
  BY <1>1 DEF Columns
<1> QED
  BY <1>1, <1>2, <1>3 DEF Commanded, Panels

\* So does a byte of data.
LEMMA PaintedTyped ==
    ASSUME NEW p \in Panels, NEW byte \in Byte
    PROVE  Painted(p, byte) \in Panels
<1>1. IF p.col + 1 < COLS THEN p.col + 1 \in Columns ELSE 0 \in Columns
  BY PanelAssumption DEF Panels, Columns
<1> QED
  BY <1>1 DEF Painted, Panels

\* TypeOK is inductive.
LEMMA TypeInvariance == Spec => []TypeOK
<1> USE DEF Modes, driver, spi, history
<1>1. Init => TypeOK
  <2> SUFFICES ASSUME Init PROVE TypeOK
    OBVIOUS
  <2>1. {0} \subseteq PageNumbers /\ {0} \subseteq Columns /\ 0 \in 0 .. PerPage - 1 /\ 0 \in 0 .. MaxAbandoned
    BY PanelAssumption DEF PageNumbers, Columns, PerPage
  <2>2. panel \in Panels
    BY <2>1, PanelAssumption DEF Init, Panels
  <2> QED
    BY <2>1, <2>2 DEF Init, TypeOK
<1>2. TypeOK /\ [Next]_vars => TypeOK'
  <2> SUFFICES ASSUME TypeOK, [Next]_vars PROVE TypeOK'
    OBVIOUS
  <2>0. PAGES \in Nat \ {0} /\ COLS \in Nat \ {0} /\ MaxAbandoned \in Nat
    BY PanelAssumption
  <2>1. ASSUME NEW image \in Images, DisplayUpdate(image) PROVE TypeOK'
    <3>1. dirty' \in BOOLEAN
      <4>1. (panel # None /\ panel.operand) \in BOOLEAN
        OBVIOUS
      <4> QED
        BY <2>1, <4>1 DEF DisplayUpdate
    <3>2. 0 \in PageNumbers /\ 0 \in 0 .. PerPage - 1
      BY <2>0 DEF PageNumbers, PerPage
    <3>3. complete' = FALSE /\ i' = 0 /\ k' = 0
      BY <2>1 DEF DisplayUpdate
    <3>4. /\ buffer' \in Images /\ pc' = "select"
          /\ UNCHANGED <<mode, txb, sr, rbf, panel, skewed, abandoned>>
      BY <2>1 DEF DisplayUpdate
    <3> QED
      BY <3>1, <3>2, <3>3, <3>4 DEF TypeOK
  <2>2. ASSUME Select PROVE TypeOK'
    BY <2>2 DEF Select, TypeOK, ModeOf
  <2>3. ASSUME Put PROVE TypeOK'
    BY <2>3, SentTyped DEF Put, TypeOK
  <2>4. ASSUME Get PROVE TypeOK'
    <3>1. i' \in PageNumbers /\ k' \in 0 .. PerPage - 1 /\ pc' \in {"idle", "select"}
      BY <2>0, <2>4 DEF Get, Advance, TypeOK, PageNumbers, PerPage
    <3>2. complete' = complete \/ complete' = TRUE
      BY <2>4 DEF Get, Advance
    <3> QED
      BY <2>4, <3>1, <3>2 DEF Get, TypeOK
  <2>5. ASSUME Abandoned PROVE TypeOK'
    BY <2>0, <2>5 DEF Abandoned, TypeOK, PageNumbers, PerPage
  <2>6. ASSUME Load PROVE TypeOK'
    BY <2>6 DEF Load, TypeOK
  <2>7. ASSUME Shifted PROVE TypeOK'
    <3>1. sr \in Flights
      BY <2>7 DEF Shifted, TypeOK
    <3>2. CASE panel = None \/ sr.mode # mode
      BY <2>7, <3>2 DEF Shifted, TypeOK
    <3>3. CASE ~(panel = None \/ sr.mode # mode) /\ mode = "command"
      BY <2>7, <3>3, CommandedTyped DEF Shifted, TypeOK
    <3>4. CASE ~(panel = None \/ sr.mode # mode) /\ mode # "command"
      <4>1. sr.byte \in Byte
        BY <3>1, <3>4 DEF Flights, TypeOK
      <4> QED
        BY <2>7, <3>4, <4>1, PaintedTyped DEF Shifted, TypeOK
    <3> QED
      BY <3>2, <3>3, <3>4
  <2>8. ASSUME UNCHANGED vars PROVE TypeOK'
    BY <2>8 DEF vars, TypeOK
  <2> QED
    BY <2>1, <2>2, <2>3, <2>4, <2>5, <2>6, <2>7, <2>8 DEF Next
<1> QED
  BY <1>1, <1>2, PTL DEF Spec

----------------------------------------------------------------------------
(* While no update has been abandoned between a write and its read, a byte *)
(* is in the SPI module only between the two, with the pin as it was.      *)

OneInFlight ==
    ~skewed =>
    /\ panel # None
    /\ pc # "get" => txb = None /\ sr = None /\ ~rbf
    /\ pc = "get" =>
        \/ ~rbf /\ sr = None /\ txb = [byte |-> Sent(i, k), mode |-> ModeOf(k)]
        \/ ~rbf /\ txb = None /\ sr = [byte |-> Sent(i, k), mode |-> ModeOf(k)]
        \/ rbf /\ txb = None /\ sr = None
    /\ pc \in {"put", "get"} \/ (pc = "select" /\ ~Selects(k)) => mode = ModeOf(k)

\* OneInFlight is inductive, given the types.
LEMMA FlightInvariance == Spec => []OneInFlight
<1> USE DEF Modes, driver, spi, history
<1>1. Init => OneInFlight
  <2> SUFFICES ASSUME Init PROVE OneInFlight
    OBVIOUS
  <2>1. panel \in Panels
    <3>1. {0} \subseteq PageNumbers /\ {0} \subseteq Columns
      BY PanelAssumption DEF PageNumbers, Columns
    <3> QED
      BY <3>1, PanelAssumption DEF Init, Panels
  <2> QED
    BY <2>1, PanelAssumption DEF Init, OneInFlight
<1>2. TypeOK /\ OneInFlight /\ [Next]_vars => OneInFlight'
  <2> SUFFICES ASSUME TypeOK, OneInFlight, [Next]_vars PROVE OneInFlight'
    OBVIOUS
  <2>0. /\ k \in Nat /\ [byte |-> Sent(i, k), mode |-> ModeOf(k)] # None
        /\ None \notin Panels
    BY PanelAssumption, SentTyped DEF TypeOK, PerPage
  <2>1. ASSUME NEW image \in Images, DisplayUpdate(image) PROVE OneInFlight'
    BY <2>1 DEF DisplayUpdate, OneInFlight, Selects
  <2>2. ASSUME Select PROVE OneInFlight'
    BY <2>2 DEF Select, OneInFlight
  <2>3. ASSUME Put PROVE OneInFlight'
    BY <2>0, <2>3 DEF Put, OneInFlight, Sent
  <2>4. ASSUME Get PROVE OneInFlight'
    BY <2>0, <2>4 DEF Get, Answered, Advance, OneInFlight, Selects, ModeOf
  <2>5. ASSUME Abandoned PROVE OneInFlight'
    BY <2>5 DEF Abandoned, OneInFlight
  <2>6. ASSUME Load PROVE OneInFlight'
    BY <2>0, <2>6 DEF Load, OneInFlight, Sent
  <2>7. ASSUME Shifted PROVE OneInFlight'
    <3>1. CASE skewed
      BY <2>7, <3>1 DEF Shifted, OneInFlight
    <3>2. CASE ~skewed
      <4>1. pc = "get" /\ ~rbf /\ txb = None /\ sr.mode = ModeOf(k) /\ mode = ModeOf(k) /\ panel # None
        BY <2>7, <3>2 DEF Shifted, OneInFlight
      <4>2. sr \in Flights /\ panel \in Panels
        BY <2>7, <4>1 DEF Shifted, TypeOK
      <4>3. panel' \in Panels
        <5>1. CASE mode = "command"
          BY <2>7, <4>1, <4>2, <5>1, CommandedTyped DEF Shifted
        <5>2. CASE mode # "command"
          <6>1. sr.byte \in Byte
            BY <4>1, <4>2, <5>2 DEF Flights, TypeOK
          <6> QED
            BY <2>7, <4>1, <4>2, <5>2, <6>1, PaintedTyped DEF Shifted
        <5> QED
          BY <5>1, <5>2
      <4> QED
        BY <2>0, <2>7, <3>2, <4>1, <4>3 DEF Shifted, OneInFlight
    <3> QED
      BY <3>1, <3>2
  <2>8. ASSUME UNCHANGED vars PROVE OneInFlight'
    BY <2>8 DEF vars, OneInFlight, Sent
  <2> QED
    BY <2>1, <2>2, <2>3, <2>4, <2>5, <2>6, <2>7, <2>8 DEF Next
<1> QED
  BY <1>1, <1>2, TypeInvariance, PTL DEF Spec

----------------------------------------------------------------------------
(* What the panel has got of the update that runs: d bytes of page i.      *)

Reached(p, d) ==
    /\ p.operand <=> d = 1
    /\ d >= 2 => p.page = i
    /\ d = 3 => p.col % Low = 0
    /\ d >= 4 => /\ p.col = IF d < PerPage THEN d - 4 ELSE 0
                 /\ \A c \in Columns : c < d - 4 => p.mem[i][c] = buffer[i][c]
    /\ \A n \in PageNumbers : n < i => p.mem[n] = buffer[n]

\* The panel takes one more byte of the page (display.c:269-280).
LEMMA ByteTaken ==
    ASSUME TypeOK, NEW p \in Panels, Reached(p, k)
    PROVE  IF ModeOf(k) = "command" THEN Reached(Commanded(p, Sent(i, k)), k + 1)
                                    ELSE Reached(Painted(p, Sent(i, k)), k + 1)
<1>0. /\ PAGES \in Nat \ {0} /\ COLS \in Nat \ {0} /\ Low \in Nat \ {0}
      /\ SetPage # LowColumn /\ SetPage # HighColumn /\ LowColumn # HighColumn
      /\ SetPage \notin PageNumbers /\ LowColumn \notin PageNumbers /\ HighColumn \notin PageNumbers
      /\ k \in 0 .. 3 + COLS /\ i \in PageNumbers
  BY PanelAssumption DEF TypeOK, Commands, PerPage
<1>1. CASE k = 0
  <2>1. Commanded(p, Sent(i, k)) = [p EXCEPT !.operand = TRUE]
    BY <1>0, <1>1 DEF Commanded, Sent, Reached
  <2>2. Reached([p EXCEPT !.operand = TRUE], 1)
    BY <1>1 DEF Reached, Panels
  <2>3. k + 1 = 1 /\ ModeOf(k) = "command"
    BY <1>1 DEF ModeOf
  <2> QED
    BY <2>1, <2>2, <2>3, Zenon
<1>2. CASE k = 1
  <2>1. Commanded(p, Sent(i, k)) = [p EXCEPT !.operand = FALSE, !.page = i]
    BY <1>0, <1>2 DEF Commanded, Sent, Reached
  <2>2. Reached([p EXCEPT !.operand = FALSE, !.page = i], 2)
    BY <1>2 DEF Reached, Panels
  <2>3. k + 1 = 2 /\ ModeOf(k) = "command"
    BY <1>2 DEF ModeOf
  <2> QED
    BY <2>1, <2>2, <2>3, Zenon
<1>3. CASE k = 2
  <2>1. Commanded(p, Sent(i, k)) = [p EXCEPT !.col = p.col - (p.col % Low)]
    <3>1. p.col - (p.col % Low) + 0 = p.col - (p.col % Low)
      <4>1. p.col - (p.col % Low) \in Columns
        BY RowFits DEF Panels
      <4> QED
        BY <1>0, <4>1 DEF Columns
    <3> QED
      BY <1>0, <1>3, <3>1 DEF Commanded, Sent, Reached
  <2>2. Reached([p EXCEPT !.col = p.col - (p.col % Low)], 3)
    <3>1. (p.col - (p.col % Low)) % Low = 0
      BY RowFits DEF Panels
    <3> QED
      BY <1>3, <3>1 DEF Reached, Panels
  <2>3. k + 1 = 3 /\ ModeOf(k) = "command"
    BY <1>3 DEF ModeOf
  <2> QED
    BY <2>1, <2>2, <2>3, Zenon
<1>4. CASE k = 3
  <2>1. Commanded(p, Sent(i, k)) = [p EXCEPT !.col = 0]
    BY <1>0, <1>4 DEF Commanded, Sent, Reached
  <2>2. Reached([p EXCEPT !.col = 0], 4)
    BY <1>0, <1>4 DEF Reached, Panels, Columns, PerPage
  <2>3. k + 1 = 4 /\ ModeOf(k) = "command"
    BY <1>4 DEF ModeOf
  <2> QED
    BY <2>1, <2>2, <2>3, Zenon
<1>5. CASE k >= 4
  <2> DEFINE q == [p EXCEPT !.mem[i][k - 4] = buffer[i][k - 4],
                            !.col = IF k - 4 + 1 < COLS THEN k - 4 + 1 ELSE 0]
  <2>1. Sent(i, k) = buffer[i][k - 4] /\ ModeOf(k) = "data"
    BY <1>0, <1>5 DEF Sent, ModeOf
  <2>2. p.page = i /\ p.col = k - 4 /\ k - 4 \in Columns
    BY <1>0, <1>5 DEF Reached, PerPage, Columns
  <2>3. Painted(p, Sent(i, k)) = q
    BY <2>1, <2>2 DEF Painted
  <2>4. /\ q.operand = p.operand /\ q.page = p.page
        /\ q.col = IF k - 3 < COLS THEN k - 3 ELSE 0
        /\ \A c \in Columns : q.mem[i][c] = IF c = k - 4 THEN buffer[i][k - 4] ELSE p.mem[i][c]
        /\ \A n \in PageNumbers : n # i => q.mem[n] = p.mem[n]
    BY <1>0, <2>2 DEF Panels
  <2> HIDE DEF q
  <2>5. \A c \in Columns : c < k + 1 - 4 => q.mem[i][c] = buffer[i][c]
    BY <1>0, <1>5, <2>4 DEF Reached, Columns
  <2>6. \A n \in PageNumbers : n < i => q.mem[n] = buffer[n]
    BY <1>0, <2>4 DEF Reached, PageNumbers
  <2>7. q.col = IF k + 1 < PerPage THEN k + 1 - 4 ELSE 0
    BY <1>0, <1>5, <2>4 DEF PerPage
  <2>8. (q.operand <=> k + 1 = 1) /\ q.page = i
    BY <1>0, <1>5, <2>2, <2>4 DEF Reached
  <2>9. Reached(q, k + 1)
    BY <1>0, <1>5, <2>5, <2>6, <2>7, <2>8 DEF Reached
  <2> QED
    BY <2>1, <2>3, <2>9
<1> QED
  BY <1>0, <1>1, <1>2, <1>3, <1>4, <1>5

\* The byte in flight is the panel's from the end of its shift.
Done == IF pc = "get" /\ rbf THEN k + 1 ELSE k

Painting ==
    ~skewed /\ ~dirty =>
    /\ pc # "idle" => Reached(panel, Done)
    /\ complete => pc = "idle" /\ panel.mem = buffer

\* Every step keeps Painting.
LEMMA PaintingSteps ==
    ASSUME TypeOK, OneInFlight, Painting, [Next]_vars
    PROVE  Painting'
<1> USE DEF driver, spi, history
<1> SUFFICES ASSUME ~skewed', ~dirty'
             PROVE  /\ pc' # "idle" => Reached(panel, Done)'
                    /\ complete' => pc' = "idle" /\ panel'.mem = buffer'
  BY DEF Painting
<1>0. /\ PAGES \in Nat \ {0} /\ COLS \in Nat \ {0} /\ k \in 0 .. 3 + COLS /\ i \in PageNumbers
      /\ buffer \in [PageNumbers -> [Columns -> Byte]]
  BY PanelAssumption DEF TypeOK, PerPage
<1>1. ASSUME NEW image \in Images, DisplayUpdate(image)
      PROVE  /\ Reached(panel, Done)'
             /\ ~complete'
  <2>1. panel # None /\ ~skewed
    BY <1>1 DEF DisplayUpdate, OneInFlight
  <2>2. ~panel.operand
    BY <1>1, <2>1 DEF DisplayUpdate
  <2>3. Done' = 0 /\ i' = 0 /\ panel' = panel /\ ~complete'
    BY <1>1 DEF DisplayUpdate, Done
  <2> QED
    BY <2>2, <2>3 DEF Reached, PageNumbers
<1>2. ASSUME Select PROVE pc' # "idle" /\ Reached(panel, Done)' /\ ~complete'
  BY <1>2 DEF Select, Done, Reached, Painting
<1>3. ASSUME Put PROVE pc' # "idle" /\ Reached(panel, Done)' /\ ~complete'
  <2>1. pc = "put" /\ pc' = "get" /\ ~skewed /\ ~dirty /\ ~rbf /\ ~rbf'
    BY <1>3 DEF Put, OneInFlight
  <2>2. Reached(panel, k) /\ ~complete
    BY <2>1 DEF Painting, Done
  <2>3. Done' = k /\ UNCHANGED <<buffer, i, k, panel, complete>>
    BY <1>3, <2>1 DEF Put, Done
  <2> QED
    BY <2>1, <2>2, <2>3 DEF Reached
<1>4. ASSUME Get PROVE /\ pc' # "idle" => Reached(panel, Done)'
                       /\ complete' => pc' = "idle" /\ panel'.mem = buffer'
  <2>1. ~skewed /\ ~dirty /\ pc = "get" /\ rbf /\ UNCHANGED <<buffer, panel>>
    BY <1>4 DEF Get, Answered
  <2>2. Reached(panel, k + 1) /\ ~complete
    BY <2>1 DEF Painting, Done
  <2>3. panel \in Panels
    BY <2>1 DEF OneInFlight, TypeOK
  <2>4. CASE k + 1 < PerPage
    <3>1. Done' = k + 1 /\ i' = i /\ pc' = "select" /\ complete' = complete
      BY <1>4, <2>4 DEF Get, Advance, Done
    <3> QED
      BY <2>1, <2>2, <3>1 DEF Reached
  <2>5. CASE ~(k + 1 < PerPage)
    <3>1. k + 1 = 4 + COLS
      BY <1>0, <2>5 DEF PerPage
    <3>2. \A c \in Columns : panel.mem[i][c] = buffer[i][c]
      BY <1>0, <2>2, <3>1 DEF Reached, Columns
    <3>3. panel.mem[i] = buffer[i]
      BY <1>0, <2>3, <3>2 DEF Panels
    <3>4. \A n \in PageNumbers : n < i + 1 => panel.mem[n] = buffer[n]
      BY <1>0, <2>2, <3>3 DEF Reached, PageNumbers
    <3>5. ~panel.operand
      BY <1>0, <2>2, <3>1 DEF Reached
    <3>6. CASE i + 1 < PAGES
      <4>1. i' = i + 1 /\ Done' = 0 /\ pc' = "select" /\ complete' = complete
        BY <1>4, <2>5, <3>6 DEF Get, Advance, Done
      <4> QED
        BY <2>1, <2>2, <3>4, <3>5, <4>1 DEF Reached
    <3>7. CASE ~(i + 1 < PAGES)
      <4>1. pc' = "idle"
        BY <1>4, <2>5, <3>7 DEF Get, Advance
      <4>2. \A n \in PageNumbers : panel.mem[n] = buffer[n]
        BY <1>0, <3>4, <3>7 DEF PageNumbers
      <4>3. panel.mem = buffer
        BY <1>0, <2>3, <4>2 DEF Panels
      <4> QED
        BY <2>1, <4>1, <4>3
    <3> QED
      BY <3>6, <3>7
  <2> QED
    BY <2>4, <2>5
<1>5. ASSUME Abandoned PROVE pc' = "idle" /\ ~complete'
  BY <1>5 DEF Abandoned, Painting
<1>6. ASSUME Load PROVE /\ pc' # "idle" => Reached(panel, Done)'
                        /\ complete' => pc' = "idle" /\ panel'.mem = buffer'
  BY <1>6 DEF Load, Done, Reached, Painting
<1>7. ASSUME Shifted PROVE pc' # "idle" /\ Reached(panel, Done)' /\ ~complete'
  <2>1. /\ ~skewed /\ ~dirty /\ pc = "get" /\ ~rbf /\ rbf' = TRUE
        /\ sr = [byte |-> Sent(i, k), mode |-> ModeOf(k)] /\ mode = ModeOf(k) /\ panel # None
        /\ UNCHANGED <<pc, buffer, i, k, complete>>
    BY <1>7 DEF Shifted, OneInFlight
  <2>2. Reached(panel, k) /\ ~complete
    BY <2>1 DEF Painting, Done
  <2>3. panel \in Panels
    BY <2>1 DEF TypeOK
  <2>4. panel' = IF ModeOf(k) = "command" THEN Commanded(panel, Sent(i, k))
                                          ELSE Painted(panel, Sent(i, k))
    BY <1>7, <2>1 DEF Shifted
  <2>5. Reached(panel', k + 1)
    BY <2>2, <2>3, <2>4, ByteTaken
  <2>6. Done' = k + 1
    BY <2>1 DEF Done
  <2> QED
    BY <2>1, <2>2, <2>5, <2>6 DEF Reached
<1>8. ASSUME UNCHANGED vars PROVE /\ pc' # "idle" => Reached(panel, Done)'
                                  /\ complete' => pc' = "idle" /\ panel'.mem = buffer'
  BY <1>8 DEF vars, Done, Reached, Painting
<1> QED
  BY <1>1, <1>2, <1>3, <1>4, <1>5, <1>6, <1>7, <1>8 DEF Next

\* Painting holds throughout.
LEMMA PaintingInvariance == Spec => []Painting
<1>1. Init => Painting
  BY DEF Init, Painting
<1> QED
  BY <1>1, PaintingSteps, TypeInvariance, FlightInvariance, PTL DEF Spec

----------------------------------------------------------------------------

\* Every variable of the driver, the SPI module and the panel (display.c:264-282)
\* keeps its type; a byte sent as data is a byte of a picture.
THEOREM PanelTypes == Spec => []TypeOK
BY TypeInvariance

\* As long as no update is abandoned between the write and the read of a byte
\* (display.c:76-83), the panel takes every byte in the mode it was meant for.
THEOREM TakenInMode == Spec => []ShiftedInMode
<1>1. OneInFlight => ShiftedInMode
  BY DEF OneInFlight, ShiftedInMode
<1> QED
  BY <1>1, FlightInvariance, PTL

\* display_update (display.c:264-282) brings the buffer to the panel whatever place
\* the updates before it were abandoned at, but for the two PanelShowsBuffer leaves out.
THEOREM ShowsBuffer == Spec => []PanelShowsBuffer
<1>1. Painting => PanelShowsBuffer
  BY DEF Painting, PanelShowsBuffer
<1> QED
  BY <1>1, PaintingInvariance, PTL
=============================================================================
