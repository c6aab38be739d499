------------------------- MODULE ProgramStore_proofs -------------------------
(***************************************************************************)
(* Proofs about ProgramStore: whatever archives were received, whole or    *)
(* cut short over one another, and wherever a call is abandoned, the scan  *)
(* moves forward and stays in its table, and loading a program writes      *)
(* nowhere but in user memory, except under the two kinds of header that   *)
(* elf.c:41 lets pass; an archive that is whole is listed as it was        *)
(* packed, and what is loaded is the program.                              *)
(***************************************************************************)
EXTENDS ProgramStore, WellFoundedInduction, TLAPS

\* Everything in the EEPROM comes from a file of an archive.
RomInv == \A a \in DOMAIN rom : /\ rom[a].is = "file" => rom[a].file \in Files
                                /\ rom[a].is = "ustar" => rom[a].size \in Nat

\* The files listed lie behind one another, and before the place the scan is at.
ScanInv ==
    /\ buffer \in Seq([rom_addr : 0..(U16 - 1), size : 0..(U16 - 1)])
    /\ pc = "menu" => buffer = <<>>
    /\ (\A a \in DOMAIN rom : rom[a].is = "ustar" => rom[a].size <= EEPROM_SIZE - BLOCK) =>
          /\ pc = "list" => \A k \in DOMAIN buffer : buffer[k].rom_addr <= rom_addr
          /\ \A j, k \in DOMAIN buffer : j < k => buffer[j].rom_addr < buffer[k].rom_addr

\* A byte left behind is read before anything is listed; only a segment that passed
\* elf.c:41 is copied.
ReadInv == /\ kept => buffer = <<>> \/ pc = "wild"
           /\ pc = "copy" => InUserspace(ph) /\ ph.load

Inv == TypeOK /\ RomInv /\ ScanInv /\ ReadInv /\ KernelMemoryKept

\* An archive that is whole is in the EEPROM from its first cell to its end, and what
\* was listed of it so far are its first members.
InRom == /\ \A a \in DOMAIN rom : a < Extent(archive) => rom[a] = CellOf(archive, a)
         /\ archive # <<>> => Extent(archive) < EEPROM_SIZE
Entry(k) == [rom_addr |-> FileOf(archive, k), size |-> archive[k].size]
Listed ==
    /\ pc \in {"list", "listed"} => /\ Len(buffer) <= Len(archive)
                                   /\ \A k \in DOMAIN buffer : buffer[k] = Entry(k)
    /\ pc = "list" => rom_addr = HeaderOf(archive, Len(buffer) + 1)
    /\ pc = "listed" => Len(buffer) = MAX_FILES \/ Len(buffer) = Len(archive)
    /\ pc \in {"ehdr", "phdr", "copy", "entry"} => \E k \in DOMAIN archive : addr = FileOf(archive, k)
WholeInv == whole => InRom /\ Listed

\* The segments loaded so far are in memory; the next header to read is in the EEPROM,
\* or just behind its last cell that can be read.
HeadersRead == \A j \in DOMAIN Program.phs : rom[addr + j] = Cell(Program, j)
InMemory(s) ==
    ~OutOfRange(addr + s.off, s.filesz) =>
        \A k \in 0..(s.memsz - 1) :
            memory[s.vaddr + k] = IF k < s.filesz THEN rom[addr + s.off + k] ELSE Zero
LoadInv ==
    pc \in {"phdr", "copy", "entry"} =>
        /\ Elf /\ addr + i < EEPROM_SIZE - 1 /\ i <= Len(Program.phs)
        /\ pc = "copy" => /\ i < Len(Program.phs) /\ addr + i < EEPROM_SIZE - 2
                          /\ HeadersRead => ph = Program.phs[i + 1]
        /\ pc = "entry" => i = Len(Program.phs)
        /\ Linked(Program) /\ HeadersRead =>
              \A m \in 1..i : Program.phs[m].load => InMemory(Program.phs[m])

-----------------------------------------------------------------------------

\* The constants are numbers.
LEMMA Numbers ==
    /\ EEPROM_SIZE \in Nat \ {0} /\ BLOCK \in Nat \ {0} /\ U16 \in Nat \ {0} /\ MAX_FILES \in Nat \ {0}
    /\ 2 * EEPROM_SIZE <= U16 /\ MaxReceives \in Nat /\ U32 \in Nat \ {0} /\ U16 <= U32
    /\ USER_START \in Nat /\ USER_END \in Nat /\ USER_END <= U32
  BY StoreAssumption

\* The fields of a program header are 32 bits wide.
LEMMA SegmentFacts ==
    ASSUME NEW s \in Segment
    PROVE  /\ s.vaddr \in Nat /\ s.filesz \in Nat /\ s.memsz \in Nat /\ s.off \in Nat
           /\ s.vaddr < U32 /\ s.filesz < U32 /\ s.memsz < U32
  BY Numbers DEF Segment, Places

\* What the loader may read as a program header (elf.c:38) is 32 bits wide.
LEMMA HeadersAreSegments ==
    ASSUME RomInv, NEW a \in DOMAIN rom
    PROVE  SegmentsAt(a) \subseteq Segment
<1>1. CASE rom[a].is = "file" /\ rom[a].at \in DOMAIN rom[a].file.phs
  <2>1. rom[a].file \in Files
    BY <1>1 DEF RomInv
  <2>2. rom[a].file.phs \in Seq(Segment)
    BY <2>1, StoreAssumption DEF Files
  <2>3. rom[a].file.phs[rom[a].at] \in Segment
    BY <1>1, <2>2
  <2> QED
    BY <1>1, <2>3 DEF SegmentsAt
<1>2. CASE ~(rom[a].is = "file" /\ rom[a].at \in DOMAIN rom[a].file.phs)
  BY <1>2, StoreAssumption DEF SegmentsAt
<1> QED
  BY <1>1, <1>2

\* How far an address is behind another, going round at 2^32.
LEMMA Behind ==
    ASSUME NEW p \in Places, NEW a \in Places
    PROVE  (p - a) % U32 = IF a <= p THEN p - a ELSE p - a + U32
<1>1. U32 \in Nat \ {0} /\ p \in Nat /\ a \in Nat /\ p < U32 /\ a < U32
  BY Numbers DEF Places
<1>2. CASE a <= p
  <2>1. p - a \in 0..(U32 - 1)
    BY <1>1, <1>2
  <2> QED
    BY <1>1, <1>2, <2>1
<1>3. CASE ~(a <= p)
  <2>1. p - a + U32 \in 0..(U32 - 1) /\ p - a \in Int /\ p - a < 0 /\ -U32 < p - a
    BY <1>1, <1>3
  <2> QED
    BY <1>1, <1>3, <2>1
<1> QED
  BY <1>2, <1>3

\* The cells that Copy writes are behind the segment's start, at most as far as the
\* larger of its sizes.
LEMMA CopyWithin ==
    ASSUME TypeOK, NEW n, NEW p \in Places, Copy(n)[p] # memory[p]
    PROVE  (p - ph.vaddr) % U32 < ph.filesz \/ (p - ph.vaddr) % U32 < ph.memsz
<1> DEFINE k == (p - ph.vaddr) % U32
           size == ph.filesz % U16
<1>1. /\ ph.vaddr \in Places /\ ph.filesz \in Nat /\ ph.memsz \in Nat /\ U16 \in Nat \ {0}
  BY SegmentFacts, Numbers DEF TypeOK, Segment
<1>2. k \in Nat
  BY <1>1, Behind, Numbers DEF Places
<1>3. k < size \/ k \in ph.filesz..(ph.memsz - 1)
  BY DEF Copy
<1>4. size <= ph.filesz /\ size \in Nat
  BY <1>1
<1> HIDE DEF k, size
<1>5. k < ph.filesz \/ k < ph.memsz
  BY <1>1, <1>2, <1>3, <1>4
<1> QED
  BY <1>5 DEF k

\* A sound segment with both ends in user memory is copied and zeroed there, all of it
\* or as much as there was time for (elf.c:41-53).
LEMMA CopyStays ==
    ASSUME TypeOK, InUserspace(ph), Sound(ph), KernelIs(memory), NEW n
    PROVE  KernelIs(Copy(n))
<1> SUFFICES ASSUME NEW p \in Places, ~IsUserspace(p), Copy(n)[p] # memory[p]
             PROVE  FALSE
  BY DEF KernelIs
<1> DEFINE k == (p - ph.vaddr) % U32
<1>1. /\ ph.vaddr \in Nat /\ ph.filesz \in Nat /\ ph.memsz \in Nat /\ ph.filesz <= ph.memsz
      /\ ph.vaddr + ph.memsz <= U32 /\ ph.vaddr < U32 /\ ph.vaddr \in Places
      /\ p \in Nat /\ p < U32 /\ U32 \in Nat \ {0} /\ USER_START \in Nat /\ USER_END \in Nat
  BY SegmentFacts, Numbers DEF TypeOK, Segment, Sound, Places
<1>2. k = IF ph.vaddr <= p THEN p - ph.vaddr ELSE p - ph.vaddr + U32
  BY <1>1, Behind
<1>3. k < ph.memsz
  <2>1. k < ph.filesz \/ k < ph.memsz
    BY CopyWithin
  <2> HIDE DEF k
  <2> QED
    BY <1>1, <1>2, <2>1
<1> HIDE DEF k
<1>4. ph.vaddr <= p /\ p < ph.vaddr + ph.memsz
  BY <1>1, <1>2, <1>3
<1>5. (ph.vaddr + ph.memsz - 1) % U32 = ph.vaddr + ph.memsz - 1
  <2>1. ph.vaddr + ph.memsz - 1 \in 0..(U32 - 1)
    BY <1>1, <1>4
  <2> QED
    BY <1>1, <2>1
<1>6. USER_START <= ph.vaddr /\ ph.vaddr + ph.memsz - 1 < USER_END
  BY <1>1, <1>5 DEF InUserspace, IsUserspace
<1>7. IsUserspace(p)
  BY <1>1, <1>4, <1>6 DEF IsUserspace
<1> QED
  BY <1>7

\* What the jump or a reset leaves of a copy that it cuts short.
LEMMA PartlyStays ==
    ASSUME Inv, NEW m \in Partly
    PROVE  /\ DOMAIN m = Places
           /\ KernelIs(m) \/ (pc \in {"wild", "copy"} /\ ~Sound(ph))
<1>1. TypeOK /\ KernelMemoryKept /\ DOMAIN memory = Places
  BY DEF Inv, TypeOK
<1>2. CASE pc = "copy"
  <2>1. PICK n \in Places : m = Copy(n)
    BY <1>2 DEF Partly
  <2>2. KernelIs(memory) /\ InUserspace(ph)
    BY <1>1, <1>2 DEF KernelMemoryKept, Inv, ReadInv
  <2>3. DOMAIN m = Places
    BY <2>1 DEF Copy
  <2>4. Sound(ph) => KernelIs(m)
    BY <1>1, <2>1, <2>2, CopyStays
  <2> QED
    BY <1>2, <2>3, <2>4
<1>3. CASE pc # "copy"
  BY <1>1, <1>3 DEF Partly, KernelMemoryKept
<1> QED
  BY <1>2, <1>3

\* An element of a sequence over a set is in the set.
LEMMA InSeq ==
    ASSUME NEW S, NEW b \in Seq(S), NEW k \in DOMAIN b
    PROVE  b[k] \in S
  OBVIOUS

\* The addresses in the table are 16 bits wide.
LEMMA InTable ==
    ASSUME NEW S, NEW T, NEW b \in Seq([rom_addr : S, size : T]), NEW k \in DOMAIN b
    PROVE  b[k].rom_addr \in S
<1>1. b[k] \in [rom_addr : S, size : T]
  BY InSeq
<1> QED
  BY <1>1

\* The start of the next block is at most a block less one away (ustar.c:84-87).
LEMMA NextBlockNear ==
    ASSUME NEW a \in Nat
    PROVE  NextBlock(a) \in a..(a + BLOCK - 1)
<1>1. BLOCK \in Nat \ {0}
  BY Numbers
<1>2. a % BLOCK \in 0..(BLOCK - 1)
  BY <1>1
<1> QED
  BY <1>1, <1>2 DEF NextBlock

\* A cell of an archive is one of its files' cells or headers, or zeros.
LEMMA CellsOfArchive ==
    ASSUME NEW s \in Archives, NEW a
    PROVE  /\ CellOf(s, a).is = "file" => CellOf(s, a).file \in Files
           /\ CellOf(s, a).is = "ustar" => CellOf(s, a).size \in Nat
<1>1. \A k \in DOMAIN s : s[k] \in ToSet(s) /\ s[k] \in Files
  BY DEF ToSet, Files
<1>2. CASE \E k \in DOMAIN s : a = HeaderOf(s, k)
  <2> DEFINE k == CHOOSE k \in DOMAIN s : a = HeaderOf(s, k)
  <2>1. k \in DOMAIN s
    BY <1>2
  <2>2. CellOf(s, a) = Header(s[k])
    BY <1>2 DEF CellOf
  <2> HIDE DEF k
  <2>3. s[k].size \in Nat
    BY <1>1, <2>1, StoreAssumption
  <2> QED
    BY <2>2, <2>3 DEF Header
<1>3. CASE ~(\E k \in DOMAIN s : a = HeaderOf(s, k))
  <2> DEFINE in == {k \in DOMAIN s : a \in FileOf(s, k)..(FileOf(s, k) + s[k].size - 1)}
             k == CHOOSE k \in in : TRUE
  <2>1. CASE in = {}
    BY <1>3, <2>1 DEF CellOf, Zero
  <2>2. CASE in # {}
    <3>1. k \in DOMAIN s
      BY <2>2
    <3>2. CellOf(s, a) = Cell(s[k], a - FileOf(s, k))
      BY <1>3, <2>2 DEF CellOf
    <3> HIDE DEF k, in
    <3> QED
      BY <1>1, <3>1, <3>2 DEF Cell
  <2> QED
    BY <2>1, <2>2
<1> QED
  BY <1>2, <1>3

-----------------------------------------------------------------------------

\* A file more in the table: behind the others, and before where the scan goes on.
LEMMA ListOneSteps ==
    ASSUME Inv, ListOne
    PROVE  /\ ScanInv' /\ Len(buffer') <= MAX_FILES
           /\ rom_addr' \in 0..(U16 - 1)
<1> DEFINE start == (rom_addr + BLOCK) % U16
           size  == rom[rom_addr].size
           after == (start + size) % U16
<1>1. /\ EEPROM_SIZE \in Nat \ {0} /\ BLOCK \in Nat \ {0} /\ U16 \in Nat \ {0} /\ MAX_FILES \in Nat
      /\ 2 * EEPROM_SIZE <= U16
  BY Numbers
<1>2. /\ pc = "list" /\ pc' = "list" /\ rom' = rom
      /\ buffer' = Append(buffer, [rom_addr |-> start, size |-> size % U16])
      /\ rom_addr' = NextBlock(after) % U16
      /\ Len(buffer) < MAX_FILES /\ rom_addr < EEPROM_SIZE - BLOCK /\ rom[rom_addr].is = "ustar"
  BY DEF ListOne, Goto, More, Reads
<1>12. rom_addr' = NextBlock(after) % U16
  BY <1>2
<1>3. rom_addr \in Nat /\ rom_addr \in DOMAIN rom /\ size \in Nat
  <2>1. rom_addr \in Nat /\ DOMAIN rom = 0..(EEPROM_SIZE - 1)
    BY <1>1 DEF Inv, TypeOK
  <2>2. rom_addr \in DOMAIN rom
    BY <1>1, <1>2, <2>1
  <2> QED
    BY <1>2, <2>1, <2>2 DEF Inv, RomInv
<1>4. start = rom_addr + BLOCK
  <2>1. rom_addr + BLOCK \in Nat /\ rom_addr + BLOCK < U16
    BY <1>1, <1>2, <1>3
  <2> QED
    BY <1>1, <2>1
<1> HIDE DEF start, size
<1>5. start \in Nat /\ start < EEPROM_SIZE /\ start \in 0..(U16 - 1)
  BY <1>1, <1>2, <1>3, <1>4
<1>6. after \in Nat /\ size % U16 \in 0..(U16 - 1)
  BY <1>1, <1>3, <1>5
<1>7. NextBlock(after) \in Nat /\ NextBlock(after) >= after /\ NextBlock(after) <= after + BLOCK - 1
  BY <1>1, <1>6, NextBlockNear
<1>8. rom_addr' \in 0..(U16 - 1)
  BY <1>1, <1>2, <1>7
<1>9. buffer \in Seq([rom_addr : 0..(U16 - 1), size : 0..(U16 - 1)])
  BY DEF Inv, ScanInv
<1>10. /\ buffer' \in Seq([rom_addr : 0..(U16 - 1), size : 0..(U16 - 1)])
       /\ Len(buffer') = Len(buffer) + 1 /\ DOMAIN buffer' = 1..(Len(buffer) + 1)
       /\ DOMAIN buffer = 1..Len(buffer) /\ Len(buffer) \in Nat
       /\ buffer'[Len(buffer) + 1].rom_addr = start
       /\ \A k \in 1..Len(buffer) : buffer'[k] = buffer[k]
  BY <1>2, <1>5, <1>6, <1>9
<1>11. ASSUME \A a \in DOMAIN rom : rom[a].is = "ustar" => rom[a].size <= EEPROM_SIZE - BLOCK
       PROVE  /\ \A k \in DOMAIN buffer' : buffer'[k].rom_addr <= rom_addr'
              /\ \A j, k \in DOMAIN buffer' : j < k => buffer'[j].rom_addr < buffer'[k].rom_addr
  <2>1. size <= EEPROM_SIZE - BLOCK
    BY <1>2, <1>3, <1>11 DEF size
  <2>2. after = start + size
    BY <1>1, <1>3, <1>5, <2>1
  <2> HIDE DEF after
  <2>3. NextBlock(after) < U16
    BY <1>1, <1>3, <1>5, <1>7, <2>1, <2>2
  <2>4. rom_addr' = NextBlock(after)
    BY <1>1, <1>7, <1>12, <2>3
  <2>5. start <= rom_addr' /\ rom_addr < start
    BY <1>1, <1>3, <1>4, <1>5, <1>7, <2>2, <2>4
  <2>6. /\ \A k \in DOMAIN buffer : buffer[k].rom_addr <= rom_addr
        /\ \A j, k \in DOMAIN buffer : j < k => buffer[j].rom_addr < buffer[k].rom_addr
    BY <1>2, <1>11 DEF Inv, ScanInv
  <2> DEFINE n == Len(buffer)
  <2>7. \A k \in 1..n : buffer[k].rom_addr \in Nat /\ buffer[k].rom_addr < start
    <3> SUFFICES ASSUME NEW k \in 1..n
                 PROVE  buffer[k].rom_addr \in Nat /\ buffer[k].rom_addr < start
      OBVIOUS
    <3>1. k \in DOMAIN buffer
      BY <1>10
    <3>2. buffer[k].rom_addr \in 0..(U16 - 1)
      BY <1>9, <3>1, InTable
    <3>3. buffer[k].rom_addr <= rom_addr
      BY <2>6, <3>1
    <3> QED
      BY <1>1, <1>3, <1>5, <2>5, <3>2, <3>3
  <2>10. rom_addr' \in Nat /\ n \in Nat /\ DOMAIN buffer' = 1..(n + 1)
    BY <1>7, <1>10, <2>4
  <2>8. \A k \in DOMAIN buffer' : buffer'[k].rom_addr <= rom_addr'
    <3> SUFFICES ASSUME NEW k \in 1..(n + 1) PROVE buffer'[k].rom_addr <= rom_addr'
      BY <2>10
    <3>1. CASE k = n + 1
      BY <1>5, <1>10, <2>5, <2>10, <3>1
    <3>2. CASE k \in 1..n
      <4>1. buffer'[k] = buffer[k]
        BY <1>10, <3>2
      <4> QED
        BY <1>5, <2>5, <2>7, <2>10, <3>2, <4>1
    <3> QED
      BY <2>10, <3>1, <3>2
  <2>9. \A j, k \in DOMAIN buffer' : j < k => buffer'[j].rom_addr < buffer'[k].rom_addr
    <3> SUFFICES ASSUME NEW j \in 1..(n + 1), NEW k \in 1..(n + 1), j < k
                 PROVE  buffer'[j].rom_addr < buffer'[k].rom_addr
      BY <2>10
    <3>1. j \in 1..n /\ buffer'[j] = buffer[j]
      <4>1. j \in 1..n
        BY <2>10
      <4> QED
        BY <1>10, <4>1
    <3>2. CASE k = n + 1
      BY <1>10, <2>7, <3>1, <3>2
    <3>3. CASE k \in 1..n
      <4>1. buffer'[k] = buffer[k]
        BY <1>10, <3>3
      <4> QED
        BY <1>10, <2>6, <3>1, <3>3, <4>1
    <3> QED
      BY <2>10, <3>2, <3>3
  <2> QED
    BY <2>8, <2>9
<1> QED
  <2>1. pc' # "menu" /\ rom' = rom
    BY <1>2
  <2>2. ScanInv'
    BY <1>10, <1>11, <2>1 DEF ScanInv
  <2>3. Len(buffer') <= MAX_FILES
    BY <1>1, <1>2, <1>10
  <2> QED
    BY <1>8, <2>2, <2>3

\* Back in the main menu, there is nothing left of a call.
LEMMA BackSteps ==
    ASSUME Inv, Goto(pc, "menu"), NoLocals, DOMAIN memory' = Places, KernelIs(memory'),
           kept' \in BOOLEAN
    PROVE  Inv'
<1>1. NoPh \in Segment /\ 0 \in 0..(U16 - 1)
  BY Numbers DEF NoPh, Segment, Places
<1>2. /\ UNCHANGED <<rom, archive, whole, receives>> /\ pc' = "menu"
      /\ rom_addr' = 0 /\ buffer' = <<>> /\ addr' = 0 /\ i' = 0 /\ ph' = NoPh
  BY DEF Goto, NoLocals
<1>3. TypeOK'
  <2>1. Len(buffer') <= MAX_FILES
    BY <1>2, Numbers
  <2> QED
    BY <1>1, <1>2, <2>1 DEF Inv, TypeOK
<1>4. RomInv' /\ ScanInv' /\ ReadInv' /\ KernelMemoryKept'
  BY <1>2 DEF Inv, RomInv, ScanInv, ReadInv, KernelMemoryKept
<1> QED
  BY <1>3, <1>4 DEF Inv

\* The segment that is copied leaves the kernel's memory alone, or is not sound.
LEMMA CopySegmentSteps ==
    ASSUME Inv, CopySegment
    PROVE  DOMAIN memory' = Places /\ KernelMemoryKept'
<1>1. /\ pc = "copy" /\ memory' = Copy(U32) /\ ph' = ph
      /\ pc' = IF KernelIs(memory') THEN "phdr" ELSE "wild"
  BY DEF CopySegment, Goto
<1>2. KernelIs(memory) /\ InUserspace(ph) /\ TypeOK
  BY <1>1 DEF Inv, ReadInv, KernelMemoryKept
<1>3. DOMAIN memory' = Places
  BY <1>1 DEF Copy
<1>4. Sound(ph) => KernelIs(memory')
  BY <1>1, <1>2, CopyStays
<1>5. Sound(ph') <=> Sound(ph)
  BY <1>1
<1> QED
  BY <1>1, <1>3, <1>4, <1>5 DEF KernelMemoryKept

\* Every step keeps Inv.
LEMMA InvSteps ==
    ASSUME Inv, [Next]_vars
    PROVE  Inv'
<1> USE DEF scan, load, Inv, TypeOK, RomInv, ScanInv, ReadInv, KernelMemoryKept
<1>0. U16 \in Nat \ {0} /\ MAX_FILES \in Nat \ {0} /\ MaxReceives \in Nat
  BY Numbers
<1>1. ASSUME List PROVE Inv'
  BY <1>0, <1>1 DEF List, Goto
<1>2. ASSUME ListOne PROVE Inv'
  <2>1. UNCHANGED <<rom, archive, whole, pc, addr, i, ph, memory, kept, receives>> /\ ~kept /\ pc = "list"
    BY <1>2 DEF ListOne, Goto, More
  <2>2. ScanInv' /\ Len(buffer') <= MAX_FILES /\ rom_addr' \in 0..(U16 - 1)
    BY <1>2, ListOneSteps
  <2> HIDE DEF ScanInv
  <2> QED
    BY <2>1, <2>2
<1>3. ASSUME ListEnd PROVE Inv'
  BY <1>3 DEF ListEnd, Goto
<1>4. ASSUME Select PROVE Inv'
  <2>1. PICK k \in DOMAIN buffer : addr' = buffer[k].rom_addr
    BY <1>4 DEF Select
  <2>2. addr' \in 0..(U16 - 1)
    BY <2>1, InTable
  <2> QED
    BY <1>4, <2>2 DEF Select, Goto
<1>5. ASSUME Ehdr PROVE Inv'
  BY <1>5 DEF Ehdr, Goto
<1>6. ASSUME ReadPhdr PROVE Inv'
  <2>1. /\ pc = "phdr" /\ i' \in {i, i + 1}
        /\ pc' \in {"phdr", "null"} \/ (pc' = "copy" /\ InUserspace(ph') /\ ph'.load)
        /\ UNCHANGED <<rom, archive, whole, receives, rom_addr, buffer, addr, memory, kept>>
    BY <1>6 DEF ReadPhdr, Goto
  <2>2. ph' \in Segment
    <3>1. Phdr \in DOMAIN rom
      <4>1. EEPROM_SIZE \in Nat \ {0} /\ addr \in Nat /\ i \in Nat
        BY <1>0, Numbers
      <4>2. Phdr \in Nat
        BY <1>0, <4>1 DEF Phdr
      <4>3. Phdr <= EEPROM_SIZE - 1
        BY <1>6, <4>1, <4>2 DEF ReadPhdr, OutOfRange
      <4> QED
        BY <4>1, <4>2, <4>3
    <3>2. ph' \in SegmentsAt(Phdr)
      BY <1>6 DEF ReadPhdr
    <3> QED
      BY <3>1, <3>2, HeadersAreSegments
  <2> QED
    BY <2>1, <2>2
<1>7. ASSUME PhdrRefused PROVE Inv'
  BY <1>7 DEF PhdrRefused, Goto
<1>8. ASSUME CopySegment PROVE Inv'
  <2>1. /\ pc = "copy" /\ i' = i + 1 /\ pc' \in {"phdr", "wild"}
        /\ UNCHANGED <<rom, archive, whole, receives, rom_addr, buffer, addr, ph, kept>>
    BY <1>8 DEF CopySegment, Goto
  <2>2. DOMAIN memory' = Places /\ KernelMemoryKept'
    BY <1>8, CopySegmentSteps
  <2> HIDE DEF KernelMemoryKept
  <2> QED
    BY <2>1, <2>2
<1>9. ASSUME LoadEnd PROVE Inv'
  BY <1>9 DEF LoadEnd, Goto
<1>10. ASSUME Leave PROVE Inv'
  BY <1>10, BackSteps DEF Leave, Goto
<1>11. ASSUME Abandon PROVE Inv'
  <2>1. /\ DOMAIN memory' = Places /\ pc # "wild" /\ kept' \in BOOLEAN
        /\ KernelIs(memory') \/ ~Sound(ph)
    BY <1>11, PartlyStays DEF Abandon
  <2>2. CASE KernelIs(memory')
    BY <1>11, <2>1, <2>2, BackSteps DEF Abandon
  <2>3. CASE ~KernelIs(memory')
    <3>1. UNCHANGED <<rom, archive, whole, receives, rom_addr, buffer, addr, i, ph>> /\ pc' = "wild"
      BY <1>11, <2>3 DEF Abandon, Goto
    <3> QED
      BY <2>1, <3>1
  <2> QED
    BY <2>2, <2>3
<1>12. ASSUME Reset PROVE Inv'
  <2>1. PICK m \in Partly : memory' = Boot(m)
    BY <1>12 DEF Reset
  <2>2. DOMAIN memory' = Places /\ KernelIs(memory')
    BY <2>1 DEF Boot, KernelIs
  <2> QED
    BY <1>12, <2>2, BackSteps DEF Reset
<1>13. ASSUME NEW s \in Archives, Receive(s) PROVE Inv'
  <2>1. /\ pc = "menu" /\ archive' = s /\ receives < MaxReceives /\ receives' = receives + 1
        /\ UNCHANGED <<pc, rom_addr, buffer, addr, i, ph, memory, kept>>
    BY <1>13 DEF Receive
  <2>6. receives' \in 0..MaxReceives
    BY <1>0, <2>1
  <2>7. whole' \in BOOLEAN
    BY <1>13 DEF Receive
  <2>2. PICK n : rom' = Stored(s, n)
    BY <1>13 DEF Receive
  <2>3. /\ DOMAIN rom' = 0..(EEPROM_SIZE - 1)
        /\ \A a \in DOMAIN rom' : rom'[a] = IF a < n THEN CellOf(s, a) ELSE rom[a]
    BY <2>2 DEF Stored
  <2>4. RomInv'
    BY <2>3, CellsOfArchive
  <2>5. ScanInv'
    BY <2>1
  <2> QED
    BY <2>1, <2>3, <2>4, <2>5, <2>6, <2>7
<1>14. ASSUME UNCHANGED vars PROVE Inv'
  BY <1>14 DEF vars
<1> QED
  BY <1>1, <1>2, <1>3, <1>4, <1>5, <1>6, <1>7, <1>8, <1>9, <1>10, <1>11, <1>12, <1>13, <1>14 DEF Next

\* Inv holds at first.
LEMMA InitInv == Init => Inv
<1> SUFFICES ASSUME Init PROVE Inv
  OBVIOUS
<1>1. NoPh \in Segment
  BY Numbers DEF NoPh, Segment, Places
<1>2. KernelMemoryKept
  BY DEF Init, KernelMemoryKept, KernelIs
<1>3. Len(buffer) <= MAX_FILES
  BY Numbers DEF Init
<1>4. TypeOK
  <2>1. DOMAIN rom = 0..(EEPROM_SIZE - 1) /\ DOMAIN memory = Places
    BY DEF Init
  <2>2. 0 \in 0..(U16 - 1) /\ 0 \in 0..MaxReceives
    BY Numbers
  <2> QED
    BY <1>1, <1>3, <2>1, <2>2 DEF Init, TypeOK
<1>5. RomInv /\ ScanInv /\ ReadInv
  BY DEF Init, RomInv, ScanInv, ReadInv, Zero
<1> QED
  BY <1>2, <1>4, <1>5 DEF Inv

\* Inv holds throughout.
LEMMA Invariance == Spec => []Inv
<1> QED
  BY InitInv, InvSteps, PTL DEF Spec

-----------------------------------------------------------------------------

\* Induction over the natural numbers, for a set of them.
LEMMA SetInduction ==
    ASSUME NEW T, 0 \in T, \A n \in T : n \in Nat => n + 1 \in T
    PROVE  Nat \subseteq T
<1> DEFINE R == Nat \ T
<1> SUFFICES ASSUME R # {} PROVE FALSE
  OBVIOUS
<1>1. R \subseteq Nat /\ \A n \in R : n # 0 /\ n \in Nat
  OBVIOUS
<1>2. PICK x \in R : \A y \in R : ~(<<y, x>> \in OpToRel(<, Nat))
  <2> HIDE DEF R
  <2> QED
    BY <1>1, NatLessThanWellFounded, WFMin
<1>3. x - 1 \in Nat /\ x - 1 \in T
  <2>1. x \in Nat /\ x # 0
    BY <1>1
  <2>2. x - 1 \in Nat /\ x - 1 < x
    BY <2>1
  <2>3. x - 1 \notin R
    BY <1>2, <2>1, <2>2 DEF OpToRel
  <2> QED
    BY <2>2, <2>3
<1>4. (x - 1) + 1 = x
  BY <1>1
<1>5. (x - 1) + 1 \in T
  BY <1>3
<1> QED
  BY <1>4, <1>5

\* f is the sum of step, up to n.
Sums(f, step, n) == /\ f \in [1..(n + 1) -> Nat]
                    /\ \A k \in 1..(n + 1) : f[k] = IF k = 1 THEN 0 ELSE f[k - 1] + step[k - 1]

\* There is such a function.
LEMMA SumsExist ==
    ASSUME NEW N \in Nat, NEW step \in [1..N -> Nat]
    PROVE  \E f : Sums(f, step, N)
<1> DEFINE T == {n \in Nat : n <= N => \E f : Sums(f, step, n)}
<1>1. 0 \in T
  <2>1. Sums([k \in 1..(0 + 1) |-> 0], step, 0)
    BY DEF Sums
  <2> QED
    BY <2>1
<1>2. ASSUME NEW n \in T, n + 1 <= N PROVE \E f : Sums(f, step, n + 1)
  <2>1. PICK f : Sums(f, step, n)
    BY <1>2
  <2> DEFINE g == [k \in 1..(n + 2) |-> IF k = n + 2 THEN f[n + 1] + step[n + 1] ELSE f[k]]
  <2>2. n \in Nat /\ n + 1 \in 1..N /\ (n + 1) + 1 = n + 2
    BY <1>2
  <2>3. f[n + 1] \in Nat /\ step[n + 1] \in Nat
    BY <2>1, <2>2 DEF Sums
  <2>4. g \in [1..(n + 2) -> Nat]
    BY <2>1, <2>2, <2>3 DEF Sums
  <2>5. ASSUME NEW k \in 1..(n + 2) PROVE g[k] = IF k = 1 THEN 0 ELSE g[k - 1] + step[k - 1]
    <3>1. CASE k = n + 2
      BY <2>2, <3>1
    <3>2. CASE k # n + 2
      BY <2>1, <2>2, <3>2 DEF Sums
    <3> QED
      BY <3>1, <3>2
  <2>6. Sums(g, step, n + 1)
    BY <2>2, <2>4, <2>5 DEF Sums
  <2> QED
    BY <2>6
<1>3. N \in T
  <2> HIDE DEF T
  <2>1. \A n \in T : n \in Nat => n + 1 \in T
    BY <1>2 DEF T
  <2> QED
    BY <1>1, <2>1, SetInduction
<1> QED
  BY <1>3

\* A member of an archive is a file, and has a size.
LEMMA Members ==
    ASSUME NEW s \in Archives \cup {<<>>}
    PROVE  /\ s \in Seq(Files)
           /\ \A k \in DOMAIN s : s[k].size \in Nat
<1>1. CASE s = <<>>
  BY <1>1
<1>2. CASE s \in Archives
  <2>1. s \in Seq(ToSet(s)) /\ ToSet(s) \subseteq Files
    BY <1>2, StoreAssumption DEF Files
  <2>2. \A k \in DOMAIN s : s[k] \in ToSet(s)
    BY DEF ToSet
  <2> QED
    BY <1>2, <2>1, <2>2, StoreAssumption
<1> QED
  BY <1>1, <1>2

\* What % and \div are.
LEMMA Division ==
    ASSUME NEW n \in Nat
    PROVE  /\ BLOCK \in Nat \ {0}
           /\ n % BLOCK \in 0..(BLOCK - 1) /\ n \div BLOCK \in Nat
           /\ n = ((n \div BLOCK) * BLOCK) + (n % BLOCK)
<1>1. BLOCK \in Nat \ {0}
  BY StoreAssumption
<1> QED
  BY <1>1

\* What a multiple of BLOCK and a remainder are made of.
LEMMA Quotient ==
    ASSUME NEW q \in Nat, NEW r \in 0..(BLOCK - 1)
    PROVE  (q * BLOCK + r) \div BLOCK = q /\ (q * BLOCK + r) % BLOCK = r
<1>1. BLOCK \in Nat \ {0}
  BY StoreAssumption
<1> QED
  BY <1>1

\* The blocks that the contents of a file fill, and where the scan goes on after them.
LEMMA BlocksFacts ==
    ASSUME NEW n \in Nat, NEW q \in Nat
    PROVE  /\ Blocks(n) \in Nat /\ n <= Blocks(n)
           /\ \E b \in Nat : Blocks(n) = b * BLOCK
           /\ NextBlock(q * BLOCK + n) = q * BLOCK + Blocks(n)
<1> DEFINE d == n \div BLOCK
           r == n % BLOCK
<1>1. /\ BLOCK \in Nat \ {0} /\ d \in Nat /\ r \in 0..(BLOCK - 1)
      /\ n = d * BLOCK + r /\ d * BLOCK \in Nat /\ q * BLOCK \in Nat
  <2>1. /\ BLOCK \in Nat \ {0} /\ d \in Nat /\ r \in 0..(BLOCK - 1) /\ n = d * BLOCK + r
    BY Division
  <2> HIDE DEF d, r
  <2> QED
    BY <2>1
<1>2. q * BLOCK + n = (q + d) * BLOCK + r
  <2> HIDE DEF d, r
  <2> QED
    BY <1>1
<1>3. (q * BLOCK + n) % BLOCK = r
  <2> HIDE DEF d, r
  <2> QED
    BY <1>1, <1>2
<1>4. CASE r = 0
  <2>1. n + BLOCK - 1 = d * BLOCK + (BLOCK - 1)
    BY <1>1, <1>4
  <2>2. Blocks(n) = d * BLOCK
    <3> HIDE DEF d, r
    <3>1. BLOCK - 1 \in 0..(BLOCK - 1)
      BY <1>1
    <3>2. (d * BLOCK + (BLOCK - 1)) \div BLOCK = d
      BY <1>1, <3>1, Quotient
    <3> QED
      BY <2>1, <3>2 DEF Blocks
  <2>3. NextBlock(q * BLOCK + n) = q * BLOCK + n
    BY <1>3, <1>4 DEF NextBlock
  <2> HIDE DEF d, r
  <2> QED
    BY <1>1, <1>4, <2>2, <2>3
<1>5. CASE r # 0
  <2>1. n + BLOCK - 1 = (d + 1) * BLOCK + (r - 1)
    <3> HIDE DEF d, r
    <3> QED
      BY <1>1, <1>5
  <2>2. Blocks(n) = (d + 1) * BLOCK
    <3> HIDE DEF d, r
    <3>1. r - 1 \in 0..(BLOCK - 1) /\ d + 1 \in Nat
      BY <1>1, <1>5
    <3>2. ((d + 1) * BLOCK + (r - 1)) \div BLOCK = d + 1
      BY <3>1, Quotient
    <3> QED
      BY <2>1, <3>2 DEF Blocks
  <2>3. NextBlock(q * BLOCK + n) = (q * BLOCK + n + BLOCK) - r
    BY <1>3, <1>5 DEF NextBlock
  <2>4. (d + 1) * BLOCK = d * BLOCK + BLOCK
    <3> HIDE DEF d, r
    <3> QED
      BY <1>1
  <2> HIDE DEF d, r
  <2>5. d + 1 \in Nat /\ (d + 1) * BLOCK \in Nat
    BY <1>1, <2>4
  <2>6. NextBlock(q * BLOCK + n) = q * BLOCK + ((d + 1) * BLOCK) /\ n <= (d + 1) * BLOCK
    <3>1. \A x, y, z \in Nat : x + (y + r) + z - r = x + (y + z)
      BY <1>1
    <3> QED
      BY <1>1, <2>3, <2>4, <3>1
  <2> QED
    BY <2>2, <2>5, <2>6
<1> QED
  BY <1>1, <1>4, <1>5

\* Where the headers of an archive's members are.
LEMMA HeaderSteps ==
    ASSUME NEW s \in Archives \cup {<<>>}
    PROVE  /\ HeaderOf(s, 1) = 0
           /\ \A k \in 1..(Len(s) + 1) : HeaderOf(s, k) \in Nat
           /\ \A k \in DOMAIN s : HeaderOf(s, k + 1) = HeaderOf(s, k) + BLOCK + Blocks(s[k].size)
<1> DEFINE N == Len(s)
           step == [k \in 1..N |-> BLOCK + Blocks(s[k].size)]
           At(f) == [n \in 1..(N + 1) |-> IF n = 1 THEN 0 ELSE f[n - 1] + BLOCK + Blocks(s[n - 1].size)]
           h == CHOOSE f : f = At(f)
<1>1. N \in Nat /\ DOMAIN s = 1..N /\ \A k \in 1..N : s[k].size \in Nat
  BY Members
<1>2. BLOCK \in Nat /\ \A k \in 1..N : Blocks(s[k].size) \in Nat
  BY <1>1, BlocksFacts, Division
<1>3. step \in [1..N -> Nat]
  BY <1>1, <1>2
<1>4. PICK f : Sums(f, step, N)
  <2> HIDE DEF step, N
  <2> QED
    BY <1>1, <1>3, SumsExist
<1>5. \A k \in 2..(N + 1) : f[k] = f[k - 1] + BLOCK + Blocks(s[k - 1].size)
  <2> TAKE k \in 2..(N + 1)
  <2>1. k - 1 \in 1..N /\ k \in 1..(N + 1) /\ k # 1 /\ k - 1 \in 1..(N + 1)
    BY <1>1
  <2>2. f[k] = f[k - 1] + step[k - 1] /\ f[k - 1] \in Nat
    BY <1>4, <2>1 DEF Sums
  <2>3. step[k - 1] = BLOCK + Blocks(s[k - 1].size)
    BY <2>1
  <2> HIDE DEF step, N
  <2> QED
    BY <1>2, <2>1, <2>2, <2>3
<1>6. f = At(f)
  <2>1. f \in [1..(N + 1) -> Nat] /\ f[1] = 0
    <3> HIDE DEF step, N
    <3>1. 1 \in 1..(N + 1)
      BY <1>1
    <3> QED
      BY <1>4, <3>1 DEF Sums
  <2> HIDE DEF step, N
  <2> QED
    BY <1>1, <1>5, <2>1
<1>7. h = At(h)
  BY <1>6
<1>8. \A k : HeaderOf(s, k) = h[k]
  BY DEF HeaderOf
<1> HIDE DEF h
<1>9. /\ h[1] = 0 /\ h = [n \in 1..(N + 1) |-> h[n]]
      /\ \A k \in 1..N : h[k + 1] = h[k] + BLOCK + Blocks(s[k].size)
  <2>1. ASSUME NEW k \in 1..N
        PROVE  h[k + 1] = h[k] + BLOCK + Blocks(s[k].size)
    <3>1. k + 1 \in 1..(N + 1) /\ k + 1 # 1 /\ (k + 1) - 1 = k
      BY <1>1
    <3> HIDE DEF N
    <3> QED
      BY <1>7, <3>1
  <2>2. 1 \in 1..(N + 1)
    BY <1>1
  <2> HIDE DEF N
  <2> QED
    BY <1>7, <2>1, <2>2
<1> DEFINE T == {n \in Nat : n <= N => h[n + 1] \in Nat}
<1>10. Nat \subseteq T
  <2>1. 0 \in T
    BY <1>9
  <2>2. ASSUME NEW n \in T, n \in Nat, n + 1 <= N PROVE h[(n + 1) + 1] \in Nat
    <3>1. n + 1 \in 1..N /\ h[n + 1] \in Nat
      BY <1>1, <2>2
    <3>2. h[(n + 1) + 1] = h[n + 1] + BLOCK + Blocks(s[n + 1].size)
      BY <1>9, <3>1
    <3> HIDE DEF N
    <3> QED
      BY <1>2, <3>1, <3>2
  <2>3. ASSUME NEW n \in T, n \in Nat PROVE n + 1 \in T
    <3>1. n + 1 \in Nat
      BY <2>3
    <3> QED
      BY <2>2, <2>3, <3>1
  <2> HIDE DEF T
  <2> QED
    BY <2>1, <2>3, SetInduction
<1>11. \A k \in 1..(N + 1) : h[k] \in Nat
  <2> TAKE k \in 1..(N + 1)
  <2>1. k - 1 \in Nat /\ k - 1 <= N /\ (k - 1) + 1 = k
    BY <1>1
  <2>2. k - 1 \in T
    BY <1>10, <2>1
  <2> QED
    BY <2>1, <2>2
<1> QED
  BY <1>1, <1>8, <1>9, <1>11

\* The headers are at the starts of blocks.
LEMMA HeadersAligned ==
    ASSUME NEW s \in Archives \cup {<<>>}, NEW k \in 1..(Len(s) + 1)
    PROVE  \E q \in Nat : HeaderOf(s, k) = q * BLOCK
<1> DEFINE T == {n \in Nat : n <= Len(s) => \E q \in Nat : HeaderOf(s, n + 1) = q * BLOCK}
<1>1. Len(s) \in Nat /\ DOMAIN s = 1..Len(s) /\ BLOCK \in Nat \ {0}
  BY Members, StoreAssumption
<1>2. 0 \in T
  <2>1. HeaderOf(s, 0 + 1) = 0 * BLOCK
    BY <1>1, HeaderSteps
  <2> QED
    BY <2>1
<1>3. ASSUME NEW n \in T, n \in Nat PROVE n + 1 \in T
  <2> SUFFICES ASSUME n + 1 <= Len(s)
               PROVE  \E q \in Nat : HeaderOf(s, (n + 1) + 1) = q * BLOCK
    BY <1>3
  <2>1. n + 1 \in DOMAIN s
    BY <1>1, <1>3
  <2>2. PICK q \in Nat : HeaderOf(s, n + 1) = q * BLOCK
    BY <1>1, <1>3
  <2>3. PICK b \in Nat : Blocks(s[n + 1].size) = b * BLOCK
    BY <2>1, Members, BlocksFacts
  <2>4. HeaderOf(s, (n + 1) + 1) = q * BLOCK + BLOCK + b * BLOCK
    BY <2>1, <2>2, <2>3, HeaderSteps
  <2>5. q * BLOCK + BLOCK + b * BLOCK = (q + 1 + b) * BLOCK
    BY <1>1
  <2> QED
    BY <2>4, <2>5
<1>4. k - 1 \in Nat /\ k - 1 <= Len(s) /\ (k - 1) + 1 = k
  BY <1>1
<1>5. k - 1 \in T
  <2> HIDE DEF T
  <2> QED
    BY <1>2, <1>3, <1>4, SetInduction
<1> QED
  BY <1>4, <1>5

\* A member's contents are behind its header, and before the next members and the end.
LEMMA HeadersInOrder ==
    ASSUME NEW s \in Archives \cup {<<>>}, NEW j \in DOMAIN s, NEW k \in 1..(Len(s) + 1), j < k
    PROVE  HeaderOf(s, j) + BLOCK + Blocks(s[j].size) <= HeaderOf(s, k)
<1> DEFINE T == {n \in Nat : j + 1 + n <= Len(s) + 1 =>
                                HeaderOf(s, j) + BLOCK + Blocks(s[j].size) <= HeaderOf(s, j + 1 + n)}
<1>1. /\ Len(s) \in Nat /\ DOMAIN s = 1..Len(s) /\ j \in 1..Len(s) /\ BLOCK \in Nat \ {0}
      /\ \A m \in 1..Len(s) : Blocks(s[m].size) \in Nat
  <2>1. s \in Seq(Files) /\ \A m \in DOMAIN s : s[m].size \in Nat
    BY Members
  <2>2. \A m \in DOMAIN s : Blocks(s[m].size) \in Nat
    BY <2>1, BlocksFacts
  <2>3. Len(s) \in Nat /\ DOMAIN s = 1..Len(s)
    BY <2>1
  <2>4. BLOCK \in Nat \ {0}
    BY StoreAssumption
  <2> QED
    BY <2>2, <2>3, <2>4
<1>2. \A m \in 1..(Len(s) + 1) : HeaderOf(s, m) \in Nat
  BY HeaderSteps
<1>3. 0 \in T
  <2>1. j + 1 + 0 = j + 1 /\ j \in 1..(Len(s) + 1)
    BY <1>1
  <2>2. HeaderOf(s, j + 1) = HeaderOf(s, j) + BLOCK + Blocks(s[j].size)
    BY HeaderSteps
  <2>3. HeaderOf(s, j + 1) \in Nat
    <3>1. j + 1 \in 1..(Len(s) + 1)
      BY <1>1
    <3> QED
      BY <1>2, <3>1
  <2> QED
    BY <2>1, <2>2, <2>3
<1>4. ASSUME NEW n \in T, n \in Nat PROVE n + 1 \in T
  <2> SUFFICES ASSUME j + 1 + (n + 1) <= Len(s) + 1
               PROVE  HeaderOf(s, j) + BLOCK + Blocks(s[j].size) <= HeaderOf(s, j + 1 + (n + 1))
    BY <1>4
  <2> DEFINE m == j + 1 + n
  <2>1. m \in 1..Len(s) /\ j + 1 + (n + 1) = m + 1 /\ m <= Len(s) + 1
    BY <1>1, <1>4
  <2>2. HeaderOf(s, j) + BLOCK + Blocks(s[j].size) <= HeaderOf(s, m)
    BY <1>4, <2>1
  <2> HIDE DEF m
  <2>3. HeaderOf(s, m + 1) = HeaderOf(s, m) + BLOCK + Blocks(s[m].size)
    BY <1>1, <2>1, HeaderSteps
  <2>4. /\ HeaderOf(s, j) \in Nat /\ HeaderOf(s, m) \in Nat /\ Blocks(s[j].size) \in Nat
        /\ Blocks(s[m].size) \in Nat
    <3>1. j \in 1..(Len(s) + 1) /\ m \in 1..(Len(s) + 1)
      BY <1>1, <2>1
    <3> QED
      BY <1>1, <1>2, <2>1, <3>1
  <2>5. \A x, y, b \in Nat : x <= y => x <= y + BLOCK + b
    BY <1>1
  <2>6. HeaderOf(s, j) + BLOCK + Blocks(s[j].size) \in Nat
    <3>1. BLOCK \in Nat
      BY <1>1
    <3> QED
      BY <2>4, <3>1
  <2>7. HeaderOf(s, j) + BLOCK + Blocks(s[j].size) <= HeaderOf(s, m) + BLOCK + Blocks(s[m].size)
    BY <2>2, <2>4, <2>5, <2>6
  <2> QED
    BY <2>1, <2>3, <2>7
<1>5. k - (j + 1) \in Nat /\ j + 1 + (k - (j + 1)) = k /\ k <= Len(s) + 1
  BY <1>1
<1>6. k - (j + 1) \in T
  <2> HIDE DEF T
  <2> QED
    BY <1>3, <1>4, <1>5, SetInduction
<1> QED
  BY <1>5, <1>6

\* Where the header of a member is.
LEMMA CellAtHeader ==
    ASSUME NEW s \in Archives \cup {<<>>}, NEW k \in DOMAIN s
    PROVE  CellOf(s, HeaderOf(s, k)) = Header(s[k])
<1> DEFINE a == HeaderOf(s, k)
           c == CHOOSE j \in DOMAIN s : a = HeaderOf(s, j)
<1>1. c \in DOMAIN s /\ a = HeaderOf(s, c)
  OBVIOUS
<1>2. CellOf(s, a) = Header(s[c])
  BY DEF CellOf
<1> HIDE DEF c
<1>3. c = k
  <2>1. /\ Len(s) \in Nat /\ DOMAIN s = 1..Len(s) /\ BLOCK \in Nat \ {0}
        /\ \A m \in 1..Len(s) : s[m].size \in Nat
    BY Members, StoreAssumption
  <2>2. ASSUME NEW j \in 1..Len(s), NEW m \in 1..Len(s), j < m
        PROVE  HeaderOf(s, j) # HeaderOf(s, m)
    <3>1. HeaderOf(s, j) + BLOCK + Blocks(s[j].size) <= HeaderOf(s, m)
      BY <2>1, <2>2, HeadersInOrder
    <3>2. HeaderOf(s, j) \in Nat /\ HeaderOf(s, m) \in Nat
      <4>1. j \in 1..(Len(s) + 1) /\ m \in 1..(Len(s) + 1)
        BY <2>1
      <4> QED
        BY <4>1, HeaderSteps
    <3>3. Blocks(s[j].size) \in Nat
      BY <2>1, BlocksFacts
    <3> QED
      BY <2>1, <3>1, <3>2, <3>3
  <2>3. c \in 1..Len(s) /\ k \in 1..Len(s)
    BY <1>1, <2>1
  <2>4. ~(c < k) /\ ~(k < c)
    BY <1>1, <2>2, <2>3
  <2> QED
    BY <2>1, <2>3, <2>4
<1> QED
  BY <1>2, <1>3

\* No other member begins or lies within the contents of one.
LEMMA NoHeaderWithin ==
    ASSUME NEW s \in Archives \cup {<<>>}, NEW k \in DOMAIN s, NEW m \in DOMAIN s,
           NEW a \in FileOf(s, k)..(FileOf(s, k) + s[k].size - 1)
    PROVE  /\ a # HeaderOf(s, m)
           /\ a \in FileOf(s, m)..(FileOf(s, m) + s[m].size - 1) => m = k
<1>1. /\ Len(s) \in Nat /\ DOMAIN s = 1..Len(s) /\ BLOCK \in Nat \ {0}
      /\ s[k].size \in Nat /\ s[m].size \in Nat
  BY Members, StoreAssumption
<1>2. /\ Blocks(s[k].size) \in Nat /\ s[k].size <= Blocks(s[k].size)
      /\ Blocks(s[m].size) \in Nat /\ s[m].size <= Blocks(s[m].size)
  BY <1>1, BlocksFacts
<1>3. k \in 1..Len(s) /\ m \in 1..Len(s) /\ k \in 1..(Len(s) + 1) /\ m \in 1..(Len(s) + 1)
  BY <1>1
<1>4. HeaderOf(s, k) \in Nat /\ HeaderOf(s, m) \in Nat
  BY <1>3, HeaderSteps
<1>5. FileOf(s, k) = HeaderOf(s, k) + BLOCK /\ FileOf(s, m) = HeaderOf(s, m) + BLOCK
  BY DEF FileOf
<1> DEFINE B == BLOCK  x == HeaderOf(s, k)  y == HeaderOf(s, m)
           u == s[k].size  v == s[m].size  p == Blocks(s[k].size)  q == Blocks(s[m].size)
<1>6. /\ B \in Nat \ {0} /\ x \in Nat /\ y \in Nat /\ u \in Nat /\ v \in Nat
      /\ p \in Nat /\ u <= p /\ q \in Nat /\ v <= q
      /\ FileOf(s, k) = x + B /\ FileOf(s, m) = y + B /\ a \in (x + B)..(x + B + u - 1)
  BY <1>1, <1>2, <1>4, <1>5
<1>7. k < m => x + B + p <= y
  BY <1>3, HeadersInOrder
<1>8. m < k => y + B + q <= x
  BY <1>3, HeadersInOrder
<1>9. a # y /\ (a \in (y + B)..(y + B + v - 1) => m = k)
  <2>1. m = k => x = y
    OBVIOUS
  <2>2. k \in Int /\ m \in Int
    BY <1>1, <1>3
  <2> HIDE DEF B, x, y, u, v, p, q
  <2>3. CASE m = k
    BY <1>6, <2>1, <2>3
  <2>4. CASE k < m
    BY <1>6, <1>7, <2>4
  <2>5. CASE m < k
    BY <1>6, <1>8, <2>5
  <2> QED
    BY <2>2, <2>3, <2>4, <2>5
<1> QED
  BY <1>6, <1>9

\* A cell of a member's contents.
LEMMA CellAtFile ==
    ASSUME NEW s \in Archives \cup {<<>>}, NEW k \in DOMAIN s, NEW j \in 0..(s[k].size - 1)
    PROVE  CellOf(s, FileOf(s, k) + j) = Cell(s[k], j)
<1> DEFINE a == FileOf(s, k) + j
           in == {m \in DOMAIN s : a \in FileOf(s, m)..(FileOf(s, m) + s[m].size - 1)}
           c == CHOOSE m \in in : TRUE
<1>1. FileOf(s, k) \in Nat /\ s[k].size \in Nat
  <2>1. k \in 1..(Len(s) + 1) /\ BLOCK \in Nat /\ s[k].size \in Nat
    <3>1. BLOCK \in Nat
      BY StoreAssumption
    <3>2. Len(s) \in Nat /\ DOMAIN s = 1..Len(s) /\ s[k].size \in Nat
      BY Members
    <3>3. k \in 1..(Len(s) + 1)
      BY <3>2
    <3> QED
      BY <3>1, <3>2, <3>3
  <2>2. HeaderOf(s, k) \in Nat
    BY <2>1, HeaderSteps
  <2> QED
    BY <2>1, <2>2 DEF FileOf
<1>2. a \in FileOf(s, k)..(FileOf(s, k) + s[k].size - 1) /\ a - FileOf(s, k) = j
  BY <1>1
<1>3. ~(\E m \in DOMAIN s : a = HeaderOf(s, m))
  BY <1>2, NoHeaderWithin
<1>4. in = {k}
  BY <1>2, NoHeaderWithin
<1>5. CellOf(s, a) = Cell(s[c], a - FileOf(s, c))
  BY <1>3, <1>4 DEF CellOf
<1>6. c = k
  BY <1>4
<1> HIDE DEF c, a
<1>7. CellOf(s, a) = Cell(s[k], j)
  BY <1>2, <1>5, <1>6
<1> QED
  BY <1>7 DEF a

\* What is behind the last member.
LEMMA CellAtEnd ==
    ASSUME NEW s \in Archives \cup {<<>>}
    PROVE  CellOf(s, HeaderOf(s, Len(s) + 1)) = Zero
<1> DEFINE a == HeaderOf(s, Len(s) + 1)
<1>1. /\ Len(s) \in Nat /\ DOMAIN s = 1..Len(s) /\ BLOCK \in Nat \ {0}
      /\ \A m \in 1..Len(s) : s[m].size \in Nat
  BY Members, StoreAssumption
<1>2. a \in Nat
  <2>1. Len(s) + 1 \in 1..(Len(s) + 1)
    BY <1>1
  <2> QED
    BY <2>1, HeaderSteps
<1>3. ASSUME NEW m \in DOMAIN s
      PROVE  a # HeaderOf(s, m) /\ a \notin FileOf(s, m)..(FileOf(s, m) + s[m].size - 1)
  <2>1. m \in 1..Len(s) /\ m < Len(s) + 1 /\ m \in 1..(Len(s) + 1) /\ Len(s) + 1 \in 1..(Len(s) + 1)
    BY <1>1
  <2>2. HeaderOf(s, m) + BLOCK + Blocks(s[m].size) <= a
    BY <2>1, HeadersInOrder
  <2>3. HeaderOf(s, m) \in Nat
    BY <2>1, HeaderSteps
  <2>4. Blocks(s[m].size) \in Nat /\ s[m].size <= Blocks(s[m].size) /\ s[m].size \in Nat
    BY <1>1, <2>1, BlocksFacts
  <2> HIDE DEF a
  <2> QED
    BY <1>1, <1>2, <2>2, <2>3, <2>4 DEF FileOf
<1> QED
  BY <1>3 DEF CellOf

\* Everything of an archive is before its end.
LEMMA WithinExtent ==
    ASSUME NEW s \in Archives \cup {<<>>}, NEW k \in DOMAIN s
    PROVE  /\ HeaderOf(s, k) \in Nat /\ FileOf(s, k) = HeaderOf(s, k) + BLOCK
           /\ FileOf(s, k) + Blocks(s[k].size) + 2 * BLOCK <= Extent(s)
           /\ HeaderOf(s, Len(s) + 1) \in Nat /\ Extent(s) = HeaderOf(s, Len(s) + 1) + 2 * BLOCK
<1>1. Len(s) \in Nat /\ DOMAIN s = 1..Len(s) /\ BLOCK \in Nat \ {0} /\ s[k].size \in Nat
  BY Members, StoreAssumption
<1>2. k \in 1..(Len(s) + 1) /\ Len(s) + 1 \in 1..(Len(s) + 1) /\ k < Len(s) + 1
  BY <1>1
<1>3. HeaderOf(s, k) + BLOCK + Blocks(s[k].size) <= HeaderOf(s, Len(s) + 1)
  BY <1>2, HeadersInOrder
<1>4. HeaderOf(s, k) \in Nat /\ HeaderOf(s, Len(s) + 1) \in Nat
  BY <1>2, HeaderSteps
<1>5. Blocks(s[k].size) \in Nat
  BY <1>1, BlocksFacts
<1> QED
  BY <1>1, <1>3, <1>4, <1>5 DEF FileOf, Extent

-----------------------------------------------------------------------------

\* A member of a whole archive is in the EEPROM, header and contents.
LEMMA MemberInRom ==
    ASSUME TypeOK, InRom, NEW k \in DOMAIN archive
    PROVE  LET h == HeaderOf(archive, k)
               f == FileOf(archive, k)
               n == archive[k].size
           IN  /\ h \in Nat /\ f = h + BLOCK /\ n \in Nat /\ n <= Blocks(n) /\ Blocks(n) \in Nat
               /\ f + Blocks(n) + 2 * BLOCK < EEPROM_SIZE
               /\ h \in DOMAIN rom /\ rom[h] = Header(archive[k])
               /\ \A j \in 0..(n - 1) : f + j \in DOMAIN rom /\ rom[f + j] = Cell(archive[k], j)
<1> DEFINE h == HeaderOf(archive, k)
           f == FileOf(archive, k)
           n == archive[k].size
<1>1. archive \in Archives \cup {<<>>} /\ archive # <<>> /\ DOMAIN rom = 0..(EEPROM_SIZE - 1)
  BY DEF TypeOK
<1>2. BLOCK \in Nat \ {0} /\ EEPROM_SIZE \in Nat \ {0} /\ n \in Nat
  BY <1>1, Members, StoreAssumption
<1>3. n <= Blocks(n) /\ Blocks(n) \in Nat
  BY <1>2, BlocksFacts
<1>4. h \in Nat /\ f = h + BLOCK /\ f + Blocks(n) + 2 * BLOCK <= Extent(archive)
  BY <1>1, WithinExtent
<1>5. Extent(archive) < EEPROM_SIZE /\ Extent(archive) \in Nat
  <2>1. HeaderOf(archive, Len(archive) + 1) \in Nat
    BY <1>1, WithinExtent
  <2> QED
    BY <1>1, <1>2, <2>1 DEF InRom, Extent
<1>6. CellOf(archive, h) = Header(archive[k])
  BY <1>1, CellAtHeader
<1>7. \A j \in 0..(n - 1) : CellOf(archive, f + j) = Cell(archive[k], j)
  BY <1>1, CellAtFile
<1> HIDE DEF h, f, n
<1>8. h \in DOMAIN rom /\ h < Extent(archive)
  BY <1>1, <1>2, <1>3, <1>4, <1>5
<1>9. rom[h] = Header(archive[k])
  BY <1>6, <1>8 DEF InRom
<1>10. ASSUME NEW j \in 0..(n - 1)
       PROVE  f + j \in DOMAIN rom /\ rom[f + j] = Cell(archive[k], j)
  <2>1. f + j \in DOMAIN rom /\ f + j < Extent(archive)
    BY <1>1, <1>2, <1>3, <1>4, <1>5
  <2> QED
    BY <1>7, <2>1 DEF InRom
<1>11. f + Blocks(n) + 2 * BLOCK < EEPROM_SIZE
  BY <1>2, <1>3, <1>4, <1>5
<1> QED
  BY <1>2, <1>3, <1>4, <1>8, <1>9, <1>10, <1>11 DEF h, f, n

\* What is behind the last member ends the scan.
LEMMA EndInRom ==
    ASSUME TypeOK, InRom
    PROVE  LET h == HeaderOf(archive, Len(archive) + 1)
           IN  h \in DOMAIN rom /\ rom[h] = Zero
<1> DEFINE h == HeaderOf(archive, Len(archive) + 1)
<1>1. archive \in Archives \cup {<<>>} /\ DOMAIN rom = 0..(EEPROM_SIZE - 1)
  BY DEF TypeOK
<1>2. BLOCK \in Nat \ {0} /\ EEPROM_SIZE \in Nat \ {0} /\ Len(archive) \in Nat
  BY <1>1, Members, StoreAssumption
<1>3. h \in Nat
  <2>1. Len(archive) + 1 \in 1..(Len(archive) + 1)
    BY <1>2
  <2> QED
    BY <1>1, <2>1, HeaderSteps
<1>4. Extent(archive) = h + 2 * BLOCK
  BY DEF Extent
<1>5. h < EEPROM_SIZE
  <2>1. CASE archive = <<>>
    <3>1. Len(archive) + 1 = 1
      BY <2>1
    <3>2. h = 0
      BY <1>1, <3>1, HeaderSteps
    <3> QED
      BY <1>2, <3>2
  <2>2. CASE archive # <<>>
    <3> HIDE DEF h
    <3> QED
      BY <1>2, <1>3, <1>4, <2>2 DEF InRom
  <2> QED
    BY <2>1, <2>2
<1>6. CellOf(archive, h) = Zero
  BY <1>1, CellAtEnd
<1> HIDE DEF h
<1>7. h \in DOMAIN rom /\ h < Extent(archive)
  BY <1>1, <1>2, <1>3, <1>4, <1>5
<1>8. rom[h] = Zero
  BY <1>6, <1>7 DEF InRom
<1> QED
  BY <1>7, <1>8 DEF h

\* A member more is listed: the next one, in its place.
LEMMA ListOneWhole ==
    ASSUME Inv, InRom, Listed, ListOne
    PROVE  /\ Len(buffer') <= Len(archive)
           /\ \A k \in DOMAIN buffer' : buffer'[k] = Entry(k)
           /\ rom_addr' = HeaderOf(archive, Len(buffer') + 1)
<1> DEFINE n == Len(buffer)
           start == (rom_addr + BLOCK) % U16
           size  == rom[rom_addr].size
<1>1. /\ EEPROM_SIZE \in Nat \ {0} /\ BLOCK \in Nat \ {0} /\ U16 \in Nat \ {0}
      /\ 2 * EEPROM_SIZE <= U16
  BY Numbers
<1>2. /\ pc = "list" /\ rom[rom_addr].is = "ustar"
      /\ buffer' = Append(buffer, [rom_addr |-> start, size |-> size % U16])
      /\ rom_addr' = NextBlock((start + size) % U16) % U16
  BY DEF ListOne, Goto, More
<1>3. /\ TypeOK /\ archive \in Archives \cup {<<>>}
      /\ buffer \in Seq([rom_addr : 0..(U16 - 1), size : 0..(U16 - 1)])
  BY DEF Inv, TypeOK, ScanInv
<1>4. n \in Nat /\ n <= Len(archive) /\ rom_addr = HeaderOf(archive, n + 1)
  BY <1>2, <1>3 DEF Listed
<1>5. Len(archive) \in Nat /\ DOMAIN archive = 1..Len(archive)
  BY <1>3, Members
<1>6. n # Len(archive)
  BY <1>2, <1>3, <1>4, EndInRom DEF Zero
<1> DEFINE k == n + 1
<1>7. k \in DOMAIN archive
  BY <1>4, <1>5, <1>6
<1>8. /\ rom_addr \in Nat /\ FileOf(archive, k) = rom_addr + BLOCK
      /\ archive[k].size \in Nat /\ archive[k].size <= Blocks(archive[k].size)
      /\ Blocks(archive[k].size) \in Nat
      /\ FileOf(archive, k) + Blocks(archive[k].size) + 2 * BLOCK < EEPROM_SIZE
      /\ rom[rom_addr] = Header(archive[k])
  <2> HIDE DEF k
  <2> QED
    BY <1>3, <1>4, <1>7, MemberInRom DEF k
<1>9. size = archive[k].size
  BY <1>8 DEF Header
<1>10. start = FileOf(archive, k) /\ start \in Nat
  <2>1. rom_addr + BLOCK \in Nat /\ rom_addr + BLOCK < U16
    BY <1>1, <1>8
  <2>2. start = rom_addr + BLOCK
    BY <1>1, <2>1
  <2> HIDE DEF start
  <2> QED
    BY <1>8, <2>1, <2>2
<1> HIDE DEF size, start
<1>11. size % U16 = size /\ (start + size) % U16 = start + size
  <2> DEFINE b == Blocks(archive[k].size)
  <2>1. /\ size \in Nat /\ size <= b /\ b \in Nat /\ start \in Nat
        /\ start + b + 2 * BLOCK < EEPROM_SIZE
    BY <1>8, <1>9, <1>10
  <2> HIDE DEF b
  <2>2. size \in Nat /\ start + size \in Nat /\ size < U16 /\ start + size < U16
    BY <1>1, <2>1
  <2> QED
    BY <1>1, <2>2
<1>12. NextBlock(start + size) = start + Blocks(size)
  <2>1. PICK q \in Nat : rom_addr = q * BLOCK
    <3>1. k \in 1..(Len(archive) + 1)
      BY <1>4, <1>5
    <3> QED
      BY <1>3, <1>4, <3>1, HeadersAligned
  <2>2. start = (q + 1) * BLOCK /\ q + 1 \in Nat
    BY <1>1, <1>8, <1>10, <2>1
  <2> QED
    BY <1>8, <1>9, <2>2, BlocksFacts
<1>13. start + Blocks(size) = HeaderOf(archive, k + 1)
  <2>1. HeaderOf(archive, k + 1) = HeaderOf(archive, k) + BLOCK + Blocks(archive[k].size)
    BY <1>3, <1>7, HeaderSteps
  <2> QED
    BY <1>4, <1>8, <1>9, <1>10, <2>1
<1>14. rom_addr' = HeaderOf(archive, k + 1)
  <2>1. start + Blocks(size) \in Nat /\ start + Blocks(size) < U16
    BY <1>1, <1>8, <1>9, <1>10
  <2>2. (start + Blocks(size)) % U16 = start + Blocks(size)
    BY <1>1, <2>1
  <2> QED
    BY <1>2, <1>11, <1>12, <1>13, <2>2
<1>15. /\ Len(buffer') = n + 1 /\ DOMAIN buffer' = 1..(n + 1) /\ DOMAIN buffer = 1..n
       /\ \A m \in 1..n : buffer'[m] = buffer[m]
       /\ buffer'[n + 1] = [rom_addr |-> start, size |-> size % U16]
  BY <1>2, <1>3
<1>16. buffer'[n + 1] = Entry(n + 1)
  BY <1>9, <1>10, <1>11, <1>15 DEF Entry
<1>17. \A m \in 1..n : buffer[m] = Entry(m)
  BY <1>2, <1>15 DEF Listed
<1>18. \A m \in DOMAIN buffer' : buffer'[m] = Entry(m)
  <2> SUFFICES ASSUME NEW m \in 1..(n + 1) PROVE buffer'[m] = Entry(m)
    BY <1>15
  <2> HIDE DEF n
  <2>1. m = n + 1 \/ m \in 1..n
    BY <1>4
  <2> QED
    BY <1>15, <1>16, <1>17, <2>1
<1>19. Len(buffer') <= Len(archive)
  <2> HIDE DEF n
  <2>1. \A x, y \in Nat : x <= y /\ x # y => x + 1 <= y
    OBVIOUS
  <2>2. n \in Nat /\ Len(archive) \in Nat /\ n <= Len(archive) /\ n # Len(archive)
    BY <1>4, <1>5, <1>6
  <2>3. n + 1 <= Len(archive)
    BY <2>1, <2>2
  <2> QED
    BY <1>15, <2>3
<1>20. rom_addr' = HeaderOf(archive, Len(buffer') + 1)
  BY <1>14, <1>15
<1> QED
  BY <1>18, <1>19, <1>20

\* Every step keeps a whole archive listed as it is.
LEMMA WholeSteps ==
    ASSUME Inv, WholeInv, [Next]_vars
    PROVE  WholeInv'
<1> SUFFICES ASSUME whole' PROVE InRom' /\ Listed'
  BY DEF WholeInv
<1>0. TypeOK /\ DOMAIN rom = 0..(EEPROM_SIZE - 1)
  BY DEF Inv, TypeOK
<1>1. ASSUME UNCHANGED <<rom, archive, whole>>
      PROVE  whole /\ InRom /\ InRom' /\ Listed
  <2>1. whole /\ InRom /\ Listed
    BY <1>1 DEF WholeInv
  <2>2. InRom'
    BY <1>1, <2>1 DEF InRom
  <2> QED
    BY <2>1, <2>2
<1>2. ASSUME List PROVE InRom' /\ Listed'
  <2>1. UNCHANGED <<rom, archive, whole>> /\ pc' = "list" /\ rom_addr' = 0 /\ buffer' = <<>>
    BY <1>2 DEF List, Goto
  <2>2. archive \in Archives \cup {<<>>} /\ archive' = archive
    BY <1>0, <2>1 DEF TypeOK
  <2>3. Len(archive) \in Nat /\ HeaderOf(archive, 1) = 0
    BY <2>2, Members, HeaderSteps
  <2>4. Len(buffer') = 0 /\ DOMAIN buffer' = {}
    BY <2>1
  <2>5. Listed'
    BY <2>1, <2>2, <2>3, <2>4 DEF Listed
  <2> QED
    BY <1>1, <2>1, <2>5
<1>3. ASSUME ListOne PROVE InRom' /\ Listed'
  <2>1. UNCHANGED <<rom, archive, whole>> /\ pc' = "list"
    BY <1>3 DEF ListOne, Goto
  <2>2. /\ Len(buffer') <= Len(archive)
        /\ \A k \in DOMAIN buffer' : buffer'[k] = Entry(k)
        /\ rom_addr' = HeaderOf(archive, Len(buffer') + 1)
    BY <1>1, <1>3, <2>1, ListOneWhole
  <2>3. Listed'
    BY <2>1, <2>2 DEF Listed, Entry
  <2> QED
    BY <1>1, <2>1, <2>3
<1>4. ASSUME ListEnd PROVE InRom' /\ Listed'
  <2>1. /\ UNCHANGED <<rom, archive, whole, rom_addr, buffer>>
        /\ pc = "list" /\ pc' \in {"menu", "listed"} /\ ~More
    BY <1>4 DEF ListEnd, Goto, scan
  <2>5. ASSUME pc' = "listed" PROVE Len(buffer) = MAX_FILES \/ Len(buffer) = Len(archive)
    <3>0. ~kept
      <4>1. buffer # <<>>
        BY <1>4, <2>5 DEF ListEnd, Goto
      <4> QED
        BY <2>1, <4>1 DEF Inv, ReadInv
    <3> SUFFICES ASSUME Len(buffer) # MAX_FILES, Len(buffer) # Len(archive) PROVE FALSE
      OBVIOUS
    <3>1. /\ archive \in Archives \cup {<<>>} /\ Len(buffer) <= MAX_FILES
          /\ buffer \in Seq([rom_addr : 0..(U16 - 1), size : 0..(U16 - 1)])
          /\ Len(buffer) <= Len(archive) /\ rom_addr = HeaderOf(archive, Len(buffer) + 1)
      BY <1>0, <1>1, <2>1 DEF TypeOK, Inv, ScanInv, Listed
    <3> DEFINE k == Len(buffer) + 1
    <3>2. k \in DOMAIN archive /\ Len(buffer) < MAX_FILES
      <4>1. Len(archive) \in Nat /\ DOMAIN archive = 1..Len(archive) /\ Len(buffer) \in Nat
        BY <3>1, Members
      <4>2. MAX_FILES \in Nat
        BY Numbers
      <4> QED
        BY <3>1, <4>1, <4>2
    <3> HIDE DEF k
    <3>3. /\ HeaderOf(archive, k) \in Nat /\ FileOf(archive, k) = HeaderOf(archive, k) + BLOCK
          /\ Blocks(archive[k].size) \in Nat
          /\ FileOf(archive, k) + Blocks(archive[k].size) + 2 * BLOCK < EEPROM_SIZE
          /\ rom[HeaderOf(archive, k)] = Header(archive[k])
      BY <1>0, <1>1, <2>1, <3>2, MemberInRom
    <3>4. rom[rom_addr].is = "ustar"
      BY <3>1, <3>3 DEF Header, k
    <3>5. rom_addr = HeaderOf(archive, k)
      BY <3>1 DEF k
    <3>6. rom_addr < EEPROM_SIZE - BLOCK
      BY <3>3, <3>5, Numbers
    <3> QED
      BY <2>1, <3>0, <3>2, <3>4, <3>6 DEF More, Reads
  <2>3. Listed'
    BY <1>1, <2>1, <2>5 DEF Listed, Entry
  <2> QED
    BY <1>1, <2>1, <2>3
<1>5. ASSUME Select PROVE InRom' /\ Listed'
  <2>1. UNCHANGED <<rom, archive, whole>> /\ pc = "listed" /\ pc' = "ehdr"
    BY <1>5 DEF Select, Goto
  <2>2. PICK k \in DOMAIN buffer : addr' = buffer[k].rom_addr
    BY <1>5 DEF Select
  <2>3. addr' = FileOf(archive, k)
    <3>1. buffer[k] = Entry(k)
      BY <1>1, <2>1 DEF Listed
    <3> QED
      BY <2>2, <3>1 DEF Entry
  <2>4. k \in DOMAIN archive
    <3>1. /\ archive \in Archives \cup {<<>>} /\ Len(buffer) <= Len(archive)
          /\ buffer \in Seq([rom_addr : 0..(U16 - 1), size : 0..(U16 - 1)])
      BY <1>0, <1>1, <2>1 DEF TypeOK, Inv, ScanInv, Listed
    <3>2. Len(archive) \in Nat /\ DOMAIN archive = 1..Len(archive) /\ Len(buffer) \in Nat
      BY <3>1, Members
    <3> QED
      BY <3>1, <3>2
  <2>5. Listed'
    BY <2>1, <2>3, <2>4 DEF Listed
  <2> QED
    BY <1>1, <2>1, <2>5
<1>6. ASSUME Ehdr \/ ReadPhdr \/ PhdrRefused \/ CopySegment \/ LoadEnd PROVE InRom' /\ Listed'
  <2>1. /\ UNCHANGED <<rom, archive, whole, rom_addr, buffer, addr>>
        /\ pc \in {"ehdr", "phdr", "copy"} /\ pc' \in {"phdr", "copy", "null", "entry", "wild"}
    BY <1>6 DEF Ehdr, ReadPhdr, PhdrRefused, CopySegment, LoadEnd, Goto, scan, load
  <2>2. Listed'
    BY <1>1, <2>1 DEF Listed
  <2> QED
    BY <1>1, <2>1, <2>2
<1>7. ASSUME Leave \/ Abandon \/ Reset PROVE InRom' /\ Listed'
  <2>1. UNCHANGED <<rom, archive, whole>> /\ pc' \in {"menu", "wild"}
    BY <1>7 DEF Leave, Abandon, Reset, Goto
  <2>2. Listed'
    BY <2>1 DEF Listed
  <2> QED
    BY <1>1, <2>1, <2>2
<1>8. ASSUME NEW s \in Archives, Receive(s) PROVE InRom' /\ Listed'
  <2>1. /\ pc' = "menu" /\ archive' = s
        /\ ~OutOfRange(0, Extent(s)) /\ rom' = Stored(s, Extent(s))
    BY <1>8 DEF Receive
  <2>2. Listed'
    BY <2>1 DEF Listed
  <2>3. \A a \in DOMAIN rom' : a < Extent(s) => rom'[a] = CellOf(s, a)
    BY <2>1 DEF Stored
  <2>4. Extent(s) < EEPROM_SIZE
    <3>1. s \in Archives \cup {<<>>}
      OBVIOUS
    <3>2. Len(s) \in Nat
      BY <3>1, Members
    <3>3. HeaderOf(s, Len(s) + 1) \in Nat
      BY <3>1, <3>2, HeaderSteps
    <3> QED
      BY <2>1, <3>3, Numbers DEF Extent, OutOfRange
  <2>5. InRom'
    BY <2>1, <2>3, <2>4 DEF InRom
  <2> QED
    BY <2>2, <2>5
<1>9. ASSUME UNCHANGED vars PROVE InRom' /\ Listed'
  <2>1. UNCHANGED <<rom, archive, whole, rom_addr, buffer, addr, pc>>
    BY <1>9 DEF vars, scan, load
  <2>2. Listed'
    BY <1>1, <2>1 DEF Listed, Entry
  <2> QED
    BY <1>1, <2>1, <2>2
<1> QED
  BY <1>2, <1>3, <1>4, <1>5, <1>6, <1>7, <1>8, <1>9 DEF Next

-----------------------------------------------------------------------------

\* A segment that is copied is in memory afterwards (elf.c:50-53).
LEMMA CopyLoads ==
    ASSUME TypeOK, Sound(ph), memory' = Copy(U32), UNCHANGED <<rom, addr, ph>>
    PROVE  InMemory(ph)'
<1>1. /\ ph \in Segment /\ ph.vaddr \in Nat /\ ph.filesz \in Nat /\ ph.memsz \in Nat /\ ph.off \in Nat
      /\ ph.vaddr \in Places /\ ph.filesz <= ph.memsz /\ ph.vaddr + ph.memsz <= U32 /\ ph.memsz < U32
  BY SegmentFacts DEF TypeOK, Sound, Segment
<1>2. /\ EEPROM_SIZE \in Nat \ {0} /\ U16 \in Nat \ {0} /\ 2 * EEPROM_SIZE <= U16 /\ addr \in Nat
      /\ U32 \in Nat \ {0}
  BY Numbers DEF TypeOK
<1>3. ASSUME ~OutOfRange(addr + ph.off, ph.filesz), NEW k \in 0..(ph.memsz - 1)
      PROVE  memory'[ph.vaddr + k] = IF k < ph.filesz THEN rom[addr + ph.off + k] ELSE Zero
  <2>1. ph.vaddr + k \in Places /\ ph.vaddr <= ph.vaddr + k /\ (ph.vaddr + k) - ph.vaddr = k
    BY <1>1, <1>2 DEF Places
  <2>3. ph.filesz < U16 /\ addr + ph.off \in Nat /\ addr + ph.off < U16
    BY <1>1, <1>2, <1>3 DEF OutOfRange
  <2>4. ph.filesz % U16 = ph.filesz /\ (addr + ph.off) % U16 = addr + ph.off
    BY <1>1, <1>2, <2>3
  <2>5. memory'[ph.vaddr + k] =
          IF k < U32 /\ k < ph.filesz THEN rom[addr + ph.off + k]
          ELSE IF k < U32 /\ k \in ph.filesz..(ph.memsz - 1) THEN Zero ELSE memory[ph.vaddr + k]
    <3>1. PICK p \in Places : p = ph.vaddr + k
      BY <2>1
    <3>2. (p - ph.vaddr) % U32 = k
      <4>1. ph.vaddr <= p /\ p - ph.vaddr = k
        BY <2>1, <3>1
      <4>2. (p - ph.vaddr) % U32 = p - ph.vaddr
        BY <1>1, <4>1, Behind
      <4> QED
        BY <4>1, <4>2
    <3>3. Copy(U32)[p] =
            IF k < U32 /\ k < ph.filesz THEN rom[addr + ph.off + k]
            ELSE IF k < U32 /\ k \in ph.filesz..(ph.memsz - 1) THEN Zero ELSE memory[p]
      BY <1>3, <2>4, <3>2 DEF Copy
    <3> QED
      BY <3>1, <3>3
  <2>6. k < U32 /\ (~(k < ph.filesz) => k \in ph.filesz..(ph.memsz - 1))
    BY <1>1, <1>2
  <2> QED
    BY <2>5, <2>6
<1>4. OutOfRange(addr + ph.off, ph.filesz)' <=> OutOfRange(addr + ph.off, ph.filesz)
  BY DEF OutOfRange
<1> QED
  BY <1>3, <1>4 DEF InMemory

\* One that was copied before is still there, if the two are apart.
LEMMA CopyKeeps ==
    ASSUME TypeOK, Sound(ph), memory' = Copy(U32), UNCHANGED <<rom, addr>>,
           NEW t \in Segment, Sound(t), Apart(t, ph), InMemory(t)
    PROVE  InMemory(t)'
<1>1. /\ ph.vaddr \in Nat /\ ph.filesz \in Nat /\ ph.memsz \in Nat /\ ph.vaddr \in Places
      /\ ph.filesz <= ph.memsz /\ ph.vaddr + ph.memsz <= U32
      /\ t.vaddr \in Nat /\ t.filesz \in Nat /\ t.memsz \in Nat /\ t.vaddr + t.memsz <= U32
      /\ U32 \in Nat \ {0}
  BY SegmentFacts, Numbers DEF TypeOK, Sound, Segment
<1>2. ASSUME NEW k \in 0..(t.memsz - 1) PROVE memory'[t.vaddr + k] = memory[t.vaddr + k]
  <2> DEFINE p == t.vaddr + k
             d == (p - ph.vaddr) % U32
  <2>1. p \in Places /\ p \in Nat /\ p < U32
    BY <1>1 DEF Places
  <2>2. d = IF ph.vaddr <= p THEN p - ph.vaddr ELSE p - ph.vaddr + U32
    BY <1>1, <2>1, Behind
  <2>3. p < ph.vaddr \/ ph.vaddr + ph.memsz <= p
    BY <1>1 DEF Apart
  <2> SUFFICES ASSUME Copy(U32)[p] # memory[p] PROVE FALSE
    OBVIOUS
  <2>4. d < ph.filesz \/ d < ph.memsz
    BY <2>1, CopyWithin
  <2> HIDE DEF d, p
  <2> QED
    BY <1>1, <2>1, <2>2, <2>3, <2>4
<1>3. OutOfRange(addr + t.off, t.filesz)' <=> OutOfRange(addr + t.off, t.filesz)
  BY DEF OutOfRange
<1> QED
  BY <1>2, <1>3 DEF InMemory

\* What holds while a program is loaded.
LEMMA LoadFacts ==
    ASSUME Inv, LoadInv, pc \in {"phdr", "copy", "entry"}
    PROVE  /\ TypeOK /\ RomInv /\ addr \in Nat /\ i \in Nat /\ addr < U16 /\ DOMAIN rom = 0..(EEPROM_SIZE - 1)
           /\ EEPROM_SIZE \in Nat \ {0} /\ U16 \in Nat \ {0} /\ 2 * EEPROM_SIZE <= U16
           /\ Program \in Files /\ Program.phs \in Seq(Segment)
           /\ DOMAIN Program.phs = 1..Len(Program.phs) /\ Len(Program.phs) \in Nat
<1>1. Elf /\ addr + i < EEPROM_SIZE - 1
  BY DEF LoadInv
<1>2. /\ TypeOK /\ RomInv /\ addr \in Nat /\ i \in Nat /\ addr < U16 /\ DOMAIN rom = 0..(EEPROM_SIZE - 1)
      /\ EEPROM_SIZE \in Nat \ {0} /\ U16 \in Nat \ {0} /\ 2 * EEPROM_SIZE <= U16
  BY Numbers DEF Inv, TypeOK
<1>3. addr \in DOMAIN rom
  BY <1>1, <1>2
<1>4. Program \in Files
  BY <1>1, <1>2, <1>3 DEF Elf, RomInv, Program
<1>5. Program.phs \in Seq(Segment)
  BY <1>4, StoreAssumption DEF Files
<1> QED
  BY <1>2, <1>4, <1>5

\* The program stays what it is, and what was loaded of it stays in memory, as long as
\* neither the EEPROM nor memory changes.
LEMMA SameProgram ==
    ASSUME UNCHANGED <<rom, addr, kept>>
    PROVE  /\ Elf' <=> Elf
           /\ Program' = Program /\ (Linked(Program)' <=> Linked(Program))
           /\ HeadersRead' <=> HeadersRead
<1>1. Program' = Program
  BY DEF Program
<1> QED
  BY <1>1 DEF Elf, OutOfRange, Linked, HeadersRead

LEMMA SameMemory ==
    ASSUME UNCHANGED <<rom, addr, memory>>, NEW t, InMemory(t)
    PROVE  InMemory(t)'
  BY DEF InMemory, OutOfRange

\* A program header is read (elf.c:36-41): it is the program's next one, if the
\* headers are in the EEPROM.
LEMMA ReadPhdrSteps ==
    ASSUME Inv, LoadInv, ReadPhdr, pc' \in {"phdr", "copy"}
    PROVE  LoadInv'
<1>1. /\ UNCHANGED <<rom, addr, memory, kept>> /\ pc = "phdr"
      /\ i < Len(Program.phs) /\ ~OutOfRange(Phdr, 1) /\ ph' \in SegmentsAt(Phdr)
      /\ \/ pc' = "phdr" /\ i' = i + 1 /\ ~ph'.load
         \/ pc' = "copy" /\ i' = i
  BY DEF ReadPhdr, Goto
<1>2. /\ Elf /\ addr + i < EEPROM_SIZE - 1
      /\ Linked(Program) /\ HeadersRead =>
            \A m \in 1..i : Program.phs[m].load => InMemory(Program.phs[m])
  BY <1>1 DEF LoadInv
<1>3. /\ addr \in Nat /\ i \in Nat /\ addr < U16
      /\ EEPROM_SIZE \in Nat \ {0} /\ U16 \in Nat \ {0} /\ 2 * EEPROM_SIZE <= U16
      /\ DOMAIN Program.phs = 1..Len(Program.phs) /\ Len(Program.phs) \in Nat
      /\ Program.phs \in Seq(Segment)
  BY <1>1, LoadFacts
<1>4. Phdr = addr + (i + 1) /\ addr + i < EEPROM_SIZE - 2
  <2>1. addr + 1 + i \in Nat /\ addr + 1 + i < U16
    BY <1>2, <1>3
  <2>2. Phdr = addr + 1 + i
    BY <1>3, <2>1 DEF Phdr
  <2> QED
    BY <1>1, <1>3, <2>2 DEF OutOfRange
<1>5. i + 1 \in DOMAIN Program.phs /\ i + 1 <= Len(Program.phs)
  BY <1>1, <1>3
<1>6. ASSUME HeadersRead PROVE ph' = Program.phs[i + 1]
  <2>1. rom[Phdr] = Cell(Program, i + 1)
    BY <1>4, <1>5, <1>6 DEF HeadersRead
  <2>2. rom[Phdr].is = "file" /\ rom[Phdr].at = i + 1 /\ rom[Phdr].file = Program
    BY <2>1 DEF Cell
  <2> QED
    BY <1>1, <1>5, <2>2 DEF SegmentsAt
<1>7. /\ Elf' /\ Program' = Program /\ (Linked(Program)' <=> Linked(Program))
      /\ HeadersRead' <=> HeadersRead
  BY <1>1, <1>2, SameProgram
<1>8. ASSUME NEW m \in 1..i, InMemory(Program.phs[m]) PROVE InMemory(Program.phs[m])'
  <2>1. PICK t : t = Program.phs[m]
    OBVIOUS
  <2>2. InMemory(t)'
    BY <1>1, <1>8, <2>1, SameMemory
  <2> QED
    BY <1>7, <2>1, <2>2
<1>9. CASE pc' = "phdr"
  <2>1. i' = i + 1 /\ ~ph'.load
    BY <1>1, <1>9
  <2>2. ASSUME Linked(Program), HeadersRead, NEW m \in 1..(i + 1), Program.phs[m].load
        PROVE  InMemory(Program.phs[m])'
    <3>1. m # i + 1
      BY <1>6, <2>1, <2>2
    <3>2. m \in 1..i
      BY <1>3, <3>1
    <3> QED
      BY <1>2, <1>8, <2>2, <3>2
  <2>3. addr + (i + 1) < EEPROM_SIZE - 1
    BY <1>3, <1>4
  <2> QED
    BY <1>1, <1>5, <1>7, <1>9, <2>1, <2>2, <2>3 DEF LoadInv
<1>10. CASE pc' = "copy"
  <2>1. i' = i
    BY <1>1, <1>10
  <2>2. ASSUME Linked(Program), HeadersRead, NEW m \in 1..i, Program.phs[m].load
        PROVE  InMemory(Program.phs[m])'
    BY <1>2, <1>8, <2>2
  <2>3. i <= Len(Program.phs)
    BY <1>1, <1>3
  <2> QED
    BY <1>1, <1>2, <1>4, <1>6, <1>7, <1>10, <2>1, <2>2, <2>3 DEF LoadInv
<1> QED
  BY <1>1, <1>9, <1>10

\* A segment is copied (elf.c:50-54).
LEMMA CopySteps ==
    ASSUME Inv, LoadInv, CopySegment, pc' = "phdr"
    PROVE  LoadInv'
<1>1. /\ UNCHANGED <<rom, addr, ph, kept>> /\ i' = i + 1 /\ pc = "copy" /\ memory' = Copy(U32)
  BY DEF CopySegment, Goto
<1>2. /\ Elf /\ i < Len(Program.phs) /\ addr + i < EEPROM_SIZE - 2
      /\ HeadersRead => ph = Program.phs[i + 1]
      /\ Linked(Program) /\ HeadersRead =>
            \A m \in 1..i : Program.phs[m].load => InMemory(Program.phs[m])
  BY <1>1 DEF LoadInv
<1>3. /\ TypeOK /\ addr \in Nat /\ i \in Nat /\ EEPROM_SIZE \in Nat \ {0}
      /\ DOMAIN Program.phs = 1..Len(Program.phs) /\ Len(Program.phs) \in Nat
      /\ Program.phs \in Seq(Segment)
  BY <1>1, LoadFacts
<1>4. i + 1 \in DOMAIN Program.phs /\ i + 1 <= Len(Program.phs) /\ addr + (i + 1) < EEPROM_SIZE - 1
  BY <1>2, <1>3
<1>5. /\ Elf' /\ Program' = Program /\ (Linked(Program)' <=> Linked(Program))
      /\ HeadersRead' <=> HeadersRead
  BY <1>1, <1>2, SameProgram
<1>6. ASSUME Linked(Program), HeadersRead, NEW m \in 1..(i + 1), Program.phs[m].load
      PROVE  InMemory(Program.phs[m])'
  <2>1. \A k \in DOMAIN Program.phs : Program.phs[k] \in Segment /\ Sound(Program.phs[k])
    <3> SUFFICES ASSUME NEW k \in DOMAIN Program.phs
                 PROVE  Program.phs[k] \in Segment /\ Sound(Program.phs[k])
      OBVIOUS
    <3>1. Program.phs[k] \in Segment /\ Program.phs[k] \in ToSet(Program.phs)
      BY <1>3 DEF ToSet
    <3> QED
      BY <1>6, <3>1 DEF Linked
  <2>2. ph = Program.phs[i + 1] /\ Sound(ph)
    BY <1>2, <1>4, <1>6, <2>1
  <2>3. CASE m = i + 1
    <3>1. InMemory(ph)'
      BY <1>1, <1>3, <2>2, CopyLoads
    <3>2. ph' = (Program.phs[m])'
      BY <1>1, <1>5, <2>2, <2>3
    <3> QED
      BY <3>1, <3>2
  <2>4. CASE m # i + 1
    <3>1. m \in 1..i /\ m \in DOMAIN Program.phs
      BY <1>3, <1>4, <2>4
    <3>2. InMemory(Program.phs[m])
      BY <1>2, <1>6, <3>1
    <3>3. PICK t \in Segment : t = Program.phs[m]
      BY <2>1, <3>1
    <3>4. Apart(t, ph)
      <4>1. ph.load
        BY <1>1 DEF Inv, ReadInv
      <4> QED
        BY <1>4, <1>6, <2>2, <2>4, <3>1, <3>3, <4>1 DEF Linked
    <3>5. InMemory(t)'
      BY <1>1, <1>3, <2>1, <2>2, <3>1, <3>2, <3>3, <3>4, CopyKeeps
    <3> QED
      BY <1>5, <3>3, <3>5
  <2> QED
    BY <2>3, <2>4
<1> QED
  BY <1>1, <1>4, <1>5, <1>6 DEF LoadInv

\* Every step keeps what was loaded.
LEMMA LoadSteps ==
    ASSUME Inv, LoadInv, [Next]_vars
    PROVE  LoadInv'
<1> SUFFICES ASSUME pc' \in {"phdr", "copy", "entry"} PROVE LoadInv'
  BY DEF LoadInv
<1>1. ASSUME Ehdr PROVE LoadInv'
  <2>1. /\ UNCHANGED <<rom, addr>> /\ i' = 0 /\ pc' = "phdr" /\ Elf /\ ~kept'
    BY <1>1 DEF Ehdr, Goto, Elf
  <2>2. addr \in Nat /\ EEPROM_SIZE \in Nat \ {0} /\ RomInv /\ DOMAIN rom = 0..(EEPROM_SIZE - 1)
    BY Numbers DEF Inv, TypeOK
  <2>3. addr + 0 < EEPROM_SIZE - 1 /\ addr \in DOMAIN rom
    BY <2>1, <2>2 DEF Elf, OutOfRange
  <2>4. Program \in Files
    BY <2>1, <2>2, <2>3 DEF Elf, RomInv, Program
  <2>5. Program.phs \in Seq(Segment)
    BY <2>4, StoreAssumption DEF Files
  <2>6. Elf' /\ Program' = Program /\ 0 <= Len(Program.phs)
    BY <2>1, <2>5 DEF Elf, OutOfRange, Program
  <2> QED
    BY <2>1, <2>3, <2>6 DEF LoadInv
<1>2. ASSUME ReadPhdr PROVE LoadInv'
  <2>1. pc' \in {"phdr", "copy"}
    BY <1>2 DEF ReadPhdr, Goto
  <2> QED
    BY <1>2, <2>1, ReadPhdrSteps
<1>3. ASSUME CopySegment PROVE LoadInv'
  <2>1. pc' = "phdr"
    BY <1>3 DEF CopySegment, Goto
  <2> QED
    BY <1>3, <2>1, CopySteps
<1>4. ASSUME UNCHANGED <<rom, addr, i, ph, memory, kept>>, pc \in {"phdr", "copy", "entry"},
             pc' = pc \/ (pc' = "entry" /\ i = Len(Program.phs))
      PROVE  LoadInv'
  <2>1. /\ Elf' <=> Elf
        /\ Program' = Program /\ (Linked(Program)' <=> Linked(Program))
        /\ HeadersRead' <=> HeadersRead
    BY <1>4, SameProgram
  <2>2. ASSUME NEW m \in 1..i, InMemory(Program.phs[m]) PROVE InMemory(Program.phs[m])'
    <3>1. PICK t : t = Program.phs[m]
      OBVIOUS
    <3>2. InMemory(t)'
      BY <1>4, <2>2, <3>1, SameMemory
    <3> QED
      BY <2>1, <3>1, <3>2
  <2> QED
    BY <1>4, <2>1, <2>2 DEF LoadInv
<1>5. ASSUME LoadEnd PROVE LoadInv'
  BY <1>4, <1>5 DEF LoadEnd, Goto, load
<1>6. ASSUME UNCHANGED vars PROVE LoadInv'
  BY <1>4, <1>6 DEF vars, load
<1>7. ~(\/ List \/ ListOne \/ ListEnd \/ Select \/ PhdrRefused \/ Leave \/ Abandon \/ Reset
       \/ \E s \in Archives : Receive(s))
  BY DEF List, ListOne, ListEnd, Select, PhdrRefused, Leave, Abandon, Reset, Receive, Goto
<1> QED
  BY <1>1, <1>2, <1>3, <1>5, <1>6, <1>7 DEF Next

\* What the loaded segments make of the property, when the program's archive is whole.
LEMMA EntryLoaded ==
    ASSUME Inv, WholeInv, LoadInv
    PROVE  LoadedImage
<1> SUFFICES ASSUME pc = "entry", Linked(Program), HeadersRead, NEW s \in ToSet(Program.phs), s.load,
                    ~OutOfRange(addr + s.off, s.filesz), NEW k \in 0..(s.memsz - 1)
             PROVE  /\ memory[s.vaddr + k] = IF k < s.filesz THEN rom[addr + s.off + k] ELSE Zero
                    /\ whole /\ k < s.filesz => memory[s.vaddr + k] = Cell(Program, s.off + k)
  BY DEF LoadedImage, HeadersRead
<1>1. /\ Elf /\ addr + i < EEPROM_SIZE - 1 /\ i = Len(Program.phs)
      /\ \A m \in 1..i : Program.phs[m].load => InMemory(Program.phs[m])
  BY DEF LoadInv
<1>2. /\ TypeOK /\ RomInv /\ addr \in Nat /\ i \in Nat /\ DOMAIN rom = 0..(EEPROM_SIZE - 1)
      /\ EEPROM_SIZE \in Nat \ {0}
  BY Numbers DEF Inv, TypeOK
<1>3. Program \in Files
  <2>1. addr \in DOMAIN rom
    BY <1>1, <1>2
  <2> QED
    BY <1>1, <1>2, <2>1 DEF Elf, RomInv, Program
<1>4. Program.phs \in Seq(Segment)
  BY <1>3, StoreAssumption DEF Files
<1>5. PICK m \in DOMAIN Program.phs : s = Program.phs[m]
  BY DEF ToSet
<1>6. m \in 1..i
  BY <1>1, <1>4
<1>7. InMemory(s)
  BY <1>1, <1>5, <1>6
<1>8. memory[s.vaddr + k] = IF k < s.filesz THEN rom[addr + s.off + k] ELSE Zero
  BY <1>7 DEF InMemory
<1>9. ASSUME whole, k < s.filesz PROVE rom[addr + s.off + k] = Cell(Program, s.off + k)
  <2>1. InRom /\ \E c \in DOMAIN archive : addr = FileOf(archive, c)
    BY <1>9 DEF WholeInv, Listed
  <2>2. PICK c \in DOMAIN archive : addr = FileOf(archive, c)
    BY <2>1
  <2>3. /\ archive[c].size \in Nat
        /\ \A j \in 0..(archive[c].size - 1) : rom[addr + j] = Cell(archive[c], j)
    BY <1>2, <2>1, <2>2, MemberInRom
  <2>4. s.off \in Nat /\ s.filesz \in Nat /\ s.off + s.filesz <= Program.size
    <3>1. s \in Segment
      BY <1>4, <1>5
    <3> QED
      BY <3>1, SegmentFacts DEF Linked
  <2>5. archive[c].size # 0
    <3> SUFFICES ASSUME archive[c].size = 0 PROVE FALSE
      OBVIOUS
    <3>1. archive \in Archives \cup {<<>>}
      BY <1>2 DEF TypeOK
    <3>2. Len(archive) \in Nat /\ DOMAIN archive = 1..Len(archive) /\ BLOCK \in Nat \ {0}
      BY <3>1, Members, StoreAssumption
    <3>3. Blocks(0) = 0
      <4>1. BLOCK - 1 \in 0..(BLOCK - 1) /\ (0 + BLOCK) - 1 = 0 * BLOCK + (BLOCK - 1)
        BY <3>2
      <4>2. (0 * BLOCK + (BLOCK - 1)) \div BLOCK = 0
        BY <4>1, Quotient
      <4> QED
        BY <3>2, <4>1, <4>2 DEF Blocks
    <3>4. addr = HeaderOf(archive, c + 1)
      <4>1. HeaderOf(archive, c + 1) = HeaderOf(archive, c) + BLOCK + Blocks(0)
        BY <3>1, HeaderSteps
      <4>2. HeaderOf(archive, c) \in Nat
        BY <1>2, <2>1, MemberInRom
      <4> QED
        BY <2>2, <3>2, <3>3, <4>1, <4>2 DEF FileOf
    <3>5. rom[addr].is # "file"
      <4>1. CASE c + 1 \in DOMAIN archive
        <5>1. rom[addr] = Header(archive[c + 1])
          BY <1>2, <2>1, <3>4, <4>1, MemberInRom
        <5> QED
          BY <5>1 DEF Header
      <4>2. CASE c + 1 \notin DOMAIN archive
        <5>1. c + 1 = Len(archive) + 1
          BY <3>2, <4>2
        <5>2. rom[addr] = Zero
          BY <1>2, <2>1, <3>4, <5>1, EndInRom
        <5> QED
          BY <5>2 DEF Zero
      <4> QED
        BY <4>1, <4>2
    <3> QED
      BY <1>1, <3>5 DEF Elf
  <2>6. Program = archive[c]
    <3>1. 0 \in 0..(archive[c].size - 1) /\ addr + 0 = addr
      BY <1>2, <2>3, <2>5
    <3>2. rom[addr] = Cell(archive[c], 0)
      BY <2>3, <3>1
    <3> QED
      BY <3>2 DEF Program, Cell
  <2>7. s.off + k \in 0..(archive[c].size - 1) /\ addr + (s.off + k) = addr + s.off + k
    <3>1. k \in Nat /\ k < s.filesz /\ s.off + s.filesz <= archive[c].size
      BY <1>9, <2>4, <2>6
    <3>2. addr \in Nat /\ s.off \in Nat /\ archive[c].size \in Nat
      BY <1>2, <2>3, <2>4
    <3>3. \A x, o, l, n, j \in Nat : j < l /\ o + l <= n => /\ o + j \in 0..(n - 1)
                                                           /\ x + (o + j) = x + o + j
      OBVIOUS
    <3> QED
      BY <2>4, <3>1, <3>2, <3>3
  <2>8. rom[addr + (s.off + k)] = Cell(archive[c], s.off + k)
    BY <2>3, <2>7
  <2> QED
    BY <2>6, <2>7, <2>8
<1> QED
  BY <1>8, <1>9

\* What was listed of a whole archive is all of it that there is room for.
LEMMA AllListed ==
    ASSUME Inv, WholeInv
    PROVE  ListsArchive
<1> SUFFICES ASSUME pc = "listed", whole
             PROVE  LET n == IF Len(archive) < MAX_FILES THEN Len(archive) ELSE MAX_FILES
                    IN  buffer = [k \in 1..n |-> Entry(k)]
  BY DEF ListsArchive, Entry
<1> DEFINE n == IF Len(archive) < MAX_FILES THEN Len(archive) ELSE MAX_FILES
<1>1. /\ buffer \in Seq([rom_addr : 0..(U16 - 1), size : 0..(U16 - 1)])
      /\ Len(buffer) <= MAX_FILES /\ MAX_FILES \in Nat /\ archive \in Archives \cup {<<>>}
  BY Numbers DEF Inv, TypeOK, ScanInv
<1>2. /\ Len(buffer) <= Len(archive) /\ \A k \in DOMAIN buffer : buffer[k] = Entry(k)
      /\ Len(buffer) = MAX_FILES \/ Len(buffer) = Len(archive)
  BY DEF WholeInv, Listed
<1>3. Len(archive) \in Nat
  BY <1>1, Members
<1>4. Len(buffer) = n
  BY <1>1, <1>2, <1>3
<1> HIDE DEF n
<1>5. buffer = [k \in 1..n |-> buffer[k]] /\ DOMAIN buffer = 1..n
  BY <1>1, <1>4
<1>6. buffer = [k \in 1..n |-> Entry(k)]
  BY <1>2, <1>5
<1> QED
  BY <1>6 DEF n

\* The whole invariant holds throughout.
LEMMA Loading == Spec => [](Inv /\ WholeInv /\ LoadInv)
<1>1. Init => Inv /\ WholeInv /\ LoadInv
  <2>1. ASSUME Init PROVE InRom
    <3>1. archive = <<>> /\ rom = [a \in 0..(EEPROM_SIZE - 1) |-> Zero]
      BY <2>1 DEF Init
    <3>2. \A a : CellOf(<<>>, a) = Zero
      BY DEF CellOf
    <3> QED
      BY <3>1, <3>2 DEF InRom
  <2>2. Init => pc = "menu"
    BY DEF Init
  <2>3. Init => Inv
    BY InitInv
  <2> QED
    BY <2>1, <2>2, <2>3 DEF WholeInv, Listed, LoadInv
<1> QED
  BY <1>1, InvSteps, WholeSteps, LoadSteps, PTL DEF Spec

-----------------------------------------------------------------------------

\* rom_addr and addr stay 16 bits wide, and the table of program_selector is never
\* written past its end.
THEOREM StoreTypes == Spec => []TypeOK
<1>1. Inv => TypeOK
  BY DEF Inv
<1> QED
  BY <1>1, Invariance, PTL

\* ustar_list_files (ustar.c:53-88) only moves forward while every file that there is
\* a header of fits in the device, whatever archives are left over one another.
THEOREM ScansForward == Spec => []ListsInOrder
<1>1. Inv => ListsInOrder
  BY DEF Inv, ScanInv, ListsInOrder
<1> QED
  BY <1>1, Invariance, PTL

\* elf_load_file (elf.c:36-54) writes nowhere but in user memory, whatever the cells it
\* takes for program headers hold and wherever it is abandoned, unless the header has
\* p_filesz > p_memsz or its end goes round at 2^32: all that elf.c:41 lets pass.
THEOREM LoadsInUserMemory == Spec => []KernelMemoryKept
<1>1. Inv => KernelMemoryKept
  BY DEF Inv
<1> QED
  BY <1>1, Invariance, PTL

\* ustar_list_files (ustar.c:53-88) lists an archive that was stored as a whole as it
\* was packed, whatever its members' sizes, up to the places of the table.
THEOREM ArchiveListed == Spec => []ListsArchive
<1> QED
  BY Loading, AllListed, PTL

\* elf_load_file (elf.c:14-62) has every segment that can be read of a program with
\* proper headers in memory when it returns the entry, and zeros behind it.
THEOREM ProgramLoaded == Spec => []LoadedImage
<1> QED
  BY Loading, EntryLoaded, PTL
=============================================================================
