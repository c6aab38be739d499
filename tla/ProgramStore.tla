---------------------------- MODULE ProgramStore ----------------------------
(***************************************************************************)
(* From an archive in the EEPROM to a program in user memory:              *)
(* ustar_list_files (ustar.c), elf_load_file (elf.c), and the calls that   *)
(* program_selector (ui.c) and run_file (kernel.c) make to them.           *)
(*                                                                         *)
(* A place of the EEPROM or of memory holds a cell: the header of an       *)
(* archive member, a cell of a file, zeros, or what is the kernel's.  The  *)
(* cell 0 of a program is its ELF header, the next ones are its program    *)
(* headers.                                                                *)
(*                                                                         *)
(* Any of this can be abandoned by the jump of timers_handle_t3, and then  *)
(* a byte may be left behind that the next read hands over first           *)
(* (EepromStore says how).                                                 *)
(***************************************************************************)
EXTENDS Integers, SequencesExt

CONSTANTS
    EEPROM_SIZE,         \* the device, 32 KiB
    BLOCK,               \* USTAR_BLOCK_SIZE
    CHUNK,               \* what receive_and_store writes at a time
    U16,                 \* 2^16, the width of rom_addr and of EEPROM addresses
    U32,                 \* 2^32, the width of the fields of a program header
    MAX_FILES,           \* files that program_selector has room for
    USER_START, USER_END,  \* user memory: the data part, then the program part
    Archives,            \* the sequences of files that are put in the EEPROM
    Garbage,             \* what reads as a program header and is none
    MaxReceives          \* bound: archives received in a behaviour

Places == 0..(U32 - 1)
Segment == [load : BOOLEAN, off : Places, vaddr : Places, filesz : Places, memsz : Places]

(* A member has a size, says whether it is an ELF file, and has segments:  *)
(* of any kind, as nothing but elf_load_file looks at them.                *)
ASSUME StoreAssumption == /\ {EEPROM_SIZE, BLOCK, CHUNK, U16, U32, MAX_FILES} \subseteq Nat \ {0}
                          /\ BLOCK % CHUNK = 0 /\ EEPROM_SIZE % BLOCK = 0
                          /\ 2 * EEPROM_SIZE <= U16 /\ U16 % BLOCK = 0 /\ U16 <= U32
                          /\ {USER_START, USER_END, MaxReceives} \subseteq Nat /\ USER_END <= U32
                          /\ Garbage \subseteq Segment
                          /\ \A s \in Archives : s \in Seq(ToSet(s)) /\ \A f \in ToSet(s) :
                              f.size \in Nat /\ f.elf \in BOOLEAN /\ f.phs \in Seq(Segment)

Files == UNION {ToSet(s) : s \in Archives}

VARIABLES
    rom,       \* contents of the EEPROM
    archive,   \* history: the archive that was stored last
    whole,     \* history: all of it was
    pc,        \* where program_selector is
    rom_addr,  \* ustar_list_files: the address it reads next
    buffer,    \* the files listed: their addresses and sizes
    addr,      \* elf_load_file: its argument
    i,         \* elf_load_file: its loop counter
    ph,        \* elf_load_file: the program header it read
    memory,    \* user memory, and all the rest
    kept,      \* an abandoned read left a byte in I2C1RCV
    receives   \* archives received, for the bound

scan == <<rom_addr, buffer>>
load == <<addr, i, ph>>
vars == <<rom, archive, whole, pc, scan, load, memory, kept, receives>>

Zero == [is |-> "zero"]
Kernel == [is |-> "kernel"]
NoPh == [load |-> FALSE, off |-> 0, vaddr |-> 0, filesz |-> 0, memsz |-> 0]
IsUserspace(p) == p \in USER_START..(USER_END - 1)
Header(f) == [is |-> "ustar", size |-> f.size]
Cell(f, k) == [is |-> "file", file |-> f, at |-> k]

(* The archive's layout: each member has a block for its header, and its   *)
(* contents fill whole blocks; two blocks of zeros end it.                 *)
Blocks(n) == ((n + BLOCK - 1) \div BLOCK) * BLOCK
HeaderOf(s, k) ==
    LET at[n \in 1..(Len(s) + 1)] == IF n = 1 THEN 0 ELSE at[n - 1] + BLOCK + Blocks(s[n - 1].size)
    IN  at[k]
FileOf(s, k) == HeaderOf(s, k) + BLOCK
Extent(s) == HeaderOf(s, Len(s) + 1) + 2 * BLOCK

CellOf(s, a) ==
    IF \E k \in DOMAIN s : a = HeaderOf(s, k)
    THEN Header(s[CHOOSE k \in DOMAIN s : a = HeaderOf(s, k)])
    ELSE LET in == {k \in DOMAIN s : a \in FileOf(s, k)..(FileOf(s, k) + s[k].size - 1)}
         IN  IF in = {} THEN Zero
             ELSE LET k == CHOOSE k \in in : TRUE IN Cell(s[k], a - FileOf(s, k))

(* eeprom_read and eeprom_write refuse ranges that end above 0x7FFF.       *)
OutOfRange(a, n) == n + a > EEPROM_SIZE - 1

(* What receive_and_store left: an archive, or as many chunks of it as     *)
(* were stored before it was too long or the board was reset, over another.*)
Stored(s, n) == [a \in 0..(EEPROM_SIZE - 1) |-> IF a < n THEN CellOf(s, a) ELSE rom[a]]

Receive(s) ==
    /\ pc = "menu" /\ receives < MaxReceives
    /\ receives' = receives + 1
    /\ archive' = s
    /\ \/ ~OutOfRange(0, Extent(s)) /\ rom' = Stored(s, Extent(s)) /\ whole' = TRUE
       \/ \E n \in 0..Extent(s) : /\ n % CHUNK = 0 /\ ~OutOfRange(0, n)
                                  /\ rom' = Stored(s, n) /\ whole' = FALSE
    /\ UNCHANGED <<pc, scan, load, memory, kept>>

Init == /\ rom = [a \in 0..(EEPROM_SIZE - 1) |-> Zero]
        /\ archive = <<>> /\ whole = TRUE
        /\ pc = "menu" /\ rom_addr = 0 /\ buffer = <<>> /\ addr = 0 /\ i = 0 /\ ph = NoPh
        /\ memory = [p \in Places |-> IF IsUserspace(p) THEN Zero ELSE Kernel]
        /\ kept = FALSE /\ receives = 0

TypeOK == /\ DOMAIN rom = 0..(EEPROM_SIZE - 1) /\ DOMAIN memory = Places
          /\ archive \in Archives \cup {<<>>} /\ whole \in BOOLEAN
          /\ pc \in {"menu", "list", "listed", "ehdr", "phdr", "copy", "null", "entry", "wild"}
          /\ rom_addr \in 0..(U16 - 1) /\ addr \in 0..(U16 - 1)
          /\ Len(buffer) <= MAX_FILES /\ i \in Nat /\ ph \in Segment
          /\ kept \in BOOLEAN /\ receives \in 0..MaxReceives

Goto(from, to) == pc = from /\ pc' = to /\ UNCHANGED <<rom, archive, whole, receives>>

-----------------------------------------------------------------------------
(* ustar_list_files(0, ...)                                                *)

List == /\ Goto("menu", "list")
        /\ rom_addr' = 0 /\ buffer' = <<>>
        /\ UNCHANGED <<load, memory, kept>>

(* A byte left behind moves the header by one, and its magic is not there. *)
Reads == Len(buffer) < MAX_FILES /\ rom_addr < EEPROM_SIZE - BLOCK
More == Reads /\ ~kept /\ rom[rom_addr].is = "ustar"

NextBlockAlways(a) == (a + BLOCK) - (a % BLOCK)   \* mutant: even at the start of a block

NextBlock(a) == IF a % BLOCK # 0 THEN (a + BLOCK) - (a % BLOCK) ELSE a

ListOneStays ==   \* mutant: rom_addr is not moved past the header
    /\ Goto("list", "list") /\ More
    /\ buffer' = Append(buffer, [rom_addr |-> rom_addr, size |-> rom[rom_addr].size])
    /\ rom_addr' = NextBlock((rom_addr + rom[rom_addr].size) % U16) % U16
    /\ UNCHANGED <<load, memory, kept>>

ListOne == LET start == (rom_addr + BLOCK) % U16
               size  == rom[rom_addr].size
           IN  /\ Goto("list", "list") /\ More
               /\ buffer' = Append(buffer, [rom_addr |-> start, size |-> size % U16])
               /\ rom_addr' = NextBlock((start + size) % U16) % U16
               /\ UNCHANGED <<load, memory, kept>>

ListEnd == /\ Goto("list", IF buffer = <<>> THEN "menu" ELSE "listed")
           /\ ~More
           /\ kept' = (kept /\ ~Reads)
           /\ UNCHANGED <<scan, load, memory>>

-----------------------------------------------------------------------------
(* elf_load_file                                                           *)

Select == /\ Goto("listed", "ehdr")
          /\ \E k \in DOMAIN buffer : addr' = buffer[k].rom_addr
          /\ UNCHANGED <<scan, i, ph, memory, kept>>

Elf == /\ ~OutOfRange(addr, 1) /\ ~kept
       /\ rom[addr].is = "file" /\ rom[addr].at = 0 /\ rom[addr].file.elf

Ehdr == /\ Goto("ehdr", IF Elf THEN "phdr" ELSE "null")
        /\ i' = 0 /\ kept' = (kept /\ OutOfRange(addr, 1))
        /\ UNCHANGED <<scan, addr, ph, memory>>

Program == rom[addr].file
Phdr == (addr + 1 + i) % U16

(* Nothing tells a program header from any other cell.                     *)
SegmentsAt(a) ==
    IF rom[a].is = "file" /\ rom[a].at \in DOMAIN rom[a].file.phs
    THEN {rom[a].file.phs[rom[a].at]}
    ELSE Garbage

InUserspaceAtStart(s) == IsUserspace(s.vaddr)   \* mutant: the end is not looked at
InUserspace(s) == IsUserspace(s.vaddr) /\ IsUserspace((s.vaddr + s.memsz - 1) % U32)

ReadPhdr ==
    /\ pc = "phdr" /\ i < Len(Program.phs) /\ ~OutOfRange(Phdr, 1)
    /\ ph' \in SegmentsAt(Phdr)
    /\ \/ ~ph'.load /\ Goto("phdr", "phdr") /\ i' = i + 1
       \/ ph'.load /\ ~InUserspace(ph') /\ Goto("phdr", "null") /\ i' = i
       \/ ph'.load /\ InUserspace(ph') /\ Goto("phdr", "copy") /\ i' = i
    /\ UNCHANGED <<scan, addr, memory, kept>>

PhdrRefused == /\ Goto("phdr", "null")
               /\ i < Len(Program.phs) /\ OutOfRange(Phdr, 1)
               /\ UNCHANGED <<scan, load, memory, kept>>

(* Memory after n cells of ph: those of the file, as far as eeprom_read,   *)
(* which takes 16 bits of address and length, does not refuse to read      *)
(* them, then zeros.  Addresses go round at 2^32.                          *)
CopyWithoutZeros(n) ==   \* mutant: no memset
    [p \in Places |->
        LET k    == (p - ph.vaddr) % U32
            from == (addr + ph.off) % U16
            size == ph.filesz % U16
        IN  IF k < n /\ k < size /\ ~OutOfRange(from, size) THEN rom[from + k] ELSE memory[p]]

Copy(n) ==
    [p \in Places |->
        LET k    == (p - ph.vaddr) % U32
            from == (addr + ph.off) % U16
            size == ph.filesz % U16
        IN  IF k < n /\ k < size /\ ~OutOfRange(from, size) THEN rom[from + k]
            ELSE IF k < n /\ k \in ph.filesz..(ph.memsz - 1) THEN Zero ELSE memory[p]]

KernelIs(m) == \A p \in Places : ~IsUserspace(p) => m[p] = Kernel

(* The result of eeprom_read is not looked at.  When memory that is not    *)
(* the program's was overwritten, there is no telling what runs.           *)
CopySegment == /\ pc = "copy" /\ memory' = Copy(U32)
               /\ Goto("copy", IF KernelIs(memory') THEN "phdr" ELSE "wild")
               /\ i' = i + 1
               /\ UNCHANGED <<scan, addr, ph, kept>>

LoadEnd == /\ Goto("phdr", "entry")
           /\ i = Len(Program.phs)
           /\ UNCHANGED <<scan, load, memory, kept>>

-----------------------------------------------------------------------------
(* Back to the main menu                                                   *)

NoLocals == rom_addr' = 0 /\ buffer' = <<>> /\ addr' = 0 /\ i' = 0 /\ ph' = NoPh

(* The program ran, or there was none, or the menu was left.               *)
Leave == /\ pc \in {"listed", "null", "entry"} /\ Goto(pc, "menu")
         /\ NoLocals
         /\ UNCHANGED <<memory, kept>>

(* At any point of a copy.                                                 *)
Partly == IF pc = "copy" THEN {Copy(n) : n \in Places} ELSE {memory}

(* The jump of timers_handle_t3.  In the menu, other calls read the EEPROM:*)
(* they too leave a byte, or take it.                                      *)
Abandon == /\ pc # "wild" /\ memory' \in Partly
           /\ \/ KernelIs(memory') /\ Goto(pc, "menu") /\ NoLocals
              \/ ~KernelIs(memory') /\ Goto(pc, "wild") /\ UNCHANGED <<scan, load>>
           /\ IF pc \in {"listed", "null", "entry"} THEN UNCHANGED kept ELSE kept' \in BOOLEAN

(* The kernel's memory is set up again, the program's is not.              *)
Boot(m) == [p \in Places |-> IF IsUserspace(p) THEN m[p] ELSE Kernel]
Reset == /\ Goto(pc, "menu") /\ NoLocals
         /\ \E m \in Partly : memory' = Boot(m)
         /\ kept' = FALSE

Next == \/ List \/ ListOne \/ ListEnd
        \/ Select \/ Ehdr \/ ReadPhdr \/ PhdrRefused \/ CopySegment \/ LoadEnd
        \/ Leave \/ Abandon \/ Reset
        \/ \E s \in Archives : Receive(s)

Spec == Init /\ [][Next]_vars

-----------------------------------------------------------------------------
(* An archive that is there as a whole is listed as it was packed: every   *)
(* member, empty ones too, in its place, up to MAX_FILES of them.          *)
ListsArchive ==
    pc = "listed" /\ whole =>
        buffer = [k \in 1..(IF Len(archive) < MAX_FILES THEN Len(archive) ELSE MAX_FILES) |->
                     [rom_addr |-> FileOf(archive, k), size |-> archive[k].size]]

(* Whatever was cut short over whatever else, the scan only moves forward, *)
(* unless there is the header of a file that is longer than the device: an *)
(* archive that was refused for its length leaves one (savefile.c:17), and *)
(* rom_addr, which is a u16, wraps on it.                                  *)
ListsInOrder ==
    (\A a \in DOMAIN rom : rom[a].is = "ustar" => rom[a].size <= EEPROM_SIZE - BLOCK) =>
        \A j, k \in DOMAIN buffer : j < k => buffer[j].rom_addr < buffer[k].rom_addr

(* A program as linkers make it: its segments are in the file and end     *)
(* before the last address, and those to load are apart in memory.         *)
Sound(s) == s.filesz <= s.memsz /\ s.vaddr + s.memsz <= U32
Apart(s, t) == s.vaddr + s.memsz <= t.vaddr \/ t.vaddr + t.memsz <= s.vaddr
Linked(f) ==
    /\ \A s \in ToSet(f.phs) : s.off + s.filesz <= f.size /\ Sound(s)
    /\ \A j, k \in DOMAIN f.phs :
          j # k /\ f.phs[j].load /\ f.phs[k].load => Apart(f.phs[j], f.phs[k])

(* elf.c:14, "Load an elf file from the eeprom into its memory": when the  *)
(* entry of a file with proper headers is returned, its segments are in    *)
(* memory, whatever archive the EEPROM's cells are left from, and there    *)
(* are zeros where an earlier program, or one whose loading was abandoned, *)
(* had left its own.  Only a segment that ends above 0x7FFF is not there:  *)
(* that eeprom_read refuses it is not looked at.  The cells are the        *)
(* program's own if its archive is whole.                                  *)
LoadedImage ==
    /\ pc = "entry" /\ Linked(Program)
    /\ \A j \in DOMAIN Program.phs : rom[addr + j] = Cell(Program, j)
    =>
        \A s \in ToSet(Program.phs) :
            s.load /\ ~OutOfRange(addr + s.off, s.filesz) =>
                \A k \in 0..(s.memsz - 1) :
                    /\ memory[s.vaddr + k] = IF k < s.filesz THEN rom[addr + s.off + k] ELSE Zero
                    /\ whole /\ k < s.filesz => memory[s.vaddr + k] = Cell(Program, s.off + k)

(* elf.c:41 keeps the load of a program out of the memory that is not the  *)
(* program's, whatever the cells read as headers are and wherever the load *)
(* is abandoned, but for two kinds of header that it lets pass: one with   *)
(* more cells in the file than in memory, as only p_memsz is looked at,    *)
(* and one whose end goes round at 2^32.                                   *)
KernelMemoryKept == KernelIs(memory) \/ (pc = "wild" /\ ~Sound(ph))
=============================================================================
