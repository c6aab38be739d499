--------------------------- MODULE MCProgramStore ---------------------------
(***************************************************************************)
(* ProgramStore with an EEPROM of eight blocks of four cells: archives     *)
(* that fit, that are too long, with empty members, with too many and with *)
(* one on which rom_addr wraps, and programs with zeroed memory, several   *)
(* segments, overlapping ones, one that ends outside user memory, one with *)
(* more in the file than in memory, and one that goes round the address    *)
(* space.                                                                  *)
(***************************************************************************)
EXTENDS ProgramStore

LoadAt(off, vaddr, filesz, memsz) ==
    [load |-> TRUE, off |-> off, vaddr |-> vaddr, filesz |-> filesz, memsz |-> memsz]
Note == [load |-> FALSE, off |-> 0, vaddr |-> 0, filesz |-> 1, memsz |-> 1]

Empty   == [size |-> 0, elf |-> FALSE, phs |-> <<>>]
Text    == [size |-> 5, elf |-> FALSE, phs |-> <<>>]
Small   == [size |-> 4, elf |-> TRUE, phs |-> <<LoadAt(2, 5, 2, 2)>>]
Bss     == [size |-> 6, elf |-> TRUE, phs |-> <<LoadAt(4, 5, 1, 3), Note, LoadAt(5, 2, 1, 1)>>]
Long    == [size |-> 14, elf |-> TRUE, phs |-> <<LoadAt(12, 6, 2, 2)>>]
Overlap == [size |-> 4, elf |-> TRUE, phs |-> <<LoadAt(3, 5, 1, 2), LoadAt(3, 6, 1, 1)>>]
Outside == [size |-> 5, elf |-> TRUE, phs |-> <<LoadAt(2, 6, 3, 3)>>]
Spill   == [size |-> 4, elf |-> TRUE, phs |-> <<LoadAt(1, 6, 3, 2)>>]
Round   == [size |-> 3, elf |-> TRUE, phs |-> <<LoadAt(2, 6, 1, U32 - 2)>>]

Wide    == [size |-> U16 - BLOCK, elf |-> FALSE, phs |-> <<>>]

MCArchives == {<<Small, Bss>>, <<Small, Overlap, Long>>,
               <<Empty, Empty, Empty, Small>>, <<Text, Outside>>, <<Text, Text, Bss>>,
               <<Small, Wide>>, <<Spill, Round>>}
MCGarbage == {Note, LoadAt(0, 4, 2, 2), LoadAt(1, 7, U16 + 2, 0)}
=============================================================================
