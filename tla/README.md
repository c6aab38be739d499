# ITKernel: TLA+ verification project

ITKernel is a small kernel for the Digilent uC32 with the basic I/O shield (PIC32MX, one MIPS
core). It boots, shows a menu on the shield's display, receives an archive of programs over
the serial line, stores it in the shield's EEPROM, lists it, loads one of its ELF programs into
user memory and runs it in user mode under a timeout. This directory models that path from
the first instruction to the exit of a user program, checks it with TLC, and proves its
safety with TLAPS (section 4 says how, and names the liveness that is left to TLC).

All paths below are relative to `src/kernel/src` unless they start with `programs/`.

## 1. Inventory

| Part | State it keeps | Operations | Talks to | What makes it correct |
|---|---|---|---|---|
| boot (`boot.S`, `startup.c`) | interrupt registers, peripherals' registers | `main`, `startup`, `setup_*` | timers, UART, I2C, display, kmain | reaches the menu although interrupts are on half way |
| traps (`irq.S`, `interrupts.c`) | Status.EXL/IE, IFS0, IEC0, IPC; the frame on the interrupted stack | landing pads, `_syscall`, `interrupt_handler`, `exception_handler`, `syscall_handler` | timers, system calls, whatever it interrupts | every flag served; a handler resumes or jumps to a live frame; the interrupted code does not notice |
| kernel context (`kernel.c`, `kernel.S`, `usermode.S`) | `kernel_ctx` (registers, EPC, data) | `setjmp`, `eret_longjmp`, `get_retval`, `kmain`, `run_file`, `usermode_jump` | traps, loader, menu | a program is left into the `run_file` that started it, with its own status; user mode only in user code |
| timers (`timers.c`) | timer 4 (1 ms tick), timer 2/3 (sleeps and the user timeout), `global_ms_count` | `timers_setup`, `shortsleep`, `timers_setup_user_timeout`, `timers_handle_t3/t4` | traps, EEPROM driver | no flag of one use taken for the other; a looping program is stopped |
| system calls (`syscalls.c`) | none of their own | `sys_exit`; `sys_screen_print`, `sys_screen_clear`, `getbtns`, `getsws`, `serial_write` | kernel context, display, UART | `exit` reaches `run_file`; a line shows its last print; callers get their registers back |
| serial output (`serial_io.c`) | none | `serial_printf` (di ... ei) | UART | its unconditional `ei` |
| UART (`uart.c`) | receive queue of 4 bytes, OERR; an unused ring | `uart_setup`, `uart_direct_read_n`, `uart_write_n` | host | no byte invented; an old overrun does not block a new load |
| file reception (`savefile.c`, `test_savefile` in `tests.c`, `programs/utils/pysend.py`, `sendplain.sh`) | size, remaining, address | `receive_and_store`, read-back | UART, EEPROM driver, host | what is reported is what is stored |
| I2C master (`i2c.c`) | the bits of I2C1CON, I2C1STAT, the master's interrupt flag | `i2c_start`, `restart`, `stop`, `send`, `receive` | the wires | one thing at a time; a call returns when its own is over |
| EEPROM driver (`eeprom.c`) | `last_write_time`; the device's page latch, address counter, write cycle | `eeprom_read`, `eeprom_write` | I2C master, device, `get_time` | an array of bytes, across pages, busy periods and resets |
| archive scan (`ustar.c`) | scan address, table of files | `ustar_list_files` | EEPROM driver | the members that were packed, in order |
| ELF loader (`elf.c`) | program header index | `elf_load_file` | EEPROM driver, user memory | the image complete, the kernel's memory untouched but by headers no linker makes |
| menus (`menu.c`, `ui.c`) | list, length, selection, `has_changed` | `display_menu`, `render_menu`, `help_menu`, `main_menu`, `program_selector` | buttons, display, everything above | what is shown is what is selected; one act per press |
| display (`display.c`) | `displaybuffer`; SPI2BUF, RBF, the D/C pin; the panel's memory, page, column | `display_addstring`, `display_clear/white`, row drawing, `display_update` | SPI, panel | writes within the buffer; commands taken as commands; the panel shows the buffer |
| screensaver, animation (`screensaver.c`, `animation.c`) | position and speed of a text; row of a wipe | a frame per sleep | display, sleeps | the text stays on the display; the wipe leaves the name |
| host tools, self tests, `gpio.c`, `delay.c` | none of their own | | | not modelled, see section 5 |

What is hard here: a single core, but interrupts that arrive between any two instructions and
handlers that leave by a jump; one timer shared by sleeps and timeouts; one saved context shared
by `kmain` and `run_file`; a serial protocol without acknowledge or time-out; a device that goes
on with its write cycle while the board is reset; a panel that is told commands from data by a pin
and keeps half a command when an update is abandoned; u8/u16/u32 arithmetic on addresses and times;
and menus driven by the level of buttons. `PROJECT.json` lists these hazards line by line with
the properties that cover them.

## 2. Modules

| Module | Models | Composed with |
|---|---|---|
| `KernelControl` | boot, traps, timers, context, life of a user program | - |
| `TrapFrame` | registers and stack across a trap: what `irq.S` saves, what C handlers may change | - |
| `I2cBus` | what the five calls of `i2c.c` promise: the wires, one thing at a time | - |
| `I2cMaster` | those calls on the registers of the I2C module | implements `I2cBus` (`Bus`) through a refinement mapping |
| `EepromStore` | what `eeprom_read`/`eeprom_write` promise: an abstract byte array | - |
| `Eeprom` | the driver call by call, the device, the clock | implements `EepromStore` (`Store`); its steps are the calls of `I2cBus` |
| `SaveFile` | host, serial queue, `receive_and_store`, read-back | extends `EepromStore`: the EEPROM is its abstract specification |
| `ProgramStore` | archive in EEPROM -> list -> image in user memory | starts from what `SaveFile` can leave |
| `Menu` | buttons, menus, what the display shows | - |
| `Screen` | `displaybuffer`: prints and clears, screensaver, animation | its panel is refreshed at once |
| `Panel` | `display_update` byte by byte over SPI, the panel | takes any buffer |

`MC<module>.tla` gives the constants small values for TLC; each `.cfg` is a run;
`<module>_proofs.tla` holds the theorems (those of `KernelControl` and `TrapFrame` are in
`Kernel_proofs`; the definitions of `TrapFrame` have names of their own so that one module can extend both). A definition commented "mutant" is the wrong version of
its neighbour that `PROJECT.json` names for a property.

### KernelControl

`pc` is the place of whatever runs outside of a trap handler (boot step, menu, sleep step,
`run_file` step, user code); `trap` is the step of the handler, "none" when EXL is clear.
`ie`, `um`, `ifs`, `iec`, `ipc` are the CPU's and the interrupt controller's bits for the five
interrupts that the code touches. `T4Tick`, `T3Fire` and `ByteReceived` raise flags at any
moment; `EnterInterrupt` is taken before the next instruction whenever an enabled flag is set.
`HandleRx`, `HandleT4`, `NoT3`/`HandleT3` are the three tests of `interrupt_handler`, in its
order. `HandleT3` and `SyscallExit` end in `EretLongjmp`, which resumes after the `setjmp` that
filled `ctx`: `kmain`'s, `run_file`'s, or, for a context that is half stored ("torn"), anywhere
("wild"). `dead` records that the frame resumed belongs to a `run_file` that has returned. Details
kept because they matter: `serial_printf`'s unconditional `ei` (interrupts come on in the first
print of `timers_setup`); `IECSET(0) = PIC32_IRQ_T3`, which enables bits 2 and 3 and leaves T3
disabled, so that a timeout is only found by the handler of timer 4; the missing `IFSCLR` after
`timers_handle_t3`; the mask of `get_retval`.

### TrapFrame

The registers by name, the stack as words numbered downwards from the program's entry. `Interrupted`
is `isr_trampoline`/`_gen_exception` with `_trap_landing_pad`, `Syscall` the entry of `_syscall`,
`Return` `_continue` and the end of `_syscall`. `HandlerRuns` is any C handler that keeps to the o32
convention: it may overwrite caller-saved registers, and a build without optimisation (`noopt`) stores its
parameters to the home slots of its caller's frame. Three details of the code are visible here: the pad
saves `v0` and `v1` in home slots of the handler (`irq.S:126`), which is harmless since the two handlers have one
parameter; HI and LO are not saved, which is harmless for an interrupt that returns, since nothing in it multiplies or divides,
but not for an exception that prints; `_syscall` keeps `ra` in the home slot of `syscall_handler`'s third
parameter (`irq.S:53-54`), which a build with `NOOPT=1` overwrites: `SyscallTransparent` leaves `ra` out of that build.

### I2cBus and I2cMaster

`I2cBus` says what a call is: one start, stop, byte or answer on the wires, begun when the wires are
idle, returned from when it is over. `I2cMaster` has one action per access to a register:
`WaitUntilReady` (`_wait_until_ready`), `Clear`, `Begin`, `Event`/`Finish` (`_wait_and_clear_if`), and the four
of `i2c_receive`. The module is external: it finishes what it is told (`ConditionDone`, `ByteShifted`,
`ByteSent`, `ByteReceived`) and raises its single flag. `Abandon` is a jump out of a call, `Setup` a reset. The
refinement maps the bits that are set to what the wires do (`WireOf`), and the place in a call to a phase.
A byte received for an abandoned call stays in `I2C1RCV` and is returned by a later `i2c_receive`
that touches no wire (`kept`): the code could not tell, and the abstract specification says so.

### EepromStore and Eeprom

`EepromStore` is an array: a call out of range is refused and changes nothing, a write stores
its bytes in order, a read returns what is stored, and a call may be abandoned anywhere, by a reset or by the jump of
`timers_handle_t3`. Such a jump out of a read can leave a received byte in `I2C1RCV`, and `i2c_receive`
hands that byte to its next caller and leaves the wires alone (`i2c.c:101-103`): the next read returns the
byte that was left (`kept`) and then what is stored, shifted by one (`ReadAfter`). That is what the code does, so it is what
`Store` promises.
`Eeprom` has one action per i2c call of the driver (`Start`, `Control`, `Address`, `Data`,
`Stop`, `Restart`, `Receive`, ...) and the device as an actor: page latch, address counter that
wraps within the page, write cycle during which nothing is acknowledged (`busy`), which ends
at any moment (`CycleDone`) and survives a `Reset` of the board. `Receive` has both branches of `i2c_receive`,
and `Abandon` is the jump, at any of the calls, with the byte under way received or not (`rcv`). `present` says whether there is a device at
all; without one, both functions poll for ever and report nothing. The variables of the abstract
module are history and memory in the concrete one, so the refinement mapping is the identity on
`mem`, `call`, `stored`, `result`, `kept` and the property is `Store` itself.

The wait of `eeprom.c:20`, `get_time() < last_write_time + 6`, is on absolute u32 times. `since` counts the time
since the last write; `WaitIsForTheCycle` says that the wait is over after 6 ms *unless the clock wraps*
between the write and its deadline. There the wait ends at once, which the acknowledge
polling makes up for, or, when the sum wraps and the clock has not, lasts until the clock does, for up to 49 days. `CallReturns` allows for it.

### SaveFile

The host starts a sender when it likes (`Send`), its bytes arrive one at a time (`ByteArrives`)
and are lost when the queue is full or OERR is set. The line does not pause between chunks: the 30 ms that `pysend.py`
sleeps are counted from the write to the serial driver, and 64 bytes take 33 ms at 19200 baud; `sendplain.sh` does not even
sleep. So bytes may arrive, and overrun the queue, while a chunk is stored. `Check`/`Poll` are the two tests in the loop
of `uart_direct_read_n`; `SizeRead`, `StoreChunk`, `Stored`, `Return` are `receive_and_store`;
`ReadBack`/`BackChunk` the read-back of `test_savefile`, with the comparison of a signed size
with an unsigned one as the compiler does it. A failed load has the size -1, which is read back
as 2^32 - 1 bytes, around and around the device; the model does so too (the state space contains
it), and `ReadBackFaithful` says nothing of it. The size is sent as its bytes (`Bytes`, `Power`)
and read back from them (`Number`, `Signed`), as an isize is. A negative size received from the line overruns the stack
(`NegativeSize`); nothing after that is modelled.

`Abandon` is the jump of `timers_handle_t3`, which ends a load or a read-back, and `Reset` the reset of the board; the host goes on
sending through both, into whatever reads next. A read-back that follows an abandoned one returns the byte left in
`I2C1RCV` first and is off by one (`ReadPiece`, `EepromStore`'s `ReadAfter`): `ReadBackFaithful` speaks of a
read-back before which nothing was left and which nothing ended (`clean`).

### ProgramStore

A place of the EEPROM or of memory holds a cell: the header of an archive member, a cell of a file, zeros, or
what is the kernel's; the cells of a program are its ELF header, its program headers, then contents. `Receive` leaves
what `receive_and_store` can leave: a whole archive, or its first chunks over an older one (too
long, or the board was reset). `ListOne`/`ListEnd` are the scan with its u16 arithmetic. `Ehdr`, `ReadPhdr`,
`CopySegment`, `PhdrRefused`, `LoadEnd` are the loader with its early returns. The fields of a program header are any u32,
the address and the length of the read that copies a segment are cut to 16 bits (`elf.c:50`), `p_vaddr + p_memsz - 1` goes round at 2^32
(`elf.c:41`), and a cell that is no program header reads as one of `Garbage`. Memory is the whole address space; the
user's part of it is one range: the data part and the program part of `usermode.h` are adjacent. `Abandon` is
the jump of `timers_handle_t3` and `Reset` the reset of the board, at any step and after any number of cells of a copy. Either leaves part of
a segment behind, and the jump may leave a byte in `I2C1RCV` (`kept`), after which the next header that is read is
not recognised.

Nothing checks a program header but `elf.c:41`, and it looks at the ends in memory only. It lets two kinds of header pass that
overwrite the kernel's memory: one with `p_filesz > p_memsz`, since `p_filesz` bytes are read, and one whose end goes
round at 2^32 into user memory again. No linker makes either. The run has one of each in an archive (`Spill`, `Round`), and
another among what garbage reads as; once the kernel's memory is overwritten the model stops (`wild`).
`KernelMemoryKept` says that these two are the only ones (`Sound`), wherever a load is abandoned and whatever is loaded.

Three more things are left out of the properties. The result of the read that copies a
segment is not looked at (`elf.c:50`): a program whose segment lies at the device's end is started without it
(`LoadedImage` speaks of segments whose read is not refused). Program headers that overlap in memory, or reach past
their file, are loaded one over the other, or with what lies behind the file; linkers make none (`Linked`; the
run has such a program, `Overlap`). A file's size is cut to 16 bits and `rom_addr` wraps: when an archive is
refused for its length, the header of its oversized member is already stored, and the scan goes back on
it (`ListsInOrder` speaks of EEPROMs without such a header).

### Menu

Four buttons, pressed and released at any moment. `Getbtns` takes the snapshot `btn`, whose bits are
then handled in the code's order, each (but EXIT) after waiting for its button's release,
during which the other buttons may change. `Render` shows the window of `render_menu`; nested menus,
the help screen and the result screen poll the same buttons one after the other. `sizeof(menuItems)` is
24 on this CPU, for six items (`ui.c:23`): the main menu can be moved down to rows that are
drawn from what follows the array. `ScreenShowsSelection` speaks of rows of the array's own until that has happened.

### Screen

`displaybuffer` is the set of lit pixels, a pixel a byte and a bit of it. `AddString` is
`display_addstring` with its cut, its clearing of bytes and its two branches; `Printed` is `sys_screen_print`, which blanks the
line first. `want` records what each line should show. A text that is longer than a line is drawn,
cut, but -1 comes back and the panel is not refreshed (`syscalls.c:34`; `programs/progs/fib.c:11` prints such a
text): `PanelLags` says that nothing else makes the panel differ. `ScreensaverFrame` and `IntroFrame` are the loop bodies. The
animation's last frame draws a row behind the last one; `draw_horizontal_line` refuses it (`RowThere`), and `past` would show it if it did not. The
screensaver turns its text round one column too late (`screensaver.c:20`): its last column falls into the next page and, on the
last page, into the byte behind the buffer. `OneBytePast` says that this one is the only one.

### Panel

`DisplayUpdate` fills the buffer with any picture and starts; `Select` moves the pin, `Put` and `Get` are the two
halves of `spi_send_recv`. The SPI module (`Load`, `Shifted`) shifts on its own; the panel takes each
byte as the pin says when its shift ends, knows the page command and its operand, the two
column commands, and counts columns. The menus run with interrupts enabled, and KernelControl shows that the handler of a late
timer 3 flag may leave them by a jump: `Abandoned`, at any step. Two consequences are real and
left out of the properties: an abandoned `Get` leaves RBF set, and every later send returns one byte early
(`skewed`), so that a byte meant as data may be taken as a command and vice versa; an update abandoned between the page command
and its page makes the next one paint its first page elsewhere (`dirty`), which the one after it repairs. The panel's memory starts as any
picture: `display_init` switches the panel on before anything is written to it, though a comment in `display_init` has a step "4. Clear screen".

## 3. Runs

| Run | Module | Properties | Distinct states |
|---|---|---|---|
| kernel | KernelControl | ModeIntegrity, Preemptible, StatusShown, UserLeavesToRunFile, KilledOnlyAfterTimeout, ExitReported, SleepWaits, JumpsNeedContext, UserStops, TicksServed, BootCompletes | 13 thousand |
| trapframe | TrapFrame | TrapsTransparent, SyscallTransparent | 12 thousand |
| i2c | I2cMaster | OneAtATime, Bus (refinement), CallsReturn | 7 thousand |
| eeprom | Eeprom | BytesLand, WaitIsForTheCycle, Store (refinement), CallReturns, MissingNotReported | 840 thousand |
| savefile | SaveFile | TypeOK, LoadedFile, LossNotReported, ReadBackFaithful, LoadEnds | 693 thousand |
| store | ProgramStore | ListsArchive, ListsInOrder, LoadedImage, KernelMemoryKept | 219 thousand |
| menu | Menu | ScreenShowsSelection, OncePerPress, RunsWhatIsShown, ReadsAgain | 35 thousand |
| screen | Screen | LinesHoldPrints, PanelLags, OneBytePast, WipesAroundName | 48 thousand |
| panel | Panel | ShiftedInMode, PanelShowsBuffer | 114 thousand |

The type invariants of all modules are proved (section 4). SaveFile's is run, too: it holds the address and the
sizes within their widths.

Three runs show that the code does not do what its comments say; each has an entry under
`findings` in `PROJECT.json`:

| Run | Property violated | What happens |
|---|---|---|
| kernel_timeout | TimeoutReturns | `timers_handle_t3` never returns, so T3's flag is never cleared: after a timeout every tick jumps back to the return of `run_file` |
| kernel_sleep | SleepNotAbandoned | a tick between the end of a sleep and the clearing of T3 takes the sleep for a user timeout and jumps away |
| kernel_stale | ResumesLiveFrame | the context and the running timer of a program that has exited resume a `run_file` that has returned |

Other places where the code falls short of what a reader would expect have no run of their own;
they are exceptions written into a property, named with their lines in section 2 and in the hazards of `PROJECT.json`: the wait
across the wrap of the clock (`eeprom.c:20`), a refused segment (`elf.c:50`), the wrap of `rom_addr` (`ustar.c:83`), the length of the
main menu (`ui.c:23`), the late turn of the screensaver, texts that do not fit, abandoned updates of the panel, the byte of an
abandoned `i2c_receive`, `ra` in an unoptimised `_syscall`, HI and LO across an exception, program headers that `elf.c:41` lets pass, and the read-back of a failed load.

### What the properties say

- *KernelControl.* User mode exactly in user code; a running program can always be preempted;
  the status shown is the program's own or that of a timeout that elapsed; a program is left only
  into its own `run_file`; no stale flag kills a program or ends a sleep; every program that ran is
  reported; no jump through an empty context. Liveness: a looping program stops, ticks are served, boot ends.
- *TrapFrame.* An interrupt is invisible to what it interrupts; an exception that is gone on after changes HI and LO at
  most; a system call returns to its caller with the callee-saved registers and the caller's stack.
- *I2cMaster.* A call starts something only when the module does nothing else; every call does
  its own thing once, whatever was abandoned before it; every call returns, answered or not.
- *Eeprom.* Every data byte reaches a device that takes it for the address the driver means; the
  driver implements the array, however often it is abandoned; a wait is over when its time is; every call returns if there is a device; nothing is reported without one.
- *SaveFile.* A load that starts with an empty queue and one sender reports exactly what was stored
  or -1; a lost byte is never made up; the read-back is what the EEPROM holds; a load ends
  even if an earlier one left OERR set, unless it loses a byte after the size.
- *ProgramStore.* A whole archive is listed as packed, empty members and full tables included; the
  scan of any mixture of old and new archives moves forward; a loaded image is complete and zeroed
  where an earlier program or an abandoned load left its own; nothing outside of user memory is written but by two kinds of header.
- *Menu.* No move is left undrawn; one act per press across nested menus; what runs is what was shown;
  when all buttons stay released no wait for a release remains.
- *Screen.* A line shows its last print and nothing older; the panel lags only behind texts that did not fit; one byte at most is
  written past the buffer; the wipe leaves the name and nothing else.
- *Panel.* A byte is taken in the mode it was meant for; an update that returns has brought the whole buffer to the panel.

### Bounds, and why they are enough

- KernelControl: `U16 = 4`, `U32 = 16`, `MsMod = 2`; statuses 1, 5, 14, 15: two with the same low half,
  the timeout's -2 and the -1 of a failed load. All other state is finite in the code, too.
- TrapFrame: the program pushes at most one word (`Depth = 1`), so traps come with two stack pointers; a handler
  overwrites `v0`, `ra`, or everything it may; all registers differ at the start.
- I2cMaster: bytes of two values; calls, resets and jumps are unbounded.
- Eeprom: two pages of four bytes, writes of 0, 1 and 5 bytes at addresses 0 and 3 (within a page,
  across the boundary, refused at the end), reads of 0 and 5, two calls per behaviour (`MaxCalls`), so that a read follows
  an abandoned one: the state one call leaves for the next is the device's, `last_write_time` and the kept byte. `MsMod = 5` and
  `WaitMs = 2` let the clock wrap in both operands of the comparison. A device is there or not, for a whole behaviour.
- SaveFile: EEPROM of three chunks of two bytes, bytes of base 5, sizes of two bytes, a queue of
  two, a read buffer of three; files that end within a chunk, at the end of one, and one that is too
  long and leaves a size of zero and an overrun to the next load. `MaxSends = 2` files per
  behaviour; loads, read-backs, resets and jumps are unbounded.
- ProgramStore: EEPROM of eight blocks of four cells, a table of three files, EEPROM addresses of 6 bits and memory
  of 72 cells (`U32`, so that a range wraps at one of the two sizes and not at the other), six of them the user's; archives that fit,
  are too long, have empty members, more members than the table, a program outside user
  memory, one whose program headers lie at the device's end, one with a member on which `rom_addr`
  wraps, and one with the two kinds of header that are let pass. `Garbage` has a header that is skipped, one that is
  sound, and one whose file part is longer than 16 bits. `MaxReceives = 2`: an archive over another.
- Menu: two lines and six items (so both menus scroll), a pointer size of 2 (so the main menu's length
  is 12), up to three files; nothing else is bounded.
- Screen: three pages of four columns, characters of two by two pixels; texts shorter than a line, as long, and longer. The
  screensaver's text crosses both edges, the wipe passes the name.
- Panel: two pages of four columns, of which the low column command reaches two; two pictures
  without a byte in common; `MaxAbandoned = 2` updates abandoned per behaviour, so that one follows the other.

The proofs lift these bounds from all safety properties: section 4 holds for any size of EEPROM, display, queue, file,
table or program, and for any number of steps.

### Fairness

- KernelControl (`FairSpec`): the timers raise their flags, the CPU takes interrupts, handlers run to
  their end (weak), and interrupted code makes progress (strong: a step of `pc` is
  enabled between ticks, again and again). `TicksPaced` says why: a handler that does not print takes
  microseconds of the 1 ms between ticks, so no tick falls into it; one that prints (a system call or
  exception that prints, `timers_handle_t3` through `sys_exit`) takes over 10 ms at 19200 baud and may be hit.
  The liveness properties suppose that ticks keep that distance from some point on (`Paced`).
  Nothing is assumed of the buttons or of user code.
- I2cMaster: the module does what it was told (the wires are the master's alone), and the code runs (weak).
- Eeprom: the driver runs, the device ends its write cycles (data sheet: 5 ms), ticks arrive (weak).
- SaveFile: the board runs, and a host that has started sends the rest (weak). Nothing is assumed of the pace of the line: a load that lost a
  byte of a chunk waits for ever (`uart_direct_read_n` has no time-out), and `LoadEnds` allows it.
- Menu: the code runs (weak fairness of `Program` as a whole). `ReadsAgain` claims nothing of what the
  menu calls.

## 4. Proofs

For every value of the constants that satisfies the modules' `ASSUME`s:

| Module | Theorem | Property |
|---|---|---|
| Kernel_proofs | Invariance | the inductive invariant `IInv` of KernelControl |
| | TypeCorrect, ModeCorrect, PreemptionArmed, StatusCorrect | TypeOK, ModeIntegrity, Preemptible, StatusShown |
| | ReturnsToRunFile, NoEarlyKill, StatusReported, SleepsLast, ContextSaved | UserLeavesToRunFile, KilledOnlyAfterTimeout, ExitReported, SleepWaits, JumpsNeedContext |
| | TrapInvariance, TrapTypes | the inductive invariant `FrameInv` of TrapFrame, FrameTypeOK |
| | TrapsInvisible, SyscallsReturn | TrapsTransparent, SyscallTransparent |
| I2cMaster_proofs | MasterTypes, BeginsAlone | TypeOK, OneAtATime |
| | ImplementsBus | Bus: `I2cMaster` implements `I2cBus` |
| Eeprom_proofs | EepromTypes, LandsWhereMeant, WaitEnds, NothingReported | TypeOK, BytesLand, WaitIsForTheCycle, MissingNotReported |
| | ImplementsStore | Store: `Eeprom` implements `EepromStore` |
| SaveFile_proofs | SaveTypes, LoadsFile, LossIsNotReported, ReadsBackFaithfully | TypeOK, LoadedFile, LossNotReported, ReadBackFaithful |
| ProgramStore_proofs | StoreTypes, ScansForward, LoadsInUserMemory | TypeOK, ListsInOrder, KernelMemoryKept |
| | ArchiveListed, ProgramLoaded | ListsArchive, LoadedImage |
| Menu_proofs | MenuTypes, ShowsSelection, RunsShown, ActsOnce | TypeOK, ScreenShowsSelection, RunsWhatIsShown, OncePerPress |
| Screen_proofs | ScreenTypes, WritesOneBytePast, LinesShowPrints, PanelLagsOnly, WipeSparesName | TypeOK, OneBytePast, LinesHoldPrints, PanelLags, WipesAroundName |
| Panel_proofs | PanelTypes, TakenInMode, ShowsBuffer | TypeOK, ShiftedInMode, PanelShowsBuffer |

**KernelControl.** None of the properties is inductive on its
own: that a program is left into its own `run_file` needs that `ctx = "run_file"` wherever that frame is live
(`ContextInv`); that its status is its own needs to know what `kernel_ctx.data` holds between the jump
and `get_retval` (`StatusInv`); that no stale flag acts needs that timer 2/3 is stopped and its flag
clear before each use, and that a set flag was raised since (`TimerInv`); preemption needs that the
tick stays set up after boot (`TickInv`), and the jumps need that timer 2/3 has never counted before
`kmain`'s `setjmp` (`BootInv`), because nothing else keeps the T3 test of an early tick from jumping
through an empty context. `TrapInv` ties system calls and exceptions to user code. `NextIInv` has one step per
action; `WaysOut` and `WaysOn` say which actions leave user code, the return of `run_file` and the
loop of a sleep. The assumption `U16 < U32 - 2` is what keeps a masked status apart from -1; it holds of 2^16 and 2^32.

**TrapFrame.** `PadInv`: while a handler runs, every saved register is in its slot, above the words the handler
may use, and no two share one (`SlotsApart`); `SyscallInv`: the link is in its slot until an
unoptimised handler has stored its parameters. Assumed: handlers overwrite nothing but caller-saved registers
(`TrapAssumption`, the calling convention).

**I2cMaster.** `Registers` says what the registers hold at every place of a call: at most one thing
goes on (`Alone`), a flag seen by a wait is that of its own event (`FlagOf`), a byte is there exactly when a receive takes it (`ByteOf`),
whatever call was abandoned before. Every step is then a step of `I2cBus` or leaves the wires alone.

**Eeprom.** The invariant follows a call (`CallInv`, `AddrInv`), the device's side of the transaction (`DeviceInv`), what of a
write is stored and what is latched (`StoredInv`), what of a read has been received, after the byte that was there before it (`ReadInv`, `KeptInv`), the clock
(`ClockInv`) and a missing device (`AbsentInv`). `NextInPage` and `CounterNext` are the page arithmetic: the device's
counter follows the driver's address up to the end of a page. `Steps` maps each action to a step of the array; `AbandonLeaves` is the one for the jump.

**SaveFile.** A file sent to a load that waits for it is the message `Message(file)`, its size and its contents, and
the invariant says where each byte of it is (`SingleInv`): what was stored is in the EEPROM, the buffer holds what comes next, then the
queue, then the line. `Passed` is the step of one byte from one of these sequences to the one before it; a byte that is lost leaves the rest too
short to complete the last piece, so that a load that lost one never returns a size. `CallInv` ties the board to the abstract
EEPROM while a piece is written; `SizeInv` keeps `addr + remaining` equal to the size, which is why the u16 address does not wrap before a
write is refused; `BackInv` is the same for the read-back, with the buffer that a refused read leaves as it was (`BackStep`), for a read-back that is `clean`. Loss needs one more thing:
that an overrun is cleared before an empty queue is polled (`QueueInv`), without which a load would start with OERR set.
`SizeRoundTrip` says that a size survives its way as bytes. Assumed (`FilesAssumption`): files are of less than 2 GiB,
the half of a usize that is not negative as an isize.

**ProgramStore.** `RomInv`: all that the EEPROM holds comes from files of archives, however they were cut over one another;
`ScanInv`: the members listed lie behind one another and before the place of the scan. `CopyStays` is the
argument for the kernel's memory: both ends of a segment are in user memory and it is `Sound`, so all of it is, and what is read into it is no longer; `PartlyStays`
is the same for the part of a copy that a jump or a reset leaves. `WholeInv` is for an archive that was stored as a whole: its cells are in the EEPROM (`InRom`), and the scan is at the header of the member
after those that it has listed (`Listed`). It rests on the layout: the headers start at block boundaries in order (`HeadersAligned`,
`HeadersInOrder`), so a cell is in one header or one file (`CellAtHeader`, `NoHeaderWithin`, `CellAtFile`) and the archive ends with a
block of zeros (`CellAtEnd`). `LoadInv` says that the segments loaded so far are in memory; later ones leave them there (`CopyKeeps`) because they
are apart. Assumed: EEPROM addresses of at least twice the EEPROM's size, and memory addresses at least as wide (`StoreAssumption`).

**Menu.** `ListInv` gives the lengths of both lists, `DrawnInv` that the screen is that of `render_menu` unless a
move is still to be drawn, in which case SEL is not among the bits that are left, and `ActedInv` that a button that has acted is up until it is
pressed again (EXIT, which is not waited for, acts on the way out only).

**Screen.** `PrintedLine` says what a print does to each pixel of its own line and of the others, from what a byte and a bit of a row
are (`PageOfRow`, `PixelOfLine`) and from what a text covers (`Drawn`, `BlankLine`); `SaverInv` that the screensaver's text moves away from an edge it has
reached; `ShowInv` carries the lines and the lag of the panel through the steps, `WipeInv` the rows that the animation has passed, pixel by pixel (`NameDrawn`
says which ones the name lights); `AnimationWithin` says that no frame of the animation reaches past the buffer. Assumed (`NameAssumption`): the name fits on the display where `animation.c` puts it.

**Panel.** `OneInFlight`: as long as no send was cut, a byte is in the SPI module only between its write and its
read, with the pin as it was. `Painting`: the pages below `i` are the buffer's, and the page and column of
the panel are those of the byte to come, from the second command of a page on; `ByteTaken` is the step of the panel.

**Sums and powers.** The place of an archive's member is a sum over the sizes before it, and the value of a size a sum over its bytes. Both are
recursive functions, not operators, and what they compute is found by induction without the library's theorems on
induction, which take an operator: `SetInduction` states it of a set of numbers, through the well-foundedness of `<`, and `SumsExist`/`GrowingExists` show
that a function with the recursive equation exists, so that the one TLA+ chooses satisfies it.

Left to TLC: all liveness, since fairness and ENABLED are beyond the prover: UserStops, TicksServed, BootCompletes, CallsReturn, CallReturns,
LoadEnds, ReadsAgain. Every safety property of the passing runs, and every type invariant, is a theorem.

## 5. What is not modelled

- Contents: fonts (but for what a character lights), formats, register values, instructions. A program is anything that
  computes, calls, faults, exits or loops; `io.c`'s formatting and `fib.c`'s arithmetic are its own business.
- Faults in kernel code, exceptions in branch delay slots (`irq.S:151` goes on at EPC + 4), and anything after control is
  lost or the kernel's memory is overwritten ("wild").
- Real time: the length of a sleep or of the timeout, ticks lost while a handler prints.
- A device that holds SDA after a reset in the middle of a read; no code handles it.
- Archive headers with sizes that no archive can have, characters above 127 as an index into the font (`display.c`).
- The command sequence of `display_init`, which is straight-line and appears as a step of boot.
- The interrupt-driven side of `uart.c`: nothing calls the handler that would fill its ring (`interrupts.c:16`), and a ring of
  `UART_BUFFER_SIZE` 1 can hold nothing.
- A composition of Menu with KernelControl: the two share nothing but where the menu is left, and KernelControl's menu
  already chooses at will.
- Functions without a caller: `longjmp`, `set_user_mode`, `nonusermode_jump`, `ustar_find_file` (a stub).
- The self tests of `tests.c` other than `test_savefile`, `gpio.c` and `delay.c` (reads of pins and a busy loop), and host tools
  whose CRC protocol the kernel does not speak.
