---------------------------- MODULE KernelControl ----------------------------
(***************************************************************************)
(* Control flow of ITKernel: boot, the trap entry and its handlers, the    *)
(* timers, the saved kernel context and the life of a user program         *)
(* (kernel/src: startup.c, irq.S, interrupts.c, timers.c, kernel.c,        *)
(* kernel.S, usermode.S, the exit path of syscalls.c, and the calls that   *)
(* ui.c makes to them).                                                    *)
(*                                                                         *)
(* One CPU runs one thing at a time.  pc says what runs outside the trap   *)
(* handlers; trap is the handler's step, "none" when Status.EXL is clear.  *)
(* The interrupt flags are set by the hardware at any moment.  An enabled  *)
(* interrupt is taken before the next instruction, so a step of pc needs   *)
(* that none is pending.                                                   *)
(***************************************************************************)
EXTENDS Integers

CONSTANTS
    U16,         \* 2^16 in the code: the width get_retval masks to
    U32,         \* 2^32 in the code: the width of a usize
    MsMod,       \* the modulus of global_ms_count (2^32 in the code)
    ExitStatus   \* the statuses that user programs pass to exit

ASSUME WidthAssumption == /\ U16 \in Nat \ {0, 1, 2}
                          /\ U32 \in Nat
                          /\ U16 < U32 - 2
                          /\ MsMod \in Nat \ {0}

ASSUME StatusAssumption == ExitStatus \subseteq 0..(U32 - 1)

(* Interrupt numbers of the PIC32MX: bits of IFS0 and IEC0.                *)
PIC32_IRQ_CS1  == 2
PIC32_IRQ_INT0 == 3
PIC32_IRQ_T3   == 12
PIC32_IRQ_T4   == 16
PIC32_IRQ_U1RX == 27

Irqs == {PIC32_IRQ_CS1, PIC32_IRQ_INT0, PIC32_IRQ_T3, PIC32_IRQ_T4, PIC32_IRQ_U1RX}

(* The bits a write of PIC32_IRQ_T3 itself selects: 12 = 2_1100.           *)
MaskOfIrqT3 == {PIC32_IRQ_CS1, PIC32_IRQ_INT0}

MinusOne == U32 - 1
MinusTwo == U32 - 2
NoStatus == U32      \* no status was passed to exit since the program began

VARIABLES
    pc,       \* what runs when no trap handler does
    trap,     \* step of the trap handler, or "none"
    ie,       \* Status.IE
    um,       \* Status.UM
    ifs,      \* interrupt flags that are set
    iec,      \* interrupts that are enabled
    ipc,      \* interrupts with a priority above 0
    t4on,     \* timer 4 counts
    t23on,    \* the 32 bit timer 2/3 counts
    ms,       \* global_ms_count
    ctx,      \* which setjmp filled kernel_ctx: "none", "torn", "kmain", "run_file"
    ctxData,  \* kernel_ctx.data
    dead,     \* history: runs on a frame whose function has already returned
    retval,   \* what program_selector prints after "returned: "
    fired,    \* history: timer 2/3 elapsed since it was last switched on
    own       \* history: the status the running program passed to exit

cpu     == <<pc, trap, ie, um>>
irq     == <<ifs, iec, ipc>>
timer   == <<t4on, t23on, ms>>
context == <<ctx, ctxData, dead>>
shown   == <<retval, fired, own>>
vars    == <<cpu, irq, timer, context, shown>>

BootPcs == {"setup_interrupts", "setup_peripherals", "timers_setup", "timer4_on",
            "timer4_enable", "display_init", "enable_interrupts"}
KmainPcs == {"kmain", "kmain_setjmp", "kmain_resumed"}
SleepPcs == {"sleep_off", "sleep_clear", "sleep_on", "sleep_poll", "sleep_stop",
             "sleep_ack"}
ArmPcs == {"arm_off", "arm_clear", "arm_on", "arm_enable"}

(* run_file is on the stack and has filled kernel_ctx.                     *)
RunFilePcs == {"usermode_jump", "user", "exited"} \cup ArmPcs

Pcs == BootPcs \cup KmainPcs \cup SleepPcs \cup RunFilePcs
         \cup {"main_menu", "load", "setjmp", "setjmp_torn", "result", "wild"}

Traps == {"none", "rx", "t4", "t3", "eret", "syscall", "exception", "nested"}

TypeOK ==
    /\ pc \in Pcs
    /\ trap \in Traps
    /\ ie \in BOOLEAN /\ um \in BOOLEAN
    /\ ifs \subseteq Irqs /\ iec \subseteq Irqs /\ ipc \subseteq Irqs
    /\ t4on \in BOOLEAN /\ t23on \in BOOLEAN
    /\ ms \in 0..(MsMod - 1)
    /\ ctx \in {"none", "torn", "kmain", "run_file"}
    /\ ctxData \in 0..(U32 - 1)
    /\ dead \in BOOLEAN
    /\ retval \in 0..(U32 - 1)
    /\ fired \in BOOLEAN
    /\ own \in 0..U32

(* Reset: main has executed di.                                            *)
Init ==
    /\ pc = "setup_interrupts" /\ trap = "none"
    /\ ie = FALSE /\ um = FALSE
    /\ ifs \in SUBSET {PIC32_IRQ_U1RX} /\ iec = {} /\ ipc = {}
    /\ t4on = FALSE /\ t23on = FALSE /\ ms = 0
    /\ ctx = "none" /\ ctxData = 0 /\ dead = FALSE
    /\ retval = 0 /\ fired = FALSE /\ own = NoStatus

-----------------------------------------------------------------------------
(* The hardware.                                                           *)

Pending == trap = "none" /\ ie /\ ifs \cap iec \cap ipc # {}

(* The CPU executes the code at `from` and continues at `to`.              *)
Cpu(from, to) == /\ trap = "none" /\ ~Pending
                 /\ pc = from /\ pc' = to
                 /\ UNCHANGED trap

(* A step that changes nothing but the place the CPU is at.                *)
Plain(from, to) ==
    Cpu(from, to) /\ UNCHANGED <<ie, um, irq, timer, context, shown>>

SetFlag(i) == /\ i \notin ifs
              /\ ifs' = ifs \cup {i}
              /\ UNCHANGED <<cpu, iec, ipc, timer, context>>

(* Timer 4 reaches its period, 1 ms; a flag that is set already stays set. *)
T4Tick == t4on /\ SetFlag(PIC32_IRQ_T4) /\ UNCHANGED shown

(* Timer 2/3 reaches its period and starts over.                           *)
T3Fire == /\ t23on /\ SetFlag(PIC32_IRQ_T3)
          /\ fired' = TRUE /\ UNCHANGED <<retval, own>>

ByteReceived == SetFlag(PIC32_IRQ_U1RX) /\ UNCHANGED shown

-----------------------------------------------------------------------------
(* Boot.                                                                   *)

SetupInterrupts ==
    /\ Cpu("setup_interrupts", "setup_peripherals")
    /\ iec' = {} /\ ifs' = {} /\ ipc' = {}
    /\ UNCHANGED <<ie, um, timer, context, shown>>

(* The clock, i2c_setup and uart_setup: nothing that this module watches.  *)
SetupPeripherals == Plain("setup_peripherals", "timers_setup")

(* serial_printf closes its critical section with an unconditional ei.     *)
SerialPrintf == ie' = TRUE

TimersSetup ==        \* the print, and the timers stopped and configured
    /\ Cpu("timers_setup", "timer4_on")
    /\ SerialPrintf
    /\ t23on' = FALSE /\ t4on' = FALSE
    /\ UNCHANGED <<um, irq, ms, context, shown>>

Timer4On ==           \* T4CONSET, and the second print
    /\ Cpu("timer4_on", "timer4_enable")
    /\ SerialPrintf
    /\ t4on' = TRUE
    /\ UNCHANGED <<um, irq, t23on, ms, context, shown>>

Timer4Enable ==
    /\ Cpu("timer4_enable", "display_init")
    /\ iec' = iec \cup {PIC32_IRQ_T4}
    /\ ipc' = ipc \cup {PIC32_IRQ_T4, PIC32_IRQ_T3}
    /\ UNCHANGED <<ie, um, ifs, timer, context, shown>>

DisplayInit ==
    /\ Cpu("display_init", "enable_interrupts")
    /\ SerialPrintf
    /\ UNCHANGED <<um, irq, timer, context, shown>>

EnableInterrupts ==   \* the rest of startup
    /\ Cpu("enable_interrupts", "kmain")
    /\ ie' = TRUE
    /\ UNCHANGED <<um, irq, timer, context, shown>>

Boot == \/ SetupInterrupts \/ SetupPeripherals \/ TimersSetup \/ Timer4On
        \/ Timer4Enable \/ DisplayInit \/ EnableInterrupts

-----------------------------------------------------------------------------
(* kmain, the main menu and its sleeps.                                    *)

(* setjmp stores twelve words and can be interrupted among them.           *)
SetjmpBegin(from, to) ==
    /\ Cpu(from, to)
    /\ ctx' = "torn"
    /\ UNCHANGED <<ie, um, irq, timer, dead, shown>>

SetjmpEnd(from, to, frame) ==
    /\ Cpu(from, to)
    /\ ctx' = frame
    /\ UNCHANGED <<ie, um, irq, timer, ctxData, dead, shown>>

KmainSetjmpForgotten == Plain("kmain", "main_menu")   \* mutant: no setjmp

KmainSetjmp ==
    \/ SetjmpBegin("kmain", "kmain_setjmp") /\ ctxData' = 0
    \/ SetjmpEnd("kmain_setjmp", "main_menu", "kmain")

KmainResumed ==       \* setjmp returned again: print, and a new main_menu
    /\ Cpu("kmain_resumed", "main_menu")
    /\ SerialPrintf
    /\ UNCHANGED <<um, irq, timer, context, shown>>

(* shortsleep, which screensaver, intro_animation and the tests call.      *)
Sleep(from, to) == /\ Cpu(from, to)
                   /\ UNCHANGED <<ie, um, iec, ipc, context, retval, own>>

StartSleep == Sleep("main_menu", "sleep_off") /\ UNCHANGED <<ifs, timer, fired>>

SleepOff == /\ Sleep("sleep_off", "sleep_clear")
            /\ t23on' = FALSE /\ UNCHANGED <<ifs, t4on, ms, fired>>

SleepClearForgotten == /\ Sleep("sleep_clear", "sleep_on")   \* mutant: no IFSCLR
                       /\ UNCHANGED <<ifs, timer, fired>>

SleepClear == /\ Sleep("sleep_clear", "sleep_on")
              /\ ifs' = ifs \ {PIC32_IRQ_T3} /\ UNCHANGED <<timer, fired>>

SleepOn == /\ Sleep("sleep_on", "sleep_poll")
           /\ t23on' = TRUE /\ fired' = FALSE /\ UNCHANGED <<ifs, t4on, ms>>

SleepPoll == /\ PIC32_IRQ_T3 \in ifs
             /\ Sleep("sleep_poll", "sleep_stop")
             /\ UNCHANGED <<ifs, timer, fired>>

SleepStop == /\ Sleep("sleep_stop", "sleep_ack")
             /\ t23on' = FALSE /\ UNCHANGED <<ifs, t4on, ms, fired>>

SleepAck == /\ Sleep("sleep_ack", "main_menu")
            /\ ifs' = ifs \ {PIC32_IRQ_T3} /\ UNCHANGED <<timer, fired>>

Shortsleep == \/ SleepOff \/ SleepClear \/ SleepOn
              \/ SleepPoll \/ SleepStop \/ SleepAck

-----------------------------------------------------------------------------
(* program_selector and run_file.                                          *)

SelectProgram == Plain("main_menu", "load")

(* run_file returns -1 when elf_load_file gives NULL, and program_selector *)
(* then goes back to the menu.                                             *)
LoadFails == Plain("load", "main_menu")
LoadSucceeds == Plain("load", "setjmp")

RunFileSetjmpForgotten == Plain("setjmp", "arm_off")   \* mutant: no setjmp

RunFileSetjmp ==
    \/ SetjmpBegin("setjmp", "setjmp_torn") /\ UNCHANGED ctxData
    \/ SetjmpEnd("setjmp_torn", "arm_off", "run_file")

(* timers_setup_user_timeout                                               *)
ArmOff ==
    /\ Cpu("arm_off", "arm_clear")
    /\ t23on' = FALSE
    /\ UNCHANGED <<ie, um, irq, t4on, ms, context, shown>>

ArmClearForgotten == Plain("arm_clear", "arm_on")   \* mutant: no IFSCLR

ArmClear ==
    /\ Cpu("arm_clear", "arm_on")
    /\ ifs' = ifs \ {PIC32_IRQ_T3}
    /\ UNCHANGED <<ie, um, iec, ipc, timer, context, shown>>

ArmOn ==
    /\ Cpu("arm_on", "arm_enable")
    /\ t23on' = TRUE
    /\ fired' = FALSE
    /\ UNCHANGED <<ie, um, irq, t4on, ms, context, retval, own>>

ArmEnableAssigns ==   \* mutant: IEC(0) = ... in place of IECSET(0) = ...
    /\ Cpu("arm_enable", "usermode_jump")
    /\ iec' = MaskOfIrqT3
    /\ UNCHANGED <<ie, um, ifs, ipc, timer, context, shown>>

(* IECSET takes a mask; the code gives it the interrupt's number.          *)
ArmEnable ==
    /\ Cpu("arm_enable", "usermode_jump")
    /\ iec' = iec \cup MaskOfIrqT3
    /\ UNCHANGED <<ie, um, ifs, ipc, timer, context, shown>>

UsermodeJump ==
    /\ Cpu("usermode_jump", "user")
    /\ um' = TRUE
    /\ own' = NoStatus
    /\ UNCHANGED <<ie, irq, timer, context, retval, fired>>

GetRetvalUnmasked(data) == data   \* mutant: no & 0xffff

GetRetval(data) == data % U16

(* setjmp in run_file returned again.  On a dead frame the saved return    *)
(* address may still be there or may be overwritten.                       *)
RunFileReturns ==
    LET ret == GetRetval(ctxData) IN
    /\ \/ Cpu("exited", IF ret = MinusOne THEN "main_menu" ELSE "result")
       \/ dead /\ Cpu("exited", "wild")
    /\ SerialPrintf
    /\ retval' = ret
    /\ dead' = (dead /\ pc' = "result")
    /\ UNCHANGED <<um, irq, timer, ctx, ctxData, fired, own>>

(* program_selector showed the result and a button was pressed.            *)
LeaveResult ==
    /\ Cpu("result", "main_menu") \/ (dead /\ Cpu("result", "wild"))
    /\ dead' = FALSE
    /\ UNCHANGED <<ie, um, irq, timer, ctx, ctxData, shown>>

(* What overwritten control state does is not modelled.                    *)
Wild == pc = "wild" /\ UNCHANGED vars

-----------------------------------------------------------------------------
(* Traps.                                                                  *)

(* Where the return address in kernel_ctx leads.                           *)
Resumption == IF ctx = "kmain" THEN "kmain_resumed"
              ELSE IF ctx = "run_file" THEN "exited" ELSE "wild"

EretLongjmpDropsData(data) ==   \* mutant: a1 is not stored
    /\ trap' = "none"
    /\ pc' = Resumption
    /\ dead' = (ctx = "run_file" /\ (dead \/ pc \notin RunFilePcs))
    /\ UNCHANGED <<ctx, ctxData>>

(* eret_longjmp(&kernel_ctx, data): resume after the setjmp that filled    *)
(* the context.                                                            *)
EretLongjmp(data) ==
    /\ trap' = "none"
    /\ pc' = Resumption
    /\ dead' = (ctx = "run_file" /\ (dead \/ pc \notin RunFilePcs))
    /\ ctxData' = data
    /\ UNCHANGED ctx

SysExitInUserMode(status) ==   \* mutant: no set_kernel_mode
    /\ SerialPrintf
    /\ EretLongjmp(status)
    /\ UNCHANGED um

SysExit(status) ==
    /\ um' = FALSE
    /\ SerialPrintf
    /\ EretLongjmp(status)

Trap(from, to) == trap = from /\ trap' = to /\ UNCHANGED <<pc, ie, um>>

TrapStep(from, to) == Trap(from, to) /\ UNCHANGED <<irq, timer, context, shown>>

EnterInterruptAtT3 ==   \* mutant: T3 is looked at before T4
    /\ Pending
    /\ TrapStep("none", "t3")

EnterInterrupt ==
    /\ Pending
    /\ TrapStep("none", "rx")

(* interrupt_handler looks at the three flags in this order, whichever     *)
(* interrupt was taken.                                                    *)
HandleRx ==
    /\ Trap("rx", "t4")
    /\ ifs' = ifs \ {PIC32_IRQ_U1RX}
    /\ UNCHANGED <<iec, ipc, timer, context, shown>>

HandleT4Unacknowledged ==   \* mutant: the flag is not cleared
    /\ Trap("t4", "t3")
    /\ ms' = IF PIC32_IRQ_T4 \in ifs THEN (ms + 1) % MsMod ELSE ms
    /\ UNCHANGED <<irq, t4on, t23on, context, shown>>

HandleT4Only ==       \* mutant: the handler returns without looking at T3
    /\ Trap("t4", "eret")
    /\ ifs' = ifs \ {PIC32_IRQ_T4}
    /\ ms' = IF PIC32_IRQ_T4 \in ifs THEN (ms + 1) % MsMod ELSE ms
    /\ UNCHANGED <<iec, ipc, t4on, t23on, context, shown>>

HandleT4 ==
    /\ Trap("t4", "t3")
    /\ ifs' = ifs \ {PIC32_IRQ_T4}
    /\ ms' = IF PIC32_IRQ_T4 \in ifs THEN (ms + 1) % MsMod ELSE ms
    /\ UNCHANGED <<iec, ipc, t4on, t23on, context, shown>>

NoT3 ==
    /\ PIC32_IRQ_T3 \notin ifs
    /\ TrapStep("t3", "eret")

(* timers_handle_t3; sys_exit does not return, so interrupt_handler never  *)
(* clears the flag.                                                        *)
HandleT3 ==
    /\ PIC32_IRQ_T3 \in ifs
    /\ trap = "t3"
    /\ iec' = iec \ MaskOfIrqT3
    /\ t23on' = FALSE
    /\ SysExit(MinusTwo)
    /\ UNCHANGED <<ifs, ipc, t4on, ms, shown>>

Eret == TrapStep("eret", "none")

InterruptHandler == HandleRx \/ HandleT4 \/ NoT3 \/ HandleT3 \/ Eret

(* A system call masks interrupts (EXL) until it returns.                  *)
EnterSyscall ==
    /\ pc = "user" /\ ~Pending
    /\ TrapStep("none", "syscall")

SyscallReturns == TrapStep("syscall", "none")   \* every call but exit

SyscallExit ==
    /\ trap = "syscall"
    /\ \E status \in ExitStatus : SysExit(status) /\ own' = status
    /\ UNCHANGED <<irq, timer, retval, fired>>

(* A fault of the user program.                                            *)
EnterException ==
    /\ pc = "user" /\ ~Pending
    /\ TrapStep("none", "exception")

(* exception_handler reads the instruction at EPC, and the trampoline      *)
(* resumes after it.                                                       *)
ExceptionReturns == TrapStep("exception", "none")

(* That read faults when EPC itself is not readable; with EXL set the      *)
(* nested exception keeps EPC, and its handler faults again.               *)
ExceptionNests ==
    TrapStep("exception", "nested") \/ TrapStep("nested", "nested")

Handler == \/ InterruptHandler \/ SyscallReturns \/ SyscallExit
           \/ ExceptionReturns \/ ExceptionNests

Kernel == \/ Boot \/ KmainSetjmp \/ KmainResumed \/ Shortsleep
          \/ LoadFails \/ LoadSucceeds \/ RunFileSetjmp
          \/ ArmOff \/ ArmClear \/ ArmOn \/ ArmEnable \/ UsermodeJump
          \/ RunFileReturns \/ Wild

Hardware == T4Tick \/ T3Fire \/ ByteReceived

(* What the user does at the buttons.                                      *)
Buttons == StartSleep \/ SelectProgram \/ LeaveResult

Next == \/ Hardware \/ EnterInterrupt \/ Handler \/ Kernel \/ Buttons
        \/ EnterSyscall \/ EnterException

Spec == Init /\ [][Next]_vars

-----------------------------------------------------------------------------
(* Fairness.  The hardware raises the flags of running timers and takes    *)
(* pending interrupts; handlers run to their end.  A handler that does not *)
(* print is far shorter than the 1 ms of timer 4, so no tick falls into it *)
(* and the interrupted code makes progress between ticks; one that prints  *)
(* (a trap that prints, or timers_handle_t3 through sys_exit) takes over   *)
(* 10 ms at 19200 baud.  Nothing is assumed of the buttons or of what the  *)
(* user program does.                                                      *)
TicksPaced == (PIC32_IRQ_T4 \in ifs' \ ifs) =>
                 \/ trap \in {"none", "syscall", "exception", "nested"}
                 \/ trap = "t3" /\ PIC32_IRQ_T3 \in ifs

Fairness == /\ WF_vars(T4Tick) /\ WF_vars(T3Fire)
            /\ WF_vars(EnterInterrupt) /\ WF_vars(Handler)
            /\ SF_vars(Kernel)

FairSpec == Spec /\ Fairness

(* From some point on, ticks keep their distance; before it they need not. *)
Paced == <>[][TicksPaced]_vars

-----------------------------------------------------------------------------
(* Safety.                                                                 *)

(* Status.UM is set exactly while the user program's code runs: no path    *)
(* out of a program (exit, timeout, a jump out of a nested use) lets       *)
(* kernel code run unprivileged, and no program runs privileged.           *)
ModeIntegrity == um <=> pc = "user"

(* While a user program runs, the kernel can take the CPU back: its        *)
(* timeout counts, and the tick whose handler polls the timeout's flag     *)
(* counts, is enabled, has a priority and is not masked.                   *)
Preemptible == pc = "user" => /\ t23on /\ t4on /\ ie
                              /\ PIC32_IRQ_T4 \in iec \cap ipc

(* What program_selector shows is the status the program passed to exit,   *)
(* in 16 bits, or the status of a timeout that elapsed (run_file).         *)
StatusShown ==
    pc = "result" /\ ~dead =>
        \/ own # NoStatus /\ retval = GetRetval(own)
        \/ fired /\ retval = GetRetval(MinusTwo)

(* A user program is left only through the frame of the run_file that      *)
(* started it, whatever saved or resumed a context before.                 *)
UserLeavesToRunFile ==
    [][pc = "user" /\ pc' # "user" => pc' = "exited" /\ ~dead']_vars

(* A program is killed by the timer only if its own timeout elapsed, not   *)
(* by a flag left from an earlier sleep or program.                        *)
KilledOnlyAfterTimeout ==
    [][trap = "t3" /\ pc = "user" /\ pc' # "user" => fired]_vars

(* A program that ran is always reported: no status is mistaken for the -1 *)
(* with which run_file says that nothing was loaded.                       *)
ExitReported ==
    [][pc = "exited" /\ pc' # "exited" /\ ~dead => pc' = "result"]_vars

(* A sleep ends only after its own time, not at a flag left set by an      *)
(* earlier use of the timer it shares with the user timeout.               *)
SleepWaits == [][pc = "sleep_poll" /\ pc' = "sleep_stop" => fired]_vars

(* kernel_ctx is never jumped to before anything was saved in it.          *)
JumpsNeedContext ==
    [][pc # "wild" /\ pc' = "wild" => ctx = "torn" \/ dead]_vars

-----------------------------------------------------------------------------
(* Liveness, under FairSpec, for ticks that are paced in the end.          *)

(* However a program loops, it stops running, unless a fault at an         *)
(* unreadable EPC keeps its exception handler faulting.                    *)
UserStops == Paced => (pc = "user" ~> (pc # "user" \/ trap = "nested"))

(* A tick is served: the clock and the timeout's polling never stop.       *)
TicksServed == Paced => (PIC32_IRQ_T4 \in ifs ~>
                 (PIC32_IRQ_T4 \notin ifs \/ trap = "nested" \/ pc = "wild"))

(* Boot reaches the menu although the first print turns interrupts on      *)
(* before the peripherals are set up.                                      *)
BootCompletes == Paced => (pc \in BootPcs ~> pc = "main_menu")

-----------------------------------------------------------------------------
(* What the comments promise and the code does not keep.                   *)

(* timers.c:8-10: timer 2/3 serves "for user program timeout": a program   *)
(* that is stopped gets its result shown.                                  *)
TimeoutReturns == Paced => (pc = "exited" ~> pc # "exited")

(* timers.h:11, "sleep for this amount of ms": a sleep that began returns  *)
(* to its caller, and is never abandoned for the kernel context.           *)
SleepNotAbandoned ==
    [][(pc \in SleepPcs) => pc' \in SleepPcs \cup {"main_menu"}]_vars

(* kernel.h:17, "longjmp to context ctx (from a previous setjmp)": the     *)
(* function that called setjmp has not returned when its context is        *)
(* resumed.                                                                *)
ResumesLiveFrame == ~dead
=============================================================================
