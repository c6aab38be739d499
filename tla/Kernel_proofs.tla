---------------------------- MODULE Kernel_proofs ---------------------------
(***************************************************************************)
(* Proofs about the kernel's control flow, for every value of the          *)
(* constants.  KernelControl: the inductive invariant IInv, and the        *)
(* invariants and action properties that follow from it.  TrapFrame: for   *)
(* every depth of stack, every set of registers a handler may overwrite    *)
(* and every content of the registers, traps give back what they took.     *)
(***************************************************************************)
EXTENDS KernelControl, TrapFrame, TLAPS

(* Before kmain's setjmp, timer 2/3 has never counted.                     *)
BootInv ==
    /\ pc \in BootPcs \cup {"kmain", "kmain_setjmp"} =>
          ~t23on /\ PIC32_IRQ_T3 \notin ifs
    /\ pc \in BootPcs \cup {"kmain"} => ctx = "none"

(* The tick is set up during boot and stays on.                            *)
TickInv ==
    /\ pc \notin BootPcs \/ pc \in {"display_init", "enable_interrupts"} =>
          t4on /\ ie /\ PIC32_IRQ_T4 \in iec \cap ipc
    /\ pc = "timer4_enable" => t4on /\ ie

(* Which setjmp filled kernel_ctx, by the place the kernel is at.          *)
ContextInv ==
    /\ ctx = "none" => pc \in BootPcs \cup {"kmain"}
    /\ ctx = "torn" => pc \in {"kmain_setjmp", "setjmp_torn", "wild"}
    /\ pc \in RunFilePcs => ctx = "run_file"
    /\ dead => pc \in {"exited", "result"}

(* Timer 2/3 is stopped and its flag clear before it is used again.        *)
TimerInv ==
    /\ pc \in {"arm_clear", "arm_on", "sleep_clear", "sleep_on"} => ~t23on
    /\ pc \in {"arm_on", "sleep_on"} => PIC32_IRQ_T3 \notin ifs
    /\ pc \in {"arm_enable", "usermode_jump", "user"} => t23on
    /\ PIC32_IRQ_T3 \in ifs => fired

(* What kernel_ctx.data holds while run_file's second return is under way. *)
StatusInv ==
    /\ pc = "exited" /\ ~dead => \/ own # NoStatus /\ ctxData = own
                                 \/ fired /\ ctxData = MinusTwo
    /\ StatusShown

TrapInv == trap \in {"syscall", "exception", "nested"} => pc = "user"

IInv == /\ TypeOK /\ ModeIntegrity /\ BootInv /\ TickInv /\ ContextInv
        /\ TimerInv /\ StatusInv /\ TrapInv

(* The facts about the constants and the numbers that the steps need.      *)
LEMMA Values ==
    /\ MinusTwo \in 0..(U32 - 1) /\ MinusOne \in 0..(U32 - 1)
    /\ NoStatus \in 0..U32 /\ NoStatus \notin ExitStatus
    /\ \A d \in 0..(U32 - 1) : GetRetval(d) \in 0..(U16 - 1)
    /\ \A d \in 0..(U32 - 1) : GetRetval(d) # MinusOne
    /\ \A n \in 0..(MsMod - 1) : (n + 1) % MsMod \in 0..(MsMod - 1)
BY WidthAssumption, StatusAssumption DEF MinusTwo, MinusOne, NoStatus, GetRetval

LEMMA InitIInv == Init => IInv
<1> SUFFICES ASSUME Init PROVE IInv
  OBVIOUS
<1> USE Values, WidthAssumption DEF Init, Pcs, BootPcs, KmainPcs, SleepPcs, ArmPcs,
   RunFilePcs
<1>1. ifs \subseteq {PIC32_IRQ_U1RX} /\ PIC32_IRQ_T3 \notin ifs
  BY DEF PIC32_IRQ_U1RX, PIC32_IRQ_T3
<1>2. TypeOK
  <2>1. 0 \in 0..(MsMod - 1) /\ 0 \in 0..(U32 - 1) /\ NoStatus \in 0..U32
    OBVIOUS
  <2>2. ifs \subseteq Irqs
    BY <1>1 DEF Irqs
  <2> QED
    BY <2>1, <2>2 DEF TypeOK, Traps
<1>3. ModeIntegrity /\ BootInv /\ TickInv /\ ContextInv
  BY <1>1 DEF ModeIntegrity, BootInv, TickInv, ContextInv
<1>4. TimerInv /\ StatusInv /\ TrapInv
  BY <1>1 DEF TimerInv, StatusInv, StatusShown, TrapInv
<1> QED
  BY <1>2, <1>3, <1>4 DEF IInv

LEMMA NextIInv == IInv /\ [Next]_vars => IInv'
<1> SUFFICES ASSUME IInv, [Next]_vars PROVE IInv'
  OBVIOUS
<1> USE Values, WidthAssumption, StatusAssumption
<1> USE DEF vars, cpu, irq, timer, context, shown, IInv,
       Irqs, MaskOfIrqT3, PIC32_IRQ_CS1, PIC32_IRQ_INT0, PIC32_IRQ_T3,
       PIC32_IRQ_T4, PIC32_IRQ_U1RX,
       TypeOK, ModeIntegrity, BootInv, TickInv, ContextInv, TimerInv, StatusInv,
          StatusShown, TrapInv, Pcs, BootPcs, KmainPcs, SleepPcs, ArmPcs,
          RunFilePcs, Traps
<1>1. CASE T4Tick
  BY <1>1 DEF T4Tick, SetFlag
<1>2. CASE T3Fire
  BY <1>2 DEF T3Fire, SetFlag
<1>3. CASE ByteReceived
  BY <1>3 DEF ByteReceived, SetFlag
<1>4. CASE EnterInterrupt
  BY <1>4 DEF EnterInterrupt, Trap, TrapStep
<1>5. CASE HandleRx
  BY <1>5 DEF HandleRx, Trap, TrapStep
<1>6. CASE HandleT4
  BY <1>6 DEF HandleT4, Trap, TrapStep
<1>7. CASE NoT3
  BY <1>7 DEF NoT3, Trap, TrapStep
<1>8. CASE HandleT3
  <2> USE <1>8 DEF HandleT3, SysExit, EretLongjmp, Resumption, SerialPrintf
  <2>1. /\ trap' = "none" /\ ~um' /\ ie'
        /\ ctx \in {"kmain", "run_file", "torn"}
        /\ pc' = Resumption
        /\ dead' => pc' = "exited"
    OBVIOUS
  <2>2. dead \in BOOLEAN /\ dead' \in BOOLEAN
    OBVIOUS
  <2>3. TypeOK'
    <3>1. pc' \in Pcs /\ trap' \in Traps /\ ctx' \in {"none", "torn", "kmain",
       "run_file"}
      BY <2>1
    <3>2. ctxData' \in 0..(U32 - 1) /\ own' \in 0..U32
      OBVIOUS
    <3> QED
      BY <2>1, <2>2, <3>1, <3>2
  <2>4. ModeIntegrity'
    BY <2>1, <2>2
  <2>5. BootInv'
    BY <2>1, <2>2
  <2>6. TickInv'
    BY <2>1, <2>2
  <2>7. ContextInv'
    BY <2>1, <2>2
  <2>8. TimerInv'
    BY <2>1, <2>2
  <2>9. StatusInv'
    BY <2>1, <2>2
  <2>10. TrapInv'
    BY <2>1, <2>2
  <2> QED
    BY <2>3, <2>4, <2>5, <2>6, <2>7, <2>8, <2>9, <2>10
<1>9. CASE Eret
  BY <1>9 DEF Eret, Trap, TrapStep
<1>10. CASE SyscallReturns
  BY <1>10 DEF SyscallReturns, Trap, TrapStep
<1>11. CASE SyscallExit
  <2> USE <1>11 DEF SyscallExit, SysExit, EretLongjmp, Resumption, SerialPrintf
  <2>1. /\ trap' = "none" /\ ~um' /\ ie'
        /\ ctx \in {"kmain", "run_file", "torn"}
        /\ pc' = Resumption
        /\ dead' => pc' = "exited"
    OBVIOUS
  <2>2. dead \in BOOLEAN /\ dead' \in BOOLEAN
    OBVIOUS
  <2>3. TypeOK'
    <3>1. pc' \in Pcs /\ trap' \in Traps /\ ctx' \in {"none", "torn", "kmain",
       "run_file"}
      BY <2>1
    <3>2. ctxData' \in 0..(U32 - 1) /\ own' \in 0..U32
      OBVIOUS
    <3> QED
      BY <2>1, <2>2, <3>1, <3>2
  <2>4. ModeIntegrity'
    BY <2>1, <2>2
  <2>5. BootInv'
    BY <2>1, <2>2
  <2>6. TickInv'
    BY <2>1, <2>2
  <2>7. ContextInv'
    BY <2>1, <2>2
  <2>8. TimerInv'
    BY <2>1, <2>2
  <2>9. StatusInv'
    BY <2>1, <2>2
  <2>10. TrapInv'
    BY <2>1, <2>2
  <2> QED
    BY <2>3, <2>4, <2>5, <2>6, <2>7, <2>8, <2>9, <2>10
<1>12. CASE ExceptionReturns
  BY <1>12 DEF ExceptionReturns, Trap, TrapStep
<1>13. CASE ExceptionNests
  <2>1. UNCHANGED <<pc, ie, um, irq, timer, context, shown>> /\ trap' = "nested"
    BY <1>13 DEF ExceptionNests, Trap, TrapStep
  <2>2. pc = "user"
    BY <1>13 DEF ExceptionNests, Trap, TrapStep
  <2> QED
    BY <2>1, <2>2
<1>14. CASE SetupInterrupts
  BY <1>14 DEF SetupInterrupts, Cpu
<1>15. CASE SetupPeripherals
  BY <1>15 DEF SetupPeripherals, Plain, Cpu
<1>16. CASE TimersSetup
  BY <1>16 DEF TimersSetup, Cpu, SerialPrintf
<1>17. CASE Timer4On
  BY <1>17 DEF Timer4On, Cpu, SerialPrintf
<1>18. CASE Timer4Enable
  BY <1>18 DEF Timer4Enable, Cpu
<1>19. CASE DisplayInit
  BY <1>19 DEF DisplayInit, Cpu, SerialPrintf
<1>20. CASE EnableInterrupts
  BY <1>20 DEF EnableInterrupts, Cpu
<1>21. CASE KmainSetjmp
  <2>1. CASE SetjmpBegin("kmain", "kmain_setjmp") /\ ctxData' = 0
    BY <2>1 DEF SetjmpBegin, Cpu
  <2>2. CASE SetjmpEnd("kmain_setjmp", "main_menu", "kmain")
    BY <2>2 DEF SetjmpEnd, Cpu
  <2> QED
    BY <1>21, <2>1, <2>2 DEF KmainSetjmp
<1>22. CASE KmainResumed
  BY <1>22 DEF KmainResumed, Cpu, SerialPrintf
<1>23. CASE SleepOff
  BY <1>23 DEF SleepOff, Sleep, Cpu
<1>24. CASE SleepClear
  BY <1>24 DEF SleepClear, Sleep, Cpu
<1>25. CASE SleepOn
  BY <1>25 DEF SleepOn, Sleep, Cpu
<1>26. CASE SleepPoll
  BY <1>26 DEF SleepPoll, Sleep, Cpu
<1>27. CASE SleepStop
  BY <1>27 DEF SleepStop, Sleep, Cpu
<1>28. CASE SleepAck
  BY <1>28 DEF SleepAck, Sleep, Cpu
<1>29. CASE LoadFails
  BY <1>29 DEF LoadFails, Plain, Cpu
<1>30. CASE LoadSucceeds
  BY <1>30 DEF LoadSucceeds, Plain, Cpu
<1>31. CASE RunFileSetjmp
  <2>1. CASE SetjmpBegin("setjmp", "setjmp_torn") /\ UNCHANGED ctxData
    BY <2>1 DEF SetjmpBegin, Cpu
  <2>2. CASE SetjmpEnd("setjmp_torn", "arm_off", "run_file")
    BY <2>2 DEF SetjmpEnd, Cpu
  <2> QED
    BY <1>31, <2>1, <2>2 DEF RunFileSetjmp
<1>32. CASE ArmOff
  BY <1>32 DEF ArmOff, Cpu
<1>33. CASE ArmClear
  BY <1>33 DEF ArmClear, Cpu
<1>34. CASE ArmOn
  BY <1>34 DEF ArmOn, Cpu
<1>35. CASE ArmEnable
  BY <1>35 DEF ArmEnable, Cpu
<1>36. CASE UsermodeJump
  BY <1>36 DEF UsermodeJump, Cpu
<1>37. CASE RunFileReturns
  BY <1>37 DEF RunFileReturns, Cpu, SerialPrintf
<1>38. CASE Wild
  BY <1>38 DEF Wild
<1>39. CASE StartSleep
  BY <1>39 DEF StartSleep, Sleep, Cpu
<1>40. CASE SelectProgram
  BY <1>40 DEF SelectProgram, Plain, Cpu
<1>41. CASE LeaveResult
  <2>1. /\ pc = "result" /\ pc' \in {"main_menu", "wild"} /\ dead' = FALSE
        /\ UNCHANGED <<ie, um, irq, timer, ctx, ctxData, shown, trap>>
    BY <1>41 DEF LeaveResult, Cpu
  <2>2. pc' \in Pcs
    BY <2>1
  <2>3. TypeOK'
    BY <2>1, <2>2
  <2>4. ModeIntegrity' /\ BootInv' /\ ContextInv'
    BY <2>1
  <2>5. TickInv' /\ TimerInv' /\ TrapInv'
    BY <2>1
  <2>6. StatusInv'
    BY <2>1
  <2> QED
    BY <2>3, <2>4, <2>5, <2>6
<1>42. CASE EnterSyscall
  BY <1>42 DEF EnterSyscall, Trap, TrapStep
<1>43. CASE EnterException
  BY <1>43 DEF EnterException, Trap, TrapStep
<1>44. CASE UNCHANGED vars
  BY <1>44
<1> QED
  BY <1>1, <1>2, <1>3, <1>4, <1>5, <1>6, <1>7, <1>8, <1>9, <1>10, <1>11, <1>12,
     <1>13, <1>14, <1>15, <1>16, <1>17, <1>18, <1>19, <1>20, <1>21, <1>22, <1>23,
     <1>24, <1>25, <1>26, <1>27, <1>28, <1>29, <1>30, <1>31, <1>32, <1>33, <1>34,
     <1>35, <1>36, <1>37, <1>38, <1>39, <1>40, <1>41, <1>42, <1>43, <1>44 DEF Next,
     Hardware, Handler, InterruptHandler, Kernel, Boot, Shortsleep, Buttons
(* The inductive invariant holds in every reachable state.                 *)
THEOREM Invariance == Spec => []IInv
BY InitIInv, NextIInv, PTL DEF Spec

(* Every variable keeps its type: in particular the millisecond count      *)
(* wraps, and what eret_longjmp stores and get_retval returns fits.        *)
THEOREM TypeCorrect == Spec => []TypeOK
BY Invariance, PTL DEF IInv

(* User mode is on exactly while the program's code runs.                  *)
THEOREM ModeCorrect == Spec => []ModeIntegrity
BY Invariance, PTL DEF IInv

(* A running program has a running timeout and a live tick to poll it.     *)
THEOREM PreemptionArmed == Spec => []Preemptible
<1>1. IInv => Preemptible
  BY DEF IInv, TickInv, TimerInv, Preemptible, BootPcs
<1> QED
  BY <1>1, Invariance, PTL

(* What is shown is the status passed to exit or that of a timeout.        *)
THEOREM StatusCorrect == Spec => []StatusShown
<1>1. IInv => StatusShown
  BY DEF IInv, StatusInv
<1> QED
  BY <1>1, Invariance, PTL

-----------------------------------------------------------------------------
(* Action properties.                                                      *)

(* Only exit and the timeout change what runs in place of a user program.  *)
LEMMA WaysOut ==
    ASSUME [Next]_vars, pc = "user", pc' # pc
    PROVE  HandleT3 \/ SyscallExit
<1> USE DEF vars, cpu
<1>1. ASSUME Kernel \/ Buttons PROVE FALSE
  BY <1>1 DEF Kernel, Buttons, Boot, Shortsleep, SetupInterrupts, SetupPeripherals,
     TimersSetup, Timer4On, Timer4Enable, DisplayInit, EnableInterrupts, KmainSetjmp,
     KmainResumed, StartSleep, SleepOff, SleepClear, SleepOn, SleepPoll, SleepStop,
     SleepAck, LoadFails, LoadSucceeds, RunFileSetjmp, ArmOff, ArmClear, ArmOn,
     ArmEnable, UsermodeJump, RunFileReturns, Wild, SelectProgram, LeaveResult,
     SetjmpBegin, SetjmpEnd, Sleep, Plain, Cpu
<1>2. ASSUME Hardware PROVE FALSE
  BY <1>2 DEF Hardware, T4Tick, T3Fire, ByteReceived, SetFlag
<1>3. ASSUME EnterInterrupt \/ EnterSyscall \/ EnterException PROVE FALSE
  BY <1>3 DEF EnterInterrupt, EnterSyscall, EnterException, Trap, TrapStep
<1>4. ASSUME Handler PROVE HandleT3 \/ SyscallExit
  BY <1>4 DEF Handler, InterruptHandler, HandleRx, HandleT4, NoT3, Eret,
     SyscallReturns, ExceptionReturns, ExceptionNests, Trap, TrapStep
<1> QED
  BY <1>1, <1>2, <1>3, <1>4 DEF Next

(* A program is left only to the run_file that started it.                 *)
THEOREM ReturnsToRunFile == Spec => UserLeavesToRunFile
<1>1. IInv /\ [Next]_vars =>
        [pc = "user" /\ pc' # "user" => pc' = "exited" /\ ~dead']_vars
  <2> SUFFICES ASSUME IInv, [Next]_vars, pc = "user", pc' # "user"
               PROVE  pc' = "exited" /\ ~dead'
    OBVIOUS
  <2>1. ctx = "run_file" /\ dead = FALSE
    BY DEF IInv, ContextInv, RunFilePcs, TypeOK
  <2>2. HandleT3 \/ SyscallExit
    BY WaysOut
  <2> QED
    BY <2>1, <2>2 DEF HandleT3, SyscallExit, SysExit, EretLongjmp, Resumption,
       RunFilePcs
<1> QED
  BY <1>1, Invariance, PTL DEF Spec, UserLeavesToRunFile

(* The flag that kills a program was raised by the program's own timeout.  *)
THEOREM NoEarlyKill == Spec => KilledOnlyAfterTimeout
<1>1. IInv /\ [Next]_vars =>
        [trap = "t3" /\ pc = "user" /\ pc' # "user" => fired]_vars
  <2> SUFFICES ASSUME IInv, [Next]_vars, trap = "t3", pc = "user", pc' # "user"
               PROVE  fired
    OBVIOUS
  <2>1. HandleT3
    BY WaysOut DEF SyscallExit
  <2> QED
    BY <2>1 DEF HandleT3, IInv, TimerInv
<1> QED
  BY <1>1, Invariance, PTL DEF Spec, KilledOnlyAfterTimeout

(* The return of run_file goes on, but for a jump, by RunFileReturns, and  *)
(* the loop of a sleep by SleepPoll.                                       *)
LEMMA WaysOn ==
    ASSUME TrapInv, [Next]_vars, pc' # pc, pc \in {"exited", "sleep_poll"}
    PROVE  \/ HandleT3
           \/ pc = "exited" /\ RunFileReturns
           \/ pc = "sleep_poll" /\ SleepPoll
<1> USE DEF vars, cpu
<1>1. ASSUME Kernel \/ Buttons
     PROVE  \/ pc = "exited" /\ RunFileReturns
            \/ pc = "sleep_poll" /\ SleepPoll
  BY <1>1 DEF Kernel, Buttons, Boot, Shortsleep, SetupInterrupts, SetupPeripherals,
     TimersSetup, Timer4On, Timer4Enable, DisplayInit, EnableInterrupts, KmainSetjmp,
     KmainResumed, StartSleep, SleepOff, SleepClear, SleepOn, SleepStop, SleepPoll,
     SleepAck, LoadFails, LoadSucceeds, RunFileSetjmp, ArmOff, ArmClear, ArmOn,
     ArmEnable, UsermodeJump, RunFileReturns, Wild, SelectProgram, LeaveResult,
     SetjmpBegin, SetjmpEnd, Sleep, Plain, Cpu
<1>2. ASSUME Hardware PROVE FALSE
  BY <1>2 DEF Hardware, T4Tick, T3Fire, ByteReceived, SetFlag
<1>3. ASSUME EnterInterrupt \/ EnterSyscall \/ EnterException PROVE FALSE
  BY <1>3 DEF EnterInterrupt, EnterSyscall, EnterException, Trap, TrapStep
<1>4. ASSUME Handler PROVE HandleT3
  BY <1>4 DEF TrapInv, Handler, InterruptHandler, HandleRx, HandleT4, NoT3, Eret,
     SyscallReturns, SyscallExit, ExceptionReturns, ExceptionNests, Trap, TrapStep
<1> QED
  BY <1>1, <1>2, <1>3, <1>4 DEF Next

(* A program that ran is reported: get_retval's mask keeps every status    *)
(* apart from the -1 of a load that failed.                                *)
THEOREM StatusReported == Spec => ExitReported
<1>1. IInv /\ [Next]_vars =>
        [pc = "exited" /\ pc' # "exited" /\ ~dead => pc' = "result"]_vars
  <2> SUFFICES ASSUME IInv, [Next]_vars, pc = "exited", pc' # "exited", ~dead
               PROVE  pc' = "result"
    OBVIOUS
  <2>1. ctx = "run_file" /\ ctxData \in 0..(U32 - 1)
    BY DEF IInv, ContextInv, RunFilePcs, TypeOK
  <2>2. CASE HandleT3
    BY <2>1, <2>2 DEF HandleT3, SysExit, EretLongjmp, Resumption
  <2>3. CASE RunFileReturns
    <3>1. GetRetval(ctxData) # MinusOne
      BY <2>1, Values
    <3> QED
      BY <2>3, <3>1 DEF RunFileReturns, Cpu
  <2> QED
    BY <2>2, <2>3, WaysOn DEF IInv
<1> QED
  BY <1>1, Invariance, PTL DEF Spec, ExitReported

(* The flag that ends a sleep was raised during that sleep.                *)
THEOREM SleepsLast == Spec => SleepWaits
<1>1. IInv /\ [Next]_vars =>
        [pc = "sleep_poll" /\ pc' = "sleep_stop" => fired]_vars
  <2> SUFFICES ASSUME IInv, [Next]_vars, pc = "sleep_poll", pc' = "sleep_stop"
               PROVE  fired
    OBVIOUS
  <2>1. CASE HandleT3
    BY <2>1 DEF HandleT3, IInv, TimerInv
  <2>2. CASE SleepPoll
    BY <2>2 DEF SleepPoll, IInv, TimerInv
  <2> QED
    BY <2>1, <2>2, WaysOn DEF IInv
<1> QED
  BY <1>1, Invariance, PTL DEF Spec, SleepWaits

(* No handler jumps through a kernel_ctx in which nothing was saved:       *)
(* control is lost only through a context half stored or a dead frame.     *)
THEOREM ContextSaved == Spec => JumpsNeedContext
<1>1. IInv /\ [Next]_vars => [pc # "wild" /\ pc' = "wild" => ctx = "torn" \/ dead]_vars
  <2> SUFFICES ASSUME IInv, [Next]_vars, pc # "wild", pc' = "wild"
               PROVE  ctx = "torn" \/ dead
    OBVIOUS
  <2> USE DEF vars, cpu
  <2>1. ctx \in {"none", "torn", "kmain", "run_file"}
    BY DEF IInv, TypeOK
  <2>2. CASE Kernel \/ Buttons
    BY <2>2 DEF Kernel, Buttons, Boot, Shortsleep, SetupInterrupts, SetupPeripherals,
       TimersSetup, Timer4On, Timer4Enable, DisplayInit, EnableInterrupts, KmainSetjmp,
       KmainResumed, StartSleep, SleepOff, SleepClear, SleepOn, SleepStop, SleepPoll,
       SleepAck, LoadFails, LoadSucceeds, RunFileSetjmp, ArmOff, ArmClear, ArmOn,
       ArmEnable, UsermodeJump, RunFileReturns, Wild, SelectProgram, LeaveResult,
       SetjmpBegin, SetjmpEnd, Sleep, Plain, Cpu
  <2>3. CASE HandleT3
    <3>1. ctx # "none"
      BY <2>3 DEF HandleT3, IInv, BootInv, ContextInv
    <3> QED
      BY <2>1, <2>3, <3>1 DEF HandleT3, SysExit, EretLongjmp, Resumption
  <2>4. CASE SyscallExit
    <3>1. ctx = "run_file"
      BY <2>4 DEF SyscallExit, IInv, TrapInv, ContextInv, RunFilePcs
    <3> QED
      BY <2>4, <3>1 DEF SyscallExit, SysExit, EretLongjmp, Resumption
  <2>5. pc' # pc
    OBVIOUS
  <2>6. ~(Hardware \/ EnterInterrupt \/ EnterSyscall \/ EnterException)
    BY <2>5 DEF Hardware, T4Tick, T3Fire, ByteReceived, SetFlag, EnterInterrupt,
       EnterSyscall, EnterException, Trap, TrapStep
  <2>7. Handler => HandleT3 \/ SyscallExit
    BY <2>5 DEF Handler, InterruptHandler, HandleRx, HandleT4, NoT3, Eret,
       SyscallReturns, ExceptionReturns, ExceptionNests, Trap, TrapStep
  <2> QED
    BY <2>2, <2>3, <2>4, <2>5, <2>6, <2>7 DEF Next
<1> QED
  BY <1>1, Invariance, PTL DEF Spec, JumpsNeedContext

-----------------------------------------------------------------------------
(* What a trap does to registers and stack (TrapFrame).                    *)

\* The words of the frame are above the two that a handler with one parameter
\* may use, and no two registers share one.
LEMMA SlotsApart ==
    /\ Slot \in [Pad -> 2 .. 19]
    /\ \A q, r \in Pad : Slot[q] = Slot[r] => q = r
<1>1. Slot \in [Pad -> 2 .. 19]
  BY DEF Slot, Pad, Temporaries
<1>2. \A q, r \in Pad : Slot[q] = Slot[r] => q = r
  BY SMTT(60) DEF Slot, Pad, Temporaries
<1>3. QED
  BY <1>1, <1>2

-----------------------------------------------------------------------------
(* The inductive invariant: what is where while a trap is served.          *)

\* In the handler's part of an interrupt or an exception, the program's
\* registers are in the frame; HI and LO are in place during an interrupt.
PadInv ==
    /\ sp = before.sp - PadFrame
    /\ \A r \in Pad : stack[sp + Slot[r]] = before.regs[r]
    /\ \A w \in before.sp .. 1 : stack[w] = before.stack[w]
    /\ Same(CalleeSaved)
    /\ served = "interrupt" => Same(Arithmetic)

\* During a system call, the link is in the frame, as long as the handler has
\* not stored its parameters.
SyscallInv ==
    /\ sp = before.sp - SyscallFrame
    /\ phase = "handler" \/ ~noopt => stack[sp + LinkSlot] = before.regs["ra"]
    /\ \A w \in before.sp .. 1 : stack[w] = before.stack[w]
    /\ Same(CalleeSaved)

FrameInv ==
    /\ FrameTypeOK
    /\ phase = "program" => sp \in -Depth .. 0
    /\ phase # "program" => served # "none"
    /\ phase # "program" /\ served # "syscall" => PadInv
    /\ phase # "program" /\ served = "syscall" => SyscallInv
    /\ TrapsTransparent
    /\ SyscallTransparent

LEMMA WordsOfFrames ==
    ASSUME NEW s \in -Depth .. 0
    PROVE  /\ \A k \in 0 .. PadFrame - 1 : s - PadFrame + k \in Words
           /\ \A k \in 0 .. SyscallFrame - 1 : s - SyscallFrame + k \in Words
           /\ s .. 1 \subseteq Words
           /\ \A k \in 0 .. PadFrame - 1 : s - PadFrame + k < s
           /\ \A k \in 0 .. SyscallFrame - 1 : s - SyscallFrame + k < s
BY TrapAssumption DEF Words, Lowest, PadFrame, SyscallFrame

LEMMA InitFrame == FrameInit => FrameInv
BY TrapAssumption DEF FrameInit, FrameInv, FrameTypeOK, TrapsTransparent, SyscallTransparent, Words, Lowest,
   PadFrame, TrapKinds

LEMMA InterruptedFrame ==
    ASSUME FrameInv, NEW t \in {"interrupt", "exception"}, Interrupted(t)
    PROVE  FrameInv'
<1> USE DEF Interrupted, Trapped
<1>0. /\ sp \in -Depth .. 0 /\ regs \in [Registers -> Value] /\ stack \in [Words -> Value]
      /\ phase' = "handler" /\ served' = t /\ noopt' = noopt /\ noopt \in BOOLEAN
      /\ sp' = sp - PadFrame
      /\ before' = [regs |-> regs, sp |-> sp, stack |-> stack]
  BY DEF FrameInv, FrameTypeOK
<1> DEFINE At(r) == sp - PadFrame + Slot[r]
<1>1. \A r \in Pad : At(r) \in Words /\ At(r) < sp /\ stack'[At(r)] = regs[r]
  <2> SUFFICES ASSUME NEW r \in Pad PROVE At(r) \in Words /\ At(r) < sp /\ stack'[At(r)] = regs[r]
    OBVIOUS
  <2>1. At(r) \in Words /\ At(r) < sp
    BY <1>0, SlotsApart, WordsOfFrames DEF PadFrame
  <2>2. PICK q \in Pad : q = CHOOSE x \in Pad : At(r) = At(x)
    OBVIOUS
  <2>3. At(r) = At(q)
    BY <2>2
  <2>4. q = r
    BY <2>3, <1>0, SlotsApart DEF PadFrame
  <2> QED
    BY <2>1, <2>2, <2>4
<1>2. \A w \in sp .. 1 : w \in Words /\ stack'[w] = stack[w]
  <2> SUFFICES ASSUME NEW w \in sp .. 1 PROVE w \in Words /\ stack'[w] = stack[w]
    OBVIOUS
  <2>1. w \in Words
    BY <1>0, WordsOfFrames
  <2>2. ASSUME NEW r \in Pad PROVE w # At(r)
    <3>1. At(r) \in Int /\ At(r) < sp
      BY <1>1, TrapAssumption DEF Words, Lowest, PadFrame
    <3> HIDE DEF At
    <3> QED
      BY <3>1, <1>0
  <2> QED
    BY <2>1, <2>2
<1>3. stack' \in [Words -> Value]
  <2>1. \A r \in Pad : regs[r] \in Value
    BY <1>0 DEF Registers, CallerSaved, Pad
  <2> QED
    BY <2>1, <1>0
<1>4. regs' \in [Registers -> Value] /\ \A r \in CalleeSaved \cup Arithmetic : regs'[r] = regs[r]
  BY <1>0, TrapAssumption DEF Registers, CallerSaved, CalleeSaved, Arithmetic, Temporaries
<1>5. FrameTypeOK'
  BY <1>0, <1>3, <1>4, TrapAssumption DEF FrameInv, FrameTypeOK, TrapKinds, Lowest, PadFrame
<1>6. PadInv'
  <2>1. \A r \in Pad : stack'[sp' + Slot[r]] = (before').regs[r]
    BY <1>0, <1>1
  <2>2. \A w \in (before').sp .. 1 : stack'[w] = (before').stack[w]
    BY <1>0, <1>2
  <2>0. (before').regs = regs
    BY <1>0
  <2>3. \A r \in CalleeSaved \cup Arithmetic : regs'[r] = (before').regs[r]
    <3> HIDE DEF Interrupted, Trapped, At
    <3> QED
      BY <1>4, <2>0, Zenon
  <2>4. Same(CalleeSaved)' /\ Same(Arithmetic)'
    BY <2>3, Zenon DEF Same
  <2>5. sp' = (before').sp - PadFrame
    BY <1>0
  <2> HIDE DEF Interrupted, Trapped, At
  <2> QED
    BY <2>1, <2>2, <2>4, <2>5, Zenon DEF PadInv
<1> QED
  BY <1>0, <1>5, <1>6 DEF FrameInv, TrapsTransparent, SyscallTransparent

LEMMA SyscallFrameKept ==
    ASSUME FrameInv, Syscall
    PROVE  FrameInv'
<1> USE DEF Syscall, Trapped
<1>0. /\ sp \in -Depth .. 0 /\ regs \in [Registers -> Value] /\ stack \in [Words -> Value]
      /\ phase' = "handler" /\ served' = "syscall" /\ noopt' = noopt /\ noopt \in BOOLEAN
      /\ sp' = sp - SyscallFrame /\ regs' = regs
      /\ before' = [regs |-> regs, sp |-> sp, stack |-> stack]
  BY DEF FrameInv, FrameTypeOK
<1>1. /\ sp - SyscallFrame + LinkSlot \in Words
      /\ stack'[sp - SyscallFrame + LinkSlot] = regs["ra"]
      /\ \A w \in sp .. 1 : stack'[w] = stack[w]
  BY <1>0, WordsOfFrames DEF SyscallFrame, LinkSlot
<1>2. regs["ra"] \in Value
  BY <1>0 DEF Registers, CallerSaved
<1>3. FrameTypeOK'
  BY <1>0, <1>1, <1>2, TrapAssumption DEF FrameInv, FrameTypeOK, TrapKinds, Lowest, PadFrame, SyscallFrame
<1>4. SyscallInv'
  BY <1>0, <1>1 DEF SyscallInv, Same
<1> QED
  BY <1>0, <1>3, <1>4 DEF FrameInv, TrapsTransparent, SyscallTransparent

LEMMA HandlerFrame ==
    ASSUME FrameInv, HandlerRuns
    PROVE  FrameInv'
<1>0. /\ FrameTypeOK /\ phase = "handler" /\ phase' = "return" /\ served # "none"
      /\ UNCHANGED <<sp, served, before, noopt>>
  BY DEF HandlerRuns, FrameInv
<1>1. PICK set \in Clobbers, v \in Junk :
        regs' = [r \in Registers |-> IF r \in MayOverwrite(set) THEN v ELSE regs[r]]
  BY DEF HandlerRuns
<1>2. /\ regs' \in [Registers -> Value]
      /\ \A r \in CalleeSaved : regs'[r] = regs[r]
      /\ served = "interrupt" => \A r \in Arithmetic : regs'[r] = regs[r]
  BY <1>0, <1>1, TrapAssumption DEF FrameTypeOK, MayOverwrite, Arithmetic, CalleeSaved, CallerSaved,
     Registers, Temporaries
<1>3. \A w \in Words \ Homes : stack'[w] = stack[w]
  BY DEF HandlerRuns
<1>4. stack' \in [Words -> Value]
  <2>1. \A w \in Homes : regs[<<"a0", "a1", "a2", "a3">>[w - sp + 1]] \in Value
    <3> SUFFICES ASSUME NEW w \in Homes
                 PROVE  <<"a0", "a1", "a2", "a3">>[w - sp + 1] \in Registers
      BY <1>0 DEF FrameTypeOK
    <3>1. w - sp + 1 \in 1 .. 4
      BY <1>0 DEF FrameTypeOK, Homes, Parameters, Lowest, PadFrame
    <3> QED
      BY <3>1 DEF Registers, CallerSaved, Temporaries
  <2> QED
    BY <2>1, <1>0 DEF HandlerRuns, FrameTypeOK
<1>5. FrameTypeOK'
  BY <1>0, <1>2, <1>4 DEF FrameTypeOK
<1>6. before.sp \in -Depth .. 0
  BY <1>0 DEF FrameTypeOK
<1>7. CASE served # "syscall"
  <2>1. PadInv
    BY <1>0, <1>7 DEF FrameInv
  <2>2. Homes \subseteq {sp}
    BY <1>7, <1>0 DEF Homes, Parameters, FrameTypeOK, Lowest, PadFrame
  <2>3. \A r \in Pad : sp + Slot[r] \in Words /\ sp + Slot[r] # sp
    BY <2>1, <1>6, SlotsApart, WordsOfFrames DEF PadInv, PadFrame
  <2>4. \A w \in before.sp .. 1 : w \in Words /\ w # sp
    BY <2>1, <1>6, WordsOfFrames DEF PadInv, PadFrame
  <2>5. PadInv'
    BY <2>1, <2>2, <2>3, <2>4, <1>0, <1>2, <1>3 DEF PadInv, Same
  <2> QED
    BY <2>5, <1>0, <1>5, <1>7 DEF FrameInv, TrapsTransparent, SyscallTransparent
<1>8. CASE served = "syscall"
  <2>1. SyscallInv
    BY <1>0, <1>8 DEF FrameInv
  <2>2. /\ \A w \in before.sp .. 1 : w \in Words \ Homes
        /\ sp + LinkSlot \in Words
    BY <2>1, <1>6, <1>8, WordsOfFrames DEF SyscallInv, SyscallFrame, Homes, Parameters, LinkSlot
  <2>3. noopt \/ Homes = {}
    BY DEF Homes
  <2>4. SyscallInv'
    BY <2>1, <2>2, <2>3, <1>0, <1>2, <1>3 DEF SyscallInv, Same
  <2> QED
    BY <2>4, <1>0, <1>5, <1>8 DEF FrameInv, TrapsTransparent, SyscallTransparent
<1> QED
  BY <1>7, <1>8

LEMMA ReturnFrame ==
    ASSUME FrameInv, Return
    PROVE  FrameInv'
<1>0. /\ FrameTypeOK /\ phase = "return" /\ phase' = "program" /\ served # "none"
      /\ UNCHANGED <<stack, served, before, noopt>>
      /\ sp' = sp + Frame
  BY DEF Return, FrameInv
<1>1. before.sp \in -Depth .. 0 /\ before.regs \in [Registers -> Value]
  BY <1>0 DEF FrameTypeOK
<1>2. CASE served # "syscall"
  <2>1. PadInv
    BY <1>0, <1>2 DEF FrameInv
  <2>2. regs' = [r \in Registers |-> IF r \in Pad THEN stack[sp + Slot[r]] ELSE regs[r]]
    BY <1>2 DEF Return, Restored
  <2>3. \A r \in Pad : regs'[r] = before.regs[r]
    BY <2>1, <2>2 DEF PadInv, Pad, Registers, CallerSaved
  <2>4. \A r \in Registers \ Pad : regs'[r] = regs[r]
    BY <2>2
  <2>5. regs' \in [Registers -> Value]
    BY <1>0, <1>1, <2>2, <2>3, <2>4 DEF FrameTypeOK
  <2>6. sp' = before.sp
    BY <2>1, <1>0, <1>1, <1>2 DEF PadInv, Frame, PadFrame
  <2>7. /\ Same(Pad)' /\ Same(CalleeSaved)'
        /\ served = "interrupt" => Same(Arithmetic)'
    BY <2>1, <2>3, <2>4, <1>0 DEF PadInv, Same, Pad, Registers, CalleeSaved, CallerSaved, Temporaries, Arithmetic
  <2>8. Registers = Pad \cup CalleeSaved \cup Arithmetic
    BY DEF Pad, Registers, CalleeSaved, CallerSaved, Temporaries, Arithmetic
  <2>9. TrapsTransparent'
    BY <2>1, <2>6, <2>7, <2>8, <1>0 DEF TrapsTransparent, OwnStackKept, Same, PadInv
  <2>10. FrameTypeOK'
    BY <2>5, <2>6, <1>0, <1>1, TrapAssumption DEF FrameTypeOK, Lowest, PadFrame
  <2> QED
    BY <2>6, <2>9, <2>10, <1>0, <1>1, <1>2 DEF FrameInv, SyscallTransparent
<1>3. CASE served = "syscall"
  <2>1. SyscallInv
    BY <1>0, <1>3 DEF FrameInv
  <2>2. regs' = [r \in Registers |-> IF r = "ra" THEN stack[sp + LinkSlot] ELSE regs[r]]
    BY <1>3 DEF Return
  <2>3. stack[sp + LinkSlot] \in Value
    BY <2>1, <1>0, <1>1, WordsOfFrames DEF SyscallInv, SyscallFrame, LinkSlot, FrameTypeOK
  <2>4. regs' \in [Registers -> Value]
    BY <2>2, <2>3, <1>0 DEF FrameTypeOK
  <2>5. sp' = before.sp
    BY <2>1, <1>0, <1>1, <1>3 DEF SyscallInv, Frame, SyscallFrame
  <2>6. Same(CalleeSaved)' /\ (noopt \/ Same({"ra"})')
    BY <2>1, <2>2, <1>0 DEF SyscallInv, Same, Registers, CalleeSaved, CallerSaved
  <2>7. SyscallTransparent'
    BY <2>1, <2>5, <2>6, <1>0 DEF SyscallTransparent, OwnStackKept, SyscallInv
  <2>8. FrameTypeOK'
    BY <2>4, <2>5, <1>0, <1>1, TrapAssumption DEF FrameTypeOK, Lowest, PadFrame
  <2> QED
    BY <2>5, <2>7, <2>8, <1>0, <1>1, <1>3 DEF FrameInv, TrapsTransparent
<1> QED
  BY <1>2, <1>3

LEMMA ProgramFrame ==
    ASSUME FrameInv, Push \/ Pop
    PROVE  FrameInv'
<1>0. FrameTypeOK /\ phase = "program" /\ phase' = "program" /\ served' = "none" /\ sp \in -Depth .. 0
      /\ UNCHANGED <<regs, before, noopt>>
  BY DEF Push, Pop, FrameInv
<1>1. sp' \in -Depth .. 0
  BY <1>0, TrapAssumption DEF Push, Pop
<1>2. stack' \in [Words -> Value]
  BY <1>0, TrapAssumption DEF Push, Pop, FrameTypeOK
<1>3. FrameTypeOK'
  BY <1>0, <1>1, <1>2, TrapAssumption DEF FrameTypeOK, Lowest, PadFrame
<1> QED
  BY <1>0, <1>1, <1>3 DEF FrameInv, TrapsTransparent, SyscallTransparent

LEMMA StutterFrame == FrameInv /\ UNCHANGED framevars => FrameInv'
BY DEF FrameInv, framevars, FrameTypeOK, TrapsTransparent, SyscallTransparent, PadInv, SyscallInv, Same, OwnStackKept

-----------------------------------------------------------------------------

\* The inductive invariant of TrapFrame: the frames of irq.S hold what was taken
\* for as long as the handlers run.
THEOREM TrapInvariance == FrameSpec => []FrameInv
<1>1. FrameInv /\ [FrameNext]_framevars => FrameInv'
  BY InterruptedFrame, SyscallFrameKept, HandlerFrame, ReturnFrame, ProgramFrame, StutterFrame DEF FrameNext
<1> QED
  BY <1>1, InitFrame, PTL DEF FrameSpec

\* Registers, stack pointer and stack keep their types: no frame reaches out of
\* the stack of a program that pushes at most Depth words.
THEOREM TrapTypes == FrameSpec => []FrameTypeOK
<1>1. FrameInv => FrameTypeOK
  BY DEF FrameInv
<1> QED
  BY <1>1, TrapInvariance, PTL

\* Interrupts are invisible to what they interrupt, and exceptions change HI and
\* LO at most (irq.S:98-183).
THEOREM TrapsInvisible == FrameSpec => []TrapsTransparent
<1>1. FrameInv => TrapsTransparent
  BY DEF FrameInv
<1> QED
  BY <1>1, TrapInvariance, PTL

\* System calls return where they were called, with the caller's registers
\* (irq.S:49-72).
THEOREM SyscallsReturn == FrameSpec => []SyscallTransparent
<1>1. FrameInv => SyscallTransparent
  BY DEF FrameInv
<1> QED
  BY <1>1, TrapInvariance, PTL
=============================================================================
