----------------------------- MODULE TrapFrame ------------------------------
(***************************************************************************)
(* The registers and the stack across a trap (irq.S): what the landing pad *)
(* of interrupts and exceptions saves and restores, what the entry of the  *)
(* system calls does, and what the C handlers may change in between under  *)
(* the calling convention (o32): every caller-saved register, and of the   *)
(* caller's frame the home slots of the handler's own parameters.          *)
(*                                                                         *)
(* Traps run on the stack of the code they interrupt, with EXL set, so no  *)
(* interrupt nests.  Traps whose handler leaves by a jump do not return    *)
(* here (KernelControl models them).  Words of the stack are numbered from *)
(* the stack pointer of the program's entry, downwards below 0.            *)
(***************************************************************************)
EXTENDS Integers

CONSTANTS
    Depth,      \* bound: words the program itself pushes
    Pushed,     \* the registers it pushes
    Clobbers,   \* sets of registers that a handler overwrites
    Starts,     \* the registers of programs
    Value,      \* what a register or a word of the stack may hold
    Junk        \* what the kernel leaves in them

Temporaries == {"at", "v0", "v1", "a0", "a1", "a2", "a3",
                "t0", "t1", "t2", "t3", "t4", "t5", "t6", "t7", "t8", "t9"}
CallerSaved == Temporaries \cup {"ra", "hi", "lo"}
CalleeSaved == {"s0", "s1", "s2", "s3", "s4", "s5", "s6", "s7", "s8", "gp"}
Registers == CallerSaved \cup CalleeSaved           \* k0 and k1 belong to the kernel
PadFrame == 20                                      \* addi $sp, $sp, -80
SyscallFrame == 4                                   \* addi $sp, $sp, -0x10
Lowest == -(Depth + PadFrame)
Words == Lowest .. 1

ASSUME TrapAssumption ==
    /\ Depth \in Nat
    /\ Clobbers \subseteq SUBSET CallerSaved
    /\ Pushed \subseteq Registers
    /\ Starts \subseteq [Registers -> Value]
    /\ Junk \subseteq Value

VARIABLES
    regs,       \* the registers
    sp,         \* the stack pointer
    stack,      \* the words of the stack
    phase,      \* "program", "handler" or "return"
    served,     \* the trap that is, or was last, served
    before,     \* history: registers, stack pointer and stack when it came
    noopt       \* the kernel is built with NOOPT=1 (kernel/Makefile:60)
framevars == <<regs, sp, stack, phase, served, before, noopt>>

TrapKinds == {"interrupt", "exception", "syscall"}

----------------------------------------------------------------------------
(* The frame of the landing pad: which register is stored in which word.    *)

Pad == {"ra"} \cup Temporaries
Slot == [r \in Pad |->
    IF r = "ra" THEN 19 ELSE IF r = "at" THEN 18
    ELSE IF r = "t9" THEN 17 ELSE IF r = "t8" THEN 16 ELSE IF r = "t7" THEN 15
    ELSE IF r = "t6" THEN 14 ELSE IF r = "t5" THEN 13 ELSE IF r = "t4" THEN 12
    ELSE IF r = "t3" THEN 11 ELSE IF r = "t2" THEN 10 ELSE IF r = "t1" THEN 9
    ELSE IF r = "t0" THEN 8 ELSE IF r = "a3" THEN 7 ELSE IF r = "a2" THEN 6
    ELSE IF r = "a1" THEN 5 ELSE IF r = "a0" THEN 4 ELSE IF r = "v1" THEN 3 ELSE 2]

\* sw $ra, 8($sp) of _syscall; the mutant, 16($sp), a word of the program.
LinkSlotAbove == 4
LinkSlot == 2

Frame == IF served = "syscall" THEN SyscallFrame ELSE PadFrame

----------------------------------------------------------------------------
(* Entry. *)

Trapped(t) ==
    /\ phase = "program"
    /\ phase' = "handler"
    /\ served' = t
    /\ before' = [regs |-> regs, sp |-> sp, stack |-> stack]
    /\ UNCHANGED noopt

\* isr_trampoline or _gen_exception, then _trap_landing_pad.  The interrupt's
\* number or the cause goes to a0, the kind of trap to at.
Interrupted(t) ==
    /\ Trapped(t)
    /\ sp' = sp - PadFrame
    /\ stack' = [w \in Words |-> IF \E r \in Pad : w = sp - PadFrame + Slot[r]
                                 THEN regs[CHOOSE r \in Pad : w = sp - PadFrame + Slot[r]]
                                 ELSE stack[w]]
    /\ \E kind, number \in Junk :
          regs' = [regs EXCEPT !["at"] = kind, !["a0"] = number]

\* _gen_exception for a system call: only ra is saved; the caller of the
\* library's syscall has saved what it needs.
Syscall ==
    /\ Trapped("syscall")
    /\ sp' = sp - SyscallFrame
    /\ stack' = [stack EXCEPT ![sp - SyscallFrame + LinkSlot] = regs["ra"]]
    /\ UNCHANGED regs

----------------------------------------------------------------------------
(* The C handlers. *)

\* The home slots a handler stores its parameters to: none in an optimised
\* build, those of all of its parameters otherwise.  interrupt_handler and
\* exception_handler have one, syscall_handler four.
Parameters == IF served = "syscall" THEN 4 ELSE 1
Homes == IF noopt THEN {sp + k : k \in 0 .. Parameters - 1} ELSE {}

\* interrupt_handler neither multiplies nor divides when it returns;
\* exception_handler prints, and may.
Arithmetic == {"hi", "lo"}
MayOverwrite(set) == IF served = "interrupt" THEN set \ Arithmetic ELSE set

HandlerRuns ==
    /\ phase = "handler"
    /\ \E set \in Clobbers, v \in Junk :
          regs' = [r \in Registers |-> IF r \in MayOverwrite(set) THEN v ELSE regs[r]]
    /\ stack' = [w \in Words |->
                    IF w \in Homes THEN regs[<<"a0", "a1", "a2", "a3">>[w - sp + 1]]
                    ELSE stack[w]]
    /\ phase' = "return"
    /\ UNCHANGED <<sp, served, before, noopt>>

----------------------------------------------------------------------------
(* Return. *)

\* _continue restores what the landing pad saved; the end of _syscall restores
\* ra.  The mutant restores one register too few.
RestoredButAt == Pad \ {"at"}
Restored == Pad

Return ==
    /\ phase = "return"
    /\ regs' = [r \in Registers |->
                   IF served = "syscall"
                   THEN IF r = "ra" THEN stack[sp + LinkSlot] ELSE regs[r]
                   ELSE IF r \in Restored THEN stack[sp + Slot[r]] ELSE regs[r]]
    /\ sp' = sp + Frame
    /\ phase' = "program"
    /\ UNCHANGED <<stack, served, before, noopt>>

----------------------------------------------------------------------------
(* The program between traps (any code): it pushes registers and pops.      *)

Push ==
    /\ phase = "program" /\ sp > -Depth
    /\ sp' = sp - 1
    /\ \E r \in Pushed : stack' = [stack EXCEPT ![sp - 1] = regs[r]]
    /\ served' = "none"
    /\ UNCHANGED <<regs, phase, before, noopt>>

Pop ==
    /\ phase = "program" /\ sp < 0
    /\ sp' = sp + 1
    /\ served' = "none"
    /\ UNCHANGED <<regs, stack, phase, before, noopt>>

----------------------------------------------------------------------------

FrameInit ==
    /\ regs \in Starts
    /\ sp = 0
    /\ stack \in {[w \in Words |-> v] : v \in Junk}
    /\ phase = "program" /\ served = "none"
    /\ before = [regs |-> regs, sp |-> sp, stack |-> stack]
    /\ noopt \in BOOLEAN

FrameNext ==
    \/ \E t \in {"interrupt", "exception"} : Interrupted(t)
    \/ Syscall
    \/ HandlerRuns \/ Return
    \/ Push \/ Pop

FrameSpec == FrameInit /\ [][FrameNext]_framevars

----------------------------------------------------------------------------
(* Correctness. *)

FrameTypeOK ==
    /\ {regs, before.regs} \subseteq [Registers -> Value]
    /\ {stack, before.stack} \subseteq [Words -> Value]
    /\ sp \in Lowest .. 0 /\ before.sp \in -Depth .. 0
    /\ phase \in {"program", "handler", "return"}
    /\ served \in TrapKinds \cup {"none"}
    /\ noopt \in BOOLEAN

Same(set) == \A r \in set : regs[r] = before.regs[r]
OwnStackKept == sp = before.sp /\ \A w \in sp .. 1 : stack[w] = before.stack[w]

\* An interrupt is invisible to the code it interrupts: every register, the
\* stack pointer and all the words of its stack are as before, though the
\* frame keeps v0 and v1 in words that belong to the handler as its third and
\* fourth home slots (irq.S:126-127) and HI and LO are not saved.  An exception
\* the program goes on after changes at most HI and LO.
TrapsTransparent ==
    phase = "program" /\ served \in {"interrupt", "exception"} =>
        /\ Same(Registers \ (IF served = "interrupt" THEN {} ELSE Arithmetic))
        /\ OwnStackKept

\* A system call returns to its caller with the callee-saved registers, the
\* stack pointer and the stack it had, in an optimised kernel: ra is kept in
\* the home slot of syscall_handler's third parameter, 8($sp) of a frame of 16
\* bytes (irq.S:53-54), where a build with NOOPT=1 stores that parameter.
SyscallTransparent ==
    phase = "program" /\ served = "syscall" =>
        /\ Same(CalleeSaved)
        /\ OwnStackKept
        /\ noopt \/ Same({"ra"})
=============================================================================
