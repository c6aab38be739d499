------------------------------ MODULE I2cMaster ------------------------------
(***************************************************************************)
(* The I2C master (kernel/src/i2c.c) on the registers of the PIC32's I2C1  *)
(* module.  A call waits until the module is ready, clears the interrupt   *)
(* flag of master events, sets a bit of I2C1CON or writes I2C1TRN, and     *)
(* waits for the flag or, in i2c_receive, for the receive buffer.  The     *)
(* module works on its own: it clears the bit when it is done and raises   *)
(* the flag, for the acknowledge it sends after i2c_receive as well.       *)
(***************************************************************************)
CONSTANTS
    Byte,   \* the values of a byte
    None    \* no value

ASSUME NoneAssumption == None \notin Byte

VARIABLES
    pc,        \* the caller's place in the function, or "idle"
    call,      \* the function called
    ack,       \* i2c_receive's argument
    open,      \* history: i2c_start was called, and i2c_stop was not yet
    con,       \* the bits of I2C1CON that are set while the module works
    ackdt,     \* I2C1CON.ACKDT: the acknowledge to send is a NACK
    tbf,       \* I2C1STAT.TBF: a byte is in I2C1TRN
    trstat,    \* I2C1STAT.TRSTAT: it is being sent
    nacked,    \* I2C1STAT.ACKSTAT: it was not acknowledged
    rcv,       \* I2C1RCV, None when I2C1STAT.RBF is clear
    flag,      \* IFS0.I2C1M
    result     \* what the last call returned

program == <<pc, call, ack, open>>
control == <<con, ackdt>>
status  == <<tbf, trstat, nacked, rcv>>
vars    == <<program, control, status, flag, result>>

Enables == [start |-> "SEN", restart |-> "RSEN", stop |-> "PEN"]
Conditions == DOMAIN Enables
Calls == Conditions \cup {"send", "receive"}
Pcs == {"idle", "enter", "ready", "clear", "begin", "event", "ack",
        "answer_ready", "ackdt", "acken", "take"}

TypeOK == /\ pc \in Pcs /\ call \in Calls /\ ack \in BOOLEAN /\ open \in BOOLEAN
          /\ con \subseteq {"SEN", "RSEN", "PEN", "RCEN", "ACKEN"}
          /\ ackdt \in BOOLEAN /\ tbf \in BOOLEAN /\ trstat \in BOOLEAN
          /\ nacked \in BOOLEAN /\ rcv \in Byte \cup {None}
          /\ flag \in BOOLEAN /\ result \in Byte \cup BOOLEAN \cup {None}

(* i2c_setup at boot.                                                      *)
Init == /\ pc = "idle" /\ call = "start" /\ ack = FALSE /\ open = FALSE
        /\ con = {} /\ ackdt = FALSE
        /\ tbf = FALSE /\ trstat = FALSE /\ nacked = FALSE /\ rcv = None
        /\ flag = FALSE /\ result = None

-----------------------------------------------------------------------------
(* The module.                                                             *)

(* A START, STOP or acknowledge has been sent.                             *)
ConditionDone == /\ con \cap {"SEN", "RSEN", "PEN", "ACKEN"} # {}
                 /\ con' = con \cap {"RCEN"}
                 /\ flag' = TRUE
                 /\ UNCHANGED <<program, ackdt, status, result>>

ByteShifted == /\ tbf /\ tbf' = FALSE
               /\ UNCHANGED <<program, control, trstat, nacked, rcv, flag, result>>

(* The ninth clock; without a device on the bus nobody acknowledges.       *)
ByteSent == /\ trstat /\ ~tbf
            /\ trstat' = FALSE /\ nacked' \in BOOLEAN
            /\ flag' = TRUE
            /\ UNCHANGED <<program, control, tbf, rcv, result>>

(* A byte that arrives while I2C1RCV holds one is dropped.                 *)
ByteReceived == /\ "RCEN" \in con
                /\ con' = con \ {"RCEN"}
                /\ IF rcv = None THEN rcv' \in Byte ELSE rcv' = rcv
                /\ flag' = TRUE
                /\ UNCHANGED <<program, ackdt, tbf, trstat, nacked, result>>

Module == ConditionDone \/ ByteShifted \/ ByteSent \/ ByteReceived

-----------------------------------------------------------------------------
(* The calls.                                                              *)

Goto(from, to) == pc = from /\ pc' = to /\ UNCHANGED <<call, ack, open>>

Call == /\ pc = "idle"
        /\ call' \in (IF open THEN Calls ELSE {"start"})
        /\ pc' = IF call' = "receive" THEN "enter" ELSE "ready"
        /\ IF call' = "receive" THEN ack' \in BOOLEAN ELSE ack' = ack
        /\ open' = (call' # "stop")
        /\ UNCHANGED <<control, status, flag, result>>

Return(from, value) == /\ pc = from /\ pc' = "idle" /\ UNCHANGED <<call, ack, open>>
                       /\ result' = value

(* i2c_receive: if there's data in the receive buffer, use it.             *)
TakeKept == /\ rcv # None
            /\ Return("enter", rcv) /\ rcv' = None
            /\ UNCHANGED <<control, tbf, trstat, nacked, flag>>

NothingKept == /\ rcv = None
               /\ Goto("enter", "ready")
               /\ UNCHANGED <<control, status, flag, result>>

ReadyEmpty ==   \* mutant: the receive buffer is waited for as well
    con = {} /\ ~trstat /\ rcv = None /\ (call = "send" => ~tbf)

ReadyUnchecked == call = "send" => ~tbf   \* mutant: I2C1CON and TRSTAT are not looked at

Ready == con = {} /\ ~trstat /\ (call = "send" => ~tbf)

(* _wait_until_ready                                                       *)
WaitUntilReady == /\ Ready
                  /\ Goto("ready", IF call = "receive" THEN "begin" ELSE "clear")
                  /\ UNCHANGED <<control, status, flag, result>>

ClearForgotten == /\ Goto("clear", "begin")   \* mutant: no IFSCLR
                  /\ UNCHANGED <<control, status, flag, result>>

Clear == /\ Goto("clear", "begin")
         /\ flag' = FALSE
         /\ UNCHANGED <<control, status, result>>

Begin == \/ /\ call \in Conditions /\ Goto("begin", "event")
            /\ con' = con \cup {Enables[call]}
            /\ UNCHANGED <<ackdt, status, flag, result>>
         \/ /\ call = "send" /\ Goto("begin", "event")
            /\ tbf' = TRUE /\ trstat' = TRUE
            /\ UNCHANGED <<control, nacked, rcv, flag, result>>
         \/ /\ call = "receive" /\ Goto("begin", "event")
            /\ con' = con \cup {"RCEN"}
            /\ UNCHANGED <<ackdt, status, flag, result>>

(* _wait_and_clear_if: the wait, then IFSCLR.                              *)
Event == /\ flag /\ call # "receive" /\ Goto("event", "ack")
         /\ UNCHANGED <<control, status, flag, result>>

Finish == /\ Return("ack", IF call = "send" THEN ~nacked ELSE result)
          /\ flag' = FALSE
          /\ UNCHANGED <<control, status>>

(* i2c_receive waits for its byte, not for the flag, then answers.         *)
ByteThere == /\ call = "receive" /\ rcv # None
             /\ Goto("event", "answer_ready")
             /\ UNCHANGED <<control, status, flag, result>>

AnswerReady == /\ Ready /\ Goto("answer_ready", "ackdt")
               /\ UNCHANGED <<control, status, flag, result>>

AckDt == /\ Goto("ackdt", "acken")
         /\ ackdt' = ~ack
         /\ UNCHANGED <<con, status, flag, result>>

AckEn == /\ Goto("acken", "take")
         /\ con' = con \cup {"ACKEN"}
         /\ UNCHANGED <<ackdt, status, flag, result>>

Take == /\ Return("take", rcv) /\ rcv' = None
        /\ UNCHANGED <<control, tbf, trstat, nacked, flag>>

Program == \/ TakeKept \/ NothingKept \/ WaitUntilReady \/ Clear \/ Begin \/ Event
           \/ Finish \/ ByteThere \/ AnswerReady \/ AckDt \/ AckEn \/ Take

(* timers_handle_t3 jumps away in the middle of a call.                    *)
Abandon == /\ pc # "idle" /\ pc' = "idle" /\ open' = FALSE
           /\ UNCHANGED <<call, ack, control, status, flag, result>>

(* The board is reset, and boot calls i2c_setup.                           *)
Setup == /\ pc' = "idle" /\ call' = "start" /\ ack' = FALSE /\ open' = FALSE
         /\ con' = {} /\ ackdt' = FALSE
         /\ tbf' = FALSE /\ trstat' = FALSE /\ nacked' = FALSE /\ rcv' = None
         /\ flag' = FALSE /\ result' = None

Next == Module \/ Call \/ Program \/ Abandon \/ Setup

Spec == Init /\ [][Next]_vars

(* The module does what it was told, and the code runs.                    *)
FairSpec == Spec /\ WF_vars(Module) /\ WF_vars(Program)

-----------------------------------------------------------------------------
(* The refinement of I2cBus: what the registers mean on the wires.         *)

WireOf == IF trstat THEN "send"
          ELSE IF "SEN" \in con THEN "start"
          ELSE IF "RSEN" \in con THEN "restart"
          ELSE IF "PEN" \in con THEN "stop"
          ELSE IF "RCEN" \in con THEN "receive"
          ELSE IF "ACKEN" \in con THEN (IF ackdt THEN "nack" ELSE "ack")
          ELSE "idle"

PhaseOf == IF pc \in {"event", "ack", "answer_ready", "ackdt", "acken"} THEN "begun"
           ELSE IF pc = "take" THEN "answering" ELSE "called"

Wires == INSTANCE I2cBus WITH
    op <- IF pc = "idle" THEN "none" ELSE call,
    phase <- PhaseOf,
    wire <- WireOf,
    acked <- ~nacked,
    kept <- rcv

(* Every call does what I2cBus says: it acts on the wires once, alone, and *)
(* returns when that is over, although the flag it waits for is also       *)
(* raised by the acknowledge that i2c_receive leaves behind and by calls   *)
(* that were abandoned.                                                    *)
Bus == Wires!Bus

(* Every call returns, whether or not there is a device on the bus: all    *)
(* waits are for the module, none for the device.                          *)
CallsReturn == pc # "idle" ~> pc = "idle"

(* The module is never told to begin something while it is at something    *)
(* else, which it would ignore and whose end nobody would hear of.         *)
OneAtATime == (\A a, b \in con : a = b) /\ (trstat => con = {})
=============================================================================
