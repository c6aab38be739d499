------------------------------- MODULE I2cBus -------------------------------
(***************************************************************************)
(* What i2c_start, i2c_restart, i2c_stop, i2c_send and i2c_receive promise *)
(* their callers (kernel/include/i2c.h).  The wires do one thing at a time.*)
(* A call does its own thing on the wires, once, and returns when that is  *)
(* over: a send with the acknowledge of its own byte, a receive with the   *)
(* byte it received, while the acknowledge it asked for may still go on.   *)
(*                                                                         *)
(* A call can be abandoned: a trap handler that leaves by a jump.  Nothing *)
(* is then undone: the wires finish what was begun, and a byte received    *)
(* for the abandoned call is what a later receive returns.                 *)
(***************************************************************************)
CONSTANTS
    Byte,   \* the values of a byte
    None    \* no value

VARIABLES
    open,    \* i2c_start was called, and i2c_stop was not yet
    op,      \* the call in progress, or "none"
    ack,     \* the acknowledge that a receive is asked to give
    phase,   \* what it has done: "called", "begun", "answering"
    wire,    \* what the wires are doing, or "idle"
    acked,   \* whether the last byte sent was acknowledged
    kept,    \* a byte received that no call has returned yet, or None
    result   \* what the last call returned

avars == <<open, op, ack, phase, wire, acked, kept, result>>

Conditions == {"start", "restart", "stop"}
Ops == Conditions \cup {"send", "receive"}

AInit == /\ open = FALSE /\ op = "none" /\ ack = FALSE /\ phase = "called" /\ wire = "idle"
         /\ acked = TRUE /\ kept = None /\ result = None

(* i2c.c:87, "Must be called after starting transmission with i2c_start".  *)
ACall == /\ op = "none" /\ phase' = "called"
         /\ op' \in (IF open THEN Ops ELSE {"start"})
         /\ open' = (op' # "stop")
         /\ IF op' = "receive" THEN ack' \in BOOLEAN ELSE ack' = ack
         /\ UNCHANGED <<wire, acked, kept, result>>

AReturns(value) == /\ op' = "none" /\ phase' = "called" /\ result' = value
                   /\ UNCHANGED <<open, ack, wire, acked>>

(* A receive that finds a byte returns it and leaves the wires alone.      *)
AReturnKept == /\ op = "receive" /\ phase = "called" /\ kept # None
               /\ AReturns(kept) /\ kept' = None

ABegin == /\ op # "none" /\ phase = "called" /\ wire = "idle"
          /\ (op = "receive" => kept = None)
          /\ phase' = "begun" /\ wire' = op
          /\ UNCHANGED <<open, op, ack, acked, kept, result>>

(* The wires finish; the far end, if there is one, acknowledges a byte     *)
(* sent or not, and gives any byte.                                        *)
AFinish == /\ wire # "idle" /\ wire' = "idle"
           /\ IF wire = "send" THEN acked' \in BOOLEAN ELSE acked' = acked
           /\ IF wire = "receive" THEN kept' \in Byte ELSE kept' = kept
           /\ UNCHANGED <<open, op, ack, phase, result>>

AReturn == /\ op \in Ops \ {"receive"} /\ phase = "begun" /\ wire = "idle"
           /\ AReturns(IF op = "send" THEN acked ELSE result)
           /\ kept' = kept

AAnswer == /\ op = "receive" /\ phase = "begun" /\ wire = "idle"
           /\ phase' = "answering" /\ wire' = (IF ack THEN "ack" ELSE "nack")
           /\ UNCHANGED <<open, op, ack, acked, kept, result>>

AReturnByte == /\ op = "receive" /\ phase = "answering" /\ kept # None
               /\ AReturns(kept) /\ kept' = None

AAbandon == /\ op # "none" /\ op' = "none" /\ phase' = "called" /\ open' = FALSE
            /\ UNCHANGED <<ack, wire, acked, kept, result>>

ASetup == /\ open' = FALSE /\ op' = "none" /\ ack' = FALSE /\ phase' = "called"
          /\ wire' = "idle" /\ acked' = TRUE /\ kept' = None /\ result' = None

ANext == \/ ACall \/ AReturnKept \/ ABegin \/ AFinish \/ AReturn \/ AAnswer
         \/ AReturnByte \/ AAbandon \/ ASetup

Bus == AInit /\ [][ANext]_avars
=============================================================================
