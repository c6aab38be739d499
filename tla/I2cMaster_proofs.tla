-------------------------- MODULE I2cMaster_proofs --------------------------
(***************************************************************************)
(* Proofs about I2cMaster: the module does one thing at a time, and every  *)
(* step of a call on its registers is a step of I2cBus or leaves the wires *)
(* as they are.  Both rest on Registers, which says what the registers     *)
(* hold at every place of a call, whatever was abandoned before it.        *)
(***************************************************************************)
EXTENDS I2cMaster, TLAPS

Free == con = {} /\ ~trstat

\* At most one thing at a time, and nothing of an abandoned call is left when a
\* call has waited until the module is ready.
Alone ==
    /\ con = {} \/ (\E bit \in {"SEN", "RSEN", "PEN", "RCEN", "ACKEN"} : con = {bit})
    /\ trstat => con = {}
    /\ tbf => trstat
    /\ pc \in {"clear", "begin", "ack", "ackdt", "acken"} => Free

\* The places of i2c_receive, and of the other calls.
Places ==
    /\ pc \in {"clear", "ack"} => call # "receive"
    /\ pc \in {"enter", "answer_ready", "ackdt", "acken", "take"} => call = "receive"
    /\ pc # "idle" /\ call # "stop" => open
    /\ pc = "acken" => ackdt = ~ack

\* The byte of a receive: none before it is asked for, and the one received from
\* then on.
ByteOf ==
    /\ "RCEN" \in con => \/ pc = "event" /\ call = "receive"
                         \/ ~open
                         \/ pc = "ready" /\ call = "start"
    /\ pc \in {"ready", "begin"} /\ call = "receive" => rcv = None
    /\ pc = "event" /\ call = "receive" => \/ con = {"RCEN"} /\ ~trstat /\ rcv = None
                                           \/ Free /\ rcv # None
    /\ pc \in {"answer_ready", "ackdt", "acken", "take"} => rcv # None

\* The flag that ends the wait of another call is that of its own event.
FlagOf ==
    /\ pc = "begin" /\ call # "receive" => ~flag
    /\ pc = "event" /\ call # "receive" =>
          \/ flag /\ Free
          \/ ~flag /\ call \in Conditions /\ con = {Enables[call]}
          \/ ~flag /\ call = "send" /\ trstat

Registers == Alone /\ Places /\ ByteOf /\ FlagOf

-----------------------------------------------------------------------------

\* TypeOK is inductive.
LEMMA TypeInvariance == Spec => []TypeOK
<1> USE DEF program, control, status
<1>1. Init => TypeOK
  BY DEF Init, TypeOK, Pcs, Calls, Conditions, Enables
<1>2. TypeOK /\ [Next]_vars => TypeOK'
  <2> SUFFICES ASSUME TypeOK, [Next]_vars PROVE TypeOK'
    OBVIOUS
  <2> USE DEF TypeOK, Pcs
  <2>0. Conditions = {"start", "restart", "stop"}
    BY DEF Conditions, Enables
  <2>1. ASSUME ConditionDone PROVE TypeOK'
    BY <2>1 DEF ConditionDone
  <2>2. ASSUME ByteShifted PROVE TypeOK'
    <3>1. tbf' \in BOOLEAN
      BY <2>2 DEF ByteShifted
    <3>2. UNCHANGED <<pc, call, ack, open, con, ackdt>> /\ UNCHANGED <<trstat, nacked, rcv, flag, result>>
      BY <2>2 DEF ByteShifted
    <3>3. /\ pc' \in Pcs /\ call' \in Calls /\ ack' \in BOOLEAN /\ open' \in BOOLEAN
          /\ con' \subseteq {"SEN", "RSEN", "PEN", "RCEN", "ACKEN"} /\ ackdt' \in BOOLEAN
      BY <3>2
    <3>4. /\ trstat' \in BOOLEAN /\ nacked' \in BOOLEAN /\ rcv' \in Byte \cup {None}
          /\ flag' \in BOOLEAN /\ result' \in Byte \cup BOOLEAN \cup {None}
      BY <3>2
    <3> QED
      BY <3>1, <3>3, <3>4
  <2>3. ASSUME ByteSent PROVE TypeOK'
    BY <2>3 DEF ByteSent
  <2>4. ASSUME ByteReceived PROVE TypeOK'
    BY <2>4 DEF ByteReceived
  <2>5. ASSUME Call PROVE TypeOK'
    BY <2>0, <2>5 DEF Call, Calls
  <2>6. ASSUME TakeKept PROVE TypeOK'
    BY <2>6 DEF TakeKept, Return
  <2>7. ASSUME NothingKept PROVE TypeOK'
    BY <2>7 DEF NothingKept, Goto
  <2>8. ASSUME WaitUntilReady PROVE TypeOK'
    BY <2>8 DEF WaitUntilReady, Goto
  <2>9. ASSUME Clear PROVE TypeOK'
    BY <2>9 DEF Clear, Goto
  <2>10. ASSUME Begin PROVE TypeOK'
    <3>1. ASSUME call \in Conditions PROVE Enables[call] \in {"SEN", "RSEN", "PEN"}
      BY <2>0, <3>1 DEF Enables
    <3> QED
      BY <2>10, <3>1 DEF Begin, Goto
  <2>11. ASSUME Event PROVE TypeOK'
    BY <2>11 DEF Event, Goto
  <2>12. ASSUME Finish PROVE TypeOK'
    <3>1. (~nacked) \in BOOLEAN
      OBVIOUS
    <3>2. result' = (~nacked) \/ result' = result
      BY <2>12 DEF Finish, Return
    <3>3. result' \in Byte \cup BOOLEAN \cup {None}
      BY <3>1, <3>2
    <3> QED
      BY <2>12, <3>3 DEF Finish, Return
  <2>13. ASSUME ByteThere PROVE TypeOK'
    BY <2>13 DEF ByteThere, Goto
  <2>14. ASSUME AnswerReady PROVE TypeOK'
    BY <2>14 DEF AnswerReady, Goto
  <2>15. ASSUME AckDt PROVE TypeOK'
    BY <2>15 DEF AckDt, Goto
  <2>16. ASSUME AckEn PROVE TypeOK'
    BY <2>16 DEF AckEn, Goto
  <2>17. ASSUME Take PROVE TypeOK'
    BY <2>17 DEF Take, Return
  <2>18. ASSUME Abandon PROVE TypeOK'
    BY <2>18 DEF Abandon
  <2>19. ASSUME Setup PROVE TypeOK'
    BY <2>0, <2>19 DEF Setup, Calls
  <2>20. ASSUME UNCHANGED vars PROVE TypeOK'
    BY <2>20 DEF vars
  <2> QED
    BY <2>1, <2>2, <2>3, <2>4, <2>5, <2>6, <2>7, <2>8, <2>9, <2>10, <2>11, <2>12, <2>13,
       <2>14, <2>15, <2>16, <2>17, <2>18, <2>19, <2>20 DEF Next, Module, Program
<1> QED
  BY <1>1, <1>2, PTL DEF Spec

\* Every step keeps Registers.
LEMMA RegistersSteps ==
    ASSUME TypeOK, Registers, [Next]_vars
    PROVE  Registers'
<1> USE DEF program, control, status, TypeOK, Registers, Alone, Places, ByteOf, FlagOf, Free
<1>0. /\ Conditions = {"start", "restart", "stop"} /\ None \notin Byte
      /\ Calls = {"start", "restart", "stop", "send", "receive"}
      /\ Enables["start"] = "SEN" /\ Enables["restart"] = "RSEN" /\ Enables["stop"] = "PEN"
  BY NoneAssumption DEF Conditions, Enables, Calls
<1>1. ASSUME ConditionDone PROVE Registers'
  BY <1>1 DEF ConditionDone
<1>2. ASSUME ByteShifted PROVE Registers'
  BY <1>2 DEF ByteShifted
<1>3. ASSUME ByteSent PROVE Registers'
  BY <1>3 DEF ByteSent
<1>4. ASSUME ByteReceived PROVE Registers'
  BY <1>0, <1>4 DEF ByteReceived
<1>5. ASSUME Call PROVE Registers'
  BY <1>0, <1>5 DEF Call
<1>6. ASSUME TakeKept PROVE Registers'
  BY <1>6 DEF TakeKept, Return
<1>7. ASSUME NothingKept PROVE Registers'
  BY <1>7 DEF NothingKept, Goto
<1>8. ASSUME WaitUntilReady PROVE Registers'
  BY <1>8 DEF WaitUntilReady, Goto, Ready
<1>9. ASSUME Clear PROVE Registers'
  BY <1>9 DEF Clear, Goto
<1>10. ASSUME Begin PROVE Registers'
  <2>1. /\ pc = "begin" /\ pc' = "event" /\ con = {} /\ ~trstat
        /\ UNCHANGED <<call, ack, open, ackdt, rcv, flag>>
    BY <1>10 DEF Begin, Goto
  <2>2. CASE call \in Conditions
    <3>1. con' = {Enables[call]} /\ UNCHANGED <<tbf, trstat>>
      BY <1>0, <1>10, <2>1, <2>2 DEF Begin
    <3> QED
      BY <1>0, <2>1, <2>2, <3>1
  <2>3. CASE call = "send"
    <3>1. con' = {} /\ tbf' = TRUE /\ trstat' = TRUE
      BY <1>0, <1>10, <2>1, <2>3 DEF Begin
    <3> QED
      BY <1>0, <2>1, <2>3, <3>1
  <2>4. CASE call = "receive"
    <3>1. con' = {"RCEN"} /\ UNCHANGED <<tbf, trstat>>
      BY <1>0, <1>10, <2>1, <2>4 DEF Begin
    <3> QED
      BY <1>0, <2>1, <2>4, <3>1
  <2> QED
    BY <1>0, <2>2, <2>3, <2>4
<1>11. ASSUME Event PROVE Registers'
  BY <1>11 DEF Event, Goto
<1>12. ASSUME Finish PROVE Registers'
  BY <1>12 DEF Finish, Return
<1>13. ASSUME ByteThere PROVE Registers'
  BY <1>13 DEF ByteThere, Goto
<1>14. ASSUME AnswerReady PROVE Registers'
  BY <1>14 DEF AnswerReady, Goto, Ready
<1>15. ASSUME AckDt PROVE Registers'
  BY <1>15 DEF AckDt, Goto
<1>16. ASSUME AckEn PROVE Registers'
  BY <1>16 DEF AckEn, Goto
<1>17. ASSUME Take PROVE Registers'
  BY <1>17 DEF Take, Return
<1>18. ASSUME Abandon PROVE Registers'
  BY <1>18 DEF Abandon
<1>19. ASSUME Setup PROVE Registers'
  BY <1>19 DEF Setup
<1>20. ASSUME UNCHANGED vars PROVE Registers'
  BY <1>20 DEF vars
<1> QED
  BY <1>1, <1>2, <1>3, <1>4, <1>5, <1>6, <1>7, <1>8, <1>9, <1>10, <1>11, <1>12, <1>13,
     <1>14, <1>15, <1>16, <1>17, <1>18, <1>19, <1>20 DEF Next, Module, Program

\* Registers holds throughout.
LEMMA RegistersInvariance == Spec => []Registers
<1>1. Init => Registers
  BY DEF Init, Registers, Alone, Places, ByteOf, FlagOf, Free
<1> QED
  BY <1>1, RegistersSteps, TypeInvariance, PTL DEF Spec

-----------------------------------------------------------------------------

\* Every step of a call or of the module is one step of I2cBus, or none: the call
\* begins on the wires, the wires end it, it returns.
LEMMA Steps ==
    ASSUME TypeOK, Registers, [Next]_vars
    PROVE  [Wires!ANext]_Wires!avars
<1> USE DEF program, control, status, TypeOK, Registers, Alone, Places, ByteOf, FlagOf, Free,
            PhaseOf, WireOf, Wires!avars
<1>0. /\ Conditions = {"start", "restart", "stop"} /\ None \notin Byte
      /\ Calls = {"start", "restart", "stop", "send", "receive"}
      /\ Enables["start"] = "SEN" /\ Enables["restart"] = "RSEN" /\ Enables["stop"] = "PEN"
      /\ Wires!Ops = {"start", "restart", "stop", "send", "receive"}
  BY NoneAssumption DEF Conditions, Enables, Calls, Wires!Ops, Wires!Conditions
<1>1. ASSUME ConditionDone PROVE Wires!AFinish
  BY <1>1 DEF ConditionDone, Wires!AFinish
<1>2. ASSUME ByteShifted PROVE UNCHANGED Wires!avars
  BY <1>2 DEF ByteShifted
<1>3. ASSUME ByteSent PROVE Wires!AFinish
  BY <1>3 DEF ByteSent, Wires!AFinish
<1>4. ASSUME ByteReceived PROVE Wires!AFinish
  BY <1>4 DEF ByteReceived, Wires!AFinish
<1>5. ASSUME Call PROVE Wires!ACall
  BY <1>0, <1>5 DEF Call, Wires!ACall
<1>6. ASSUME TakeKept PROVE Wires!AReturnKept
  BY <1>6 DEF TakeKept, Return, Wires!AReturnKept, Wires!AReturns
<1>7. ASSUME NothingKept PROVE UNCHANGED Wires!avars
  BY <1>7 DEF NothingKept, Goto
<1>8. ASSUME WaitUntilReady PROVE UNCHANGED Wires!avars
  BY <1>8 DEF WaitUntilReady, Goto
<1>9. ASSUME Clear PROVE UNCHANGED Wires!avars
  BY <1>9 DEF Clear, Goto
<1>10. ASSUME Begin PROVE Wires!ABegin
  <2>1. /\ pc = "begin" /\ pc' = "event" /\ con = {} /\ ~trstat
        /\ UNCHANGED <<call, ack, open, ackdt, rcv, nacked, result>>
    BY <1>10 DEF Begin, Goto
  <2>2. CASE call \in Conditions
    <3>1. con' = {Enables[call]} /\ UNCHANGED trstat
      BY <1>0, <1>10, <2>1, <2>2 DEF Begin
    <3> QED
      BY <1>0, <2>1, <2>2, <3>1 DEF Wires!ABegin
  <2>3. CASE call = "send"
    <3>1. con' = {} /\ trstat' = TRUE
      BY <1>0, <1>10, <2>1, <2>3 DEF Begin
    <3> QED
      BY <1>0, <2>1, <2>3, <3>1 DEF Wires!ABegin
  <2>4. CASE call = "receive"
    <3>1. con' = {"RCEN"} /\ UNCHANGED trstat
      BY <1>0, <1>10, <2>1, <2>4 DEF Begin
    <3> QED
      BY <1>0, <2>1, <2>4, <3>1 DEF Wires!ABegin
  <2> QED
    BY <1>0, <2>2, <2>3, <2>4
<1>11. ASSUME Event PROVE UNCHANGED Wires!avars
  BY <1>11 DEF Event, Goto
<1>12. ASSUME Finish PROVE Wires!AReturn
  BY <1>0, <1>12 DEF Finish, Return, Wires!AReturn, Wires!AReturns
<1>13. ASSUME ByteThere PROVE UNCHANGED Wires!avars
  BY <1>13 DEF ByteThere, Goto
<1>14. ASSUME AnswerReady PROVE UNCHANGED Wires!avars
  BY <1>14 DEF AnswerReady, Goto
<1>15. ASSUME AckDt PROVE UNCHANGED Wires!avars
  BY <1>15 DEF AckDt, Goto
<1>16. ASSUME AckEn PROVE Wires!AAnswer
  BY <1>16 DEF AckEn, Goto, Wires!AAnswer
<1>17. ASSUME Take PROVE Wires!AReturnByte
  BY <1>17 DEF Take, Return, Wires!AReturnByte, Wires!AReturns
<1>18. ASSUME Abandon PROVE Wires!AAbandon
  BY <1>0, <1>18 DEF Abandon, Wires!AAbandon
<1>19. ASSUME Setup PROVE Wires!ASetup
  BY <1>19 DEF Setup, Wires!ASetup
<1>20. ASSUME UNCHANGED vars PROVE UNCHANGED Wires!avars
  BY <1>20 DEF vars
<1> QED
  BY <1>1, <1>2, <1>3, <1>4, <1>5, <1>6, <1>7, <1>8, <1>9, <1>10, <1>11, <1>12, <1>13,
     <1>14, <1>15, <1>16, <1>17, <1>18, <1>19, <1>20 DEF Next, Module, Program, Wires!ANext

\* Every register and every place of a call keeps its type.
THEOREM MasterTypes == Spec => []TypeOK
BY TypeInvariance

\* The module is told to begin something only when it is at nothing else
\* (_wait_until_ready, i2c.c:38-44), also after calls that were abandoned.
THEOREM BeginsAlone == Spec => []OneAtATime
<1>1. Registers => OneAtATime
  BY DEF Registers, Alone, OneAtATime
<1> QED
  BY <1>1, RegistersInvariance, PTL

\* i2c.c on the registers of the module implements I2cBus.
THEOREM ImplementsBus == Spec => Bus
<1>1. Init => Wires!AInit
  BY DEF Init, Wires!AInit, PhaseOf, WireOf
<1>2. TypeOK /\ Registers /\ [Next]_vars => [Wires!ANext]_Wires!avars
  BY Steps
<1> QED
  BY <1>1, <1>2, TypeInvariance, RegistersInvariance, PTL DEF Spec, Bus, Wires!Bus
=============================================================================
