------------------------------- MODULE Eeprom -------------------------------
(***************************************************************************)
(* The EEPROM driver (kernel/src/eeprom.c) on the I2C bus (i2c.c): a write *)
(* is cut at page boundaries, each page is one bus transaction, and the    *)
(* device stores a page during a write cycle in which it does not answer.  *)
(*                                                                         *)
(* The steps are the driver's i2c calls.  The device is an actor of its    *)
(* own: it ends its write cycle when it likes, and goes on through a reset *)
(* of the board.  The tick of timer 4 moves the clock at any moment, and   *)
(* the jump of timers_handle_t3 abandons a call at any of its steps.       *)
(***************************************************************************)
EXTENDS EepromStore

CONSTANTS
    PAGESIZE,   \* EEPROM_PAGESIZE, 64
    MsMod,      \* the modulus of global_ms_count and of u32 sums, 2^32
    WaitMs,     \* the 6 ms of eeprom_write
    MaxCalls    \* bound: calls made in a behaviour

ASSUME DriverAssumption == /\ PAGESIZE \in Nat \ {0}
                           /\ EEPROM_SIZE % PAGESIZE = 0
                           /\ MsMod \in Nat \ {0}
                           /\ WaitMs \in 1..(MsMod - 1)
                           /\ MaxCalls \in Nat

VARIABLES
    pc,       \* the driver's next i2c call
    addr,     \* eeprom_write's addr, eeprom_read's has the same place
    len,      \* bytes that are left
    buf,      \* bytes read so far
    last,     \* last_write_time
    time,     \* global_ms_count
    rcv,      \* I2C1RCV, NoByte when I2C1STAT.RBF is clear
    slave,    \* device: what it takes the next byte on the bus for
    ptr,      \* device: its address counter
    latch,    \* device: bytes received for the page, by address
    busy,     \* device: in its write cycle
    present,  \* there is a device on the bus
    since,    \* history: ticks since last_write_time was set, up to MsMod
    calls     \* calls made, for the bound

driver == <<pc, addr, len, buf, last, rcv>>
device == <<slave, ptr, latch, busy, present>>
clock  == <<time, since>>
vars   == <<mem, call, stored, result, kept, driver, device, clock, calls>>

Slaves == {"idle", "control", "address", "write", "read", "deaf"}
Pcs == {"idle", "enter", "loop", "wait", "start", "control", "address", "data",
        "stop", "stamp", "restart", "receive", "read_stop"}

EmptyLatch == [a \in {} |-> 0]

PageOf(a) == a \div PAGESIZE
InPage(a) == a % PAGESIZE

TypeOK ==
    /\ mem \in [0..(EEPROM_SIZE - 1) -> Byte]
    /\ call \in Calls \cup {NoCall} /\ stored \in Nat
    /\ {kept, rcv} \subseteq Byte \cup {NoByte}
    /\ pc \in Pcs
    /\ addr \in Nat /\ len \in Nat
    /\ buf \in Seq(Byte)
    /\ last \in 0..(MsMod - 1) /\ time \in 0..(MsMod - 1)
    /\ slave \in Slaves
    /\ ptr \in 0..(EEPROM_SIZE - 1)
    /\ DOMAIN latch \subseteq 0..(EEPROM_SIZE - 1)
    /\ \A a \in DOMAIN latch : latch[a] \in Byte
    /\ busy \in BOOLEAN /\ present \in BOOLEAN
    /\ since \in 0..MsMod
    /\ calls \in 0..MaxCalls

Init ==
    /\ SInit
    /\ pc = "idle" /\ addr = 0 /\ len = 0 /\ buf = <<>> /\ last = 0 /\ rcv = NoByte
    /\ slave = "idle" /\ ptr = 0 /\ latch = EmptyLatch /\ busy = FALSE
    /\ present \in BOOLEAN
    /\ time = 0 /\ since = 0 /\ calls = 0

-----------------------------------------------------------------------------
(* The device.                                                             *)

(* START: the device listens, whatever it was doing; bytes of a page that  *)
(* no STOP followed are dropped.                                           *)
BusStart == /\ slave' = "control" /\ latch' = EmptyLatch
            /\ UNCHANGED <<ptr, busy, present>>

(* The control byte, which follows a START, is not acknowledged during the *)
(* write cycle.                                                            *)
Silent == busy \/ ~present \/ slave # "control"

BusControl(next) == /\ slave' = IF Silent THEN "deaf" ELSE next
                    /\ UNCHANGED <<ptr, latch, busy, present>>

BusAddress(a) == /\ slave' = IF slave = "address" THEN "write" ELSE slave
                 /\ ptr' = IF slave = "address" THEN a % EEPROM_SIZE ELSE ptr
                 /\ UNCHANGED <<latch, busy, present>>

(* A data byte goes to the latch; the counter wraps within the page.       *)
BusData(b) ==
    /\ IF slave = "write"
       THEN /\ latch' = [a \in DOMAIN latch \cup {ptr} |->
                            IF a = ptr THEN b ELSE latch[a]]
            /\ ptr' = PageOf(ptr) * PAGESIZE + InPage(ptr + 1)
       ELSE UNCHANGED <<latch, ptr>>
    /\ UNCHANGED <<slave, busy, present>>

(* A device that was not told to send leaves the bus floating.             *)
BusReceive(b) == /\ slave = "read" => b = mem[ptr]
                 /\ ptr' = IF slave = "read" THEN (ptr + 1) % EEPROM_SIZE ELSE ptr
                 /\ UNCHANGED <<slave, latch, busy, present>>

(* STOP starts the write cycle of the page received.  No reader sees the   *)
(* device before the cycle ends, so mem holds the page at once.            *)
BusStop == /\ mem' = [a \in DOMAIN mem |->
                         IF a \in DOMAIN latch THEN latch[a] ELSE mem[a]]
           /\ busy' = (busy \/ DOMAIN latch # {})
           /\ slave' = "idle" /\ latch' = EmptyLatch
           /\ UNCHANGED <<ptr, present>>

CycleDone == /\ busy /\ busy' = FALSE
             /\ UNCHANGED <<mem, call, stored, result, kept, driver, slave, ptr, latch, present, clock, calls>>

-----------------------------------------------------------------------------
(* The driver.                                                             *)

Goto(from, to) == pc = from /\ pc' = to /\ UNCHANGED <<clock, calls>>

Call == /\ pc = "idle" /\ calls < MaxCalls
        /\ pc' = "enter" /\ calls' = calls + 1
        /\ \E c \in Calls : call' = c /\ addr' = c.addr /\ len' = Size(c)
        /\ buf' = <<>>
        /\ UNCHANGED <<mem, stored, result, kept, last, rcv, device, clock>>

Return(from, r) == /\ Goto(from, "idle")
                   /\ SReturn(r) /\ kept' = rcv
                   /\ UNCHANGED <<addr, len, buf, last, rcv>>

Refuse == /\ pc = "enter" /\ OutOfRange(call)
          /\ Return("enter", Refused) /\ UNCHANGED device

Still == UNCHANGED <<mem, call, stored, result, kept, buf, last, rcv>>

Enter == /\ pc = "enter" /\ ~OutOfRange(call)
         /\ \/ call.op = "write" /\ Goto("enter", "loop")
            \/ call.op = "read" /\ len > 0 /\ Goto("enter", "start")
         /\ Still /\ UNCHANGED <<addr, len, device>>

ReadNothing == /\ pc = "enter" /\ ~OutOfRange(call) /\ call.op = "read" /\ len = 0
               /\ Return("enter", Returned(<<>>))
               /\ UNCHANGED device

WriteLoop == \/ len = 0 /\ Return("loop", Written) /\ UNCHANGED device
             \/ len > 0 /\ Goto("loop", "wait")
                  /\ Still /\ UNCHANGED <<addr, len, device>>

WaitingInclusive == time <= (last + WaitMs) % MsMod   \* mutant: <= in place of <

(* while (get_time() < last_write_time + 6), in u32                        *)
Waiting == time < (last + WaitMs) % MsMod

(* A tick takes 1 ms and a turn of the loop some cycles: the loop sees the *)
(* first value of the clock that ends it.                                  *)
Tick == /\ ~(pc = "wait" /\ ~Waiting)
        /\ time' = (time + 1) % MsMod
        /\ since' = IF since < MsMod THEN since + 1 ELSE since
        /\ UNCHANGED <<mem, call, stored, result, kept, driver, device, calls>>

Wait == /\ ~Waiting
        /\ Goto("wait", "start")
        /\ Still /\ UNCHANGED <<addr, len, device>>

Start == /\ Goto("start", "control")
         /\ BusStart
         /\ Still /\ UNCHANGED <<addr, len>>

ControlOnce ==   \* mutant: the acknowledge is not looked at
    /\ Goto("control", "address")
    /\ BusControl("address")
    /\ Still /\ UNCHANGED <<addr, len>>

ControlUnstarted ==   \* mutant: i2c_start is not in the loop
    /\ \/ Silent /\ Goto("control", "control")
       \/ ~Silent /\ Goto("control", "address")
    /\ BusControl("address")
    /\ Still /\ UNCHANGED <<addr, len>>

(* start again until the address is acknowledged                           *)
Control == /\ \/ Silent /\ Goto("control", "start")
              \/ ~Silent /\ Goto("control", "address")
           /\ BusControl("address")
           /\ Still /\ UNCHANGED <<addr, len>>

Address == /\ Goto("address", IF call.op = "write" THEN "data" ELSE "restart")
           /\ BusAddress(addr)
           /\ Still /\ UNCHANGED <<addr, len>>

DataUncut ==   \* mutant: the page boundary does not end the transaction
    /\ Goto("data", IF len > 1 THEN "data" ELSE "stop")
    /\ BusData(call.data[Len(call.data) - len + 1])
    /\ addr' = addr + 1 /\ len' = len - 1
    /\ Still

(* The inner do-while: up to the page boundary or the end of the data.     *)
Data == /\ Goto("data", IF len > 1 /\ InPage(addr + 1) # 0 THEN "data" ELSE "stop")
        /\ BusData(call.data[Len(call.data) - len + 1])
        /\ addr' = addr + 1 /\ len' = len - 1
        /\ Still

Stop == /\ Goto("stop", "stamp")
        /\ BusStop
        /\ stored' = Size(call) - len
        /\ UNCHANGED <<call, result, kept, buf, last, rcv, addr, len>>

Stamp == /\ pc = "stamp" /\ pc' = "loop"
         /\ last' = time /\ since' = 0
         /\ UNCHANGED <<mem, call, stored, result, kept, addr, len, buf, rcv, device, time, calls>>

(* i2c_start again, and the read command; its acknowledge is not looked at *)
Restart == /\ Goto("restart", "receive")
           /\ slave' = (IF busy \/ ~present THEN "deaf" ELSE "read")
           /\ latch' = EmptyLatch
           /\ Still /\ UNCHANGED <<addr, len, ptr, busy, present>>

(* i2c_receive: a byte that is in the buffer is used, and the wires left   *)
(* alone; else the next one is clocked in and taken.                       *)
Receive == /\ Goto("receive", IF len > 1 THEN "receive" ELSE "read_stop")
           /\ \/ /\ rcv # NoByte
                 /\ buf' = Append(buf, rcv) /\ UNCHANGED device
              \/ /\ rcv = NoByte
                 /\ \E b \in Byte : BusReceive(b) /\ buf' = Append(buf, b)
           /\ rcv' = NoByte
           /\ len' = len - 1
           /\ UNCHANGED <<mem, call, stored, result, kept, addr, last>>

ReadStop == /\ Return("read_stop", Returned(buf))
            /\ slave' = "idle" /\ UNCHANGED <<ptr, latch, busy, present>>

Driver == \/ Refuse \/ Enter \/ ReadNothing \/ WriteLoop \/ Wait \/ Start
          \/ Control \/ Address \/ Data \/ Stop \/ Stamp \/ Restart \/ Receive
          \/ ReadStop

(* The jump of timers_handle_t3.  What the I2C module was told to do it    *)
(* does, and the next i2c_start waits for that (_wait_until_ready): the    *)
(* call under way has happened or has not, and a byte that was clocked in  *)
(* and not taken stays in the buffer.                                      *)
Abandon == /\ pc # "idle" /\ pc' = "idle"
           /\ SReturn(NoResult)
           /\ \/ UNCHANGED <<rcv, device>>
              \/ /\ pc = "receive" /\ rcv = NoByte
                 /\ \E b \in Byte : BusReceive(b) /\ rcv' = b
           /\ kept' = rcv'
           /\ UNCHANGED <<addr, len, buf, last, clock, calls>>

(* The board's reset button: the kernel starts over, the device goes on.   *)
Reset == /\ pc' = "idle" /\ SReset
         /\ addr' = 0 /\ len' = 0 /\ buf' = <<>> /\ last' = 0 /\ rcv' = NoByte
         /\ time' = 0 /\ since' = 0
         /\ UNCHANGED <<device, calls>>

Next == Driver \/ Call \/ Tick \/ CycleDone \/ Abandon \/ Reset

Spec == Init /\ [][Next]_vars

-----------------------------------------------------------------------------
(* The code runs, the device ends its write cycles, and ticks arrive.      *)
FairSpec == Spec /\ WF_vars(Driver) /\ WF_vars(CycleDone) /\ WF_vars(Tick)

(* A byte of data is sent only to a device that takes it for the address   *)
(* the driver means: no page wraps over its own start, and no byte is lost *)
(* to a device in its write cycle (eeprom_write).                          *)
BytesLand == pc = "data" => slave = "write" /\ ptr = addr

(* Every call returns if there is a device, however long it is busy.       *)
CallReturns == (present /\ pc # "idle") ~> pc = "idle"

(* A device that is not there is waited for (the loops on I2C_NACK): no    *)
(* byte is ever reported as written to it or as read from it.              *)
MissingNotReported ==
    [][~present /\ pc # "idle" /\ pc' = "idle" /\ Size(call) > 0
            => result'.status # 0]_vars

(* eeprom.c:21, "wait for write cycle completion (5ms, round up)": once    *)
(* the 6 ms are over, the driver does not wait for the clock any more,     *)
(* unless the clock has wrapped since the write.                           *)
WaitIsForTheCycle ==
    pc = "wait" /\ since >= WaitMs /\ last + since < MsMod => ~Waiting
=============================================================================
