---------------------------- MODULE Eeprom_proofs ----------------------------
(***************************************************************************)
(* Proofs about Eeprom, for every size of device and page, and all calls:  *)
(* its invariants, and that it implements EepromStore.                     *)
(***************************************************************************)
EXTENDS Eeprom, TLAPS

-----------------------------------------------------------------------------
(* Pages.                                                                  *)

\* What % and \div are.
LEMMA Remainder ==
    ASSUME NEW n \in Nat, NEW l \in Nat \ {0}
    PROVE  n % l \in 0..(l - 1) /\ n \div l \in Nat /\ n = (n \div l) * l + (n % l)
  OBVIOUS

\* The address counter of the device either goes on or goes back to the start of
\* its page.
LEMMA NextInPage ==
    ASSUME NEW n \in Nat, NEW l \in Nat \ {0}
    PROVE  \/ (n + 1) % l = 0 /\ (n \div l) * l \in 0..n
           \/ (n + 1) % l # 0 /\ (n \div l) * l + ((n + 1) % l) = n + 1
<1> DEFINE q == n \div l
           r == n % l
           s == (n + 1) \div l
           t == (n + 1) % l
<1>1. q \in Nat /\ r \in 0..(l - 1) /\ n = q * l + r
  BY Remainder
<1>2. s \in Nat /\ t \in 0..(l - 1) /\ n + 1 = s * l + t
  <2>1. n + 1 \in Nat
    OBVIOUS
  <2> QED
    BY <2>1, Remainder
<1> HIDE DEF q, r, s, t
<1>3. q * l \in Nat /\ s * l \in Nat
  BY <1>1, <1>2
<1>4. CASE t = 0
  BY <1>1, <1>3, <1>4 DEF t, q
<1>5. CASE t # 0
  <2>1. s * l <= n
    BY <1>1, <1>2, <1>3, <1>5
  <2>2. s <= q
    <3>1. SUFFICES ASSUME s >= q + 1 PROVE FALSE
      BY <1>1, <1>2
    <3>2. s * l >= (q + 1) * l
      BY <1>1, <1>2, <3>1
    <3>3. (q + 1) * l = q * l + l
      BY <1>1
    <3> QED
      BY <1>1, <1>3, <2>1, <3>2, <3>3
  <2>3. s >= q
    <3>1. SUFFICES ASSUME q >= s + 1 PROVE FALSE
      BY <1>1, <1>2
    <3>2. q * l >= (s + 1) * l
      BY <1>1, <1>2, <3>1
    <3>3. (s + 1) * l = s * l + l
      BY <1>2
    <3> QED
      BY <1>1, <1>2, <1>3, <3>2, <3>3
  <2>4. s = q
    BY <1>1, <1>2, <2>2, <2>3
  <2> QED
    BY <1>1, <1>2, <1>5, <2>4 DEF t, q
<1> QED
  BY <1>4, <1>5

\* The counter stays in the device, and follows the driver's address up to the end
\* of a page (eeprom.c:34-38).
LEMMA CounterNext ==
    ASSUME NEW n \in 0..(EEPROM_SIZE - 1)
    PROVE  /\ PageOf(n) * PAGESIZE + InPage(n + 1) \in 0..(EEPROM_SIZE - 1)
           /\ InPage(n + 1) # 0 => PageOf(n) * PAGESIZE + InPage(n + 1) = n + 1
<1>0. EEPROM_SIZE \in Nat \ {0} /\ PAGESIZE \in Nat \ {0} /\ EEPROM_SIZE % PAGESIZE = 0 /\ n \in Nat
  BY StoreAssumption, DriverAssumption
<1>1. CASE InPage(n + 1) = 0
  <2>1. PageOf(n) * PAGESIZE \in 0..n
    BY <1>0, <1>1, NextInPage DEF PageOf, InPage
  <2> QED
    BY <1>0, <1>1, <2>1
<1>2. CASE InPage(n + 1) # 0
  <2>1. PageOf(n) * PAGESIZE + InPage(n + 1) = n + 1
    BY <1>0, <1>2, NextInPage DEF PageOf, InPage
  <2>2. n + 1 # EEPROM_SIZE
    BY <1>0, <1>2 DEF InPage
  <2> QED
    BY <1>0, <1>2, <2>1, <2>2
<1> QED
  BY <1>1, <1>2

-----------------------------------------------------------------------------
(* The inductive invariant.                                                *)

\* How far a call has come, and which of the two functions it is in.
CallInv ==
    /\ pc = "idle" <=> call = NoCall
    /\ pc \notin {"idle", "enter"} => ~OutOfRange(call)
    /\ pc \in {"loop", "wait", "data", "stop", "stamp"} => call.op = "write"
    /\ pc \in {"restart", "receive", "read_stop"} => call.op = "read"
    /\ pc # "idle" => len <= Size(call)
    /\ pc = "enter" \/ (pc \in {"start", "control", "address", "restart"} /\ call.op = "read")
          => len = Size(call) /\ buf = <<>>
    /\ pc \in {"wait", "start", "control", "address", "data", "restart", "receive"} => len > 0
    /\ pc = "read_stop" => len = 0

AddrInv ==
    /\ pc # "idle" /\ call.op = "write" => addr = call.addr + Size(call) - len
    /\ pc # "idle" /\ call.op = "read" => addr = call.addr

\* The byte that was left over is in the receive buffer until a read takes it.
KeptInv ==
    /\ pc \notin {"receive", "read_stop"} => rcv = kept
    /\ pc = "receive" => rcv = IF len = Size(call) THEN kept ELSE NoByte
    /\ pc = "read_stop" => rcv = NoByte /\ Size(call) > 0

\* The bytes of the read in progress that did not come from the device: the one
\* that was left over, once it is taken.
Shift == IF kept # NoByte /\ len < Size(call) THEN 1 ELSE 0

\* The device serves the transaction that the driver is at.
DeviceInv ==
    /\ slave \in {"address", "write", "read"} => ~busy /\ present
    /\ pc = "address" => slave = "address"
    /\ pc \in {"data", "restart"} => slave = "write" /\ ptr = addr
    /\ pc = "stop" => slave = "write"
    /\ pc = "receive" => slave = "read" /\ ptr = call.addr + Size(call) - len - Shift
    /\ pc \in {"control", "address", "restart", "receive", "read_stop"} => latch = EmptyLatch

\* What of the write in progress is stored, and what waits in the device.
StoredInv ==
    /\ pc # "idle" /\ call.op = "read" => stored = 0
    /\ pc = "idle" => stored = 0
    /\ pc \notin {"idle", "data", "stop"} /\ call.op = "write" => stored = Size(call) - len
    /\ pc \in {"data", "stop"} =>
          /\ stored \in 0..(Size(call) - len)
          /\ pc = "stop" => stored < Size(call) - len
          /\ DOMAIN latch = (call.addr + stored)..(addr - 1)
          /\ \A a \in DOMAIN latch : latch[a] = call.data[a - call.addr + 1]

\* What of the read in progress has been received.
ReadInv ==
    pc \in {"receive", "read_stop"} =>
    /\ Len(buf) = Size(call) - len
    /\ \A n \in 1..Len(buf) : buf[n] = Nth(kept, mem, call.addr, n)

\* The clock, until since stops counting.
ClockInv ==
    since < MsMod => time = IF last + since < MsMod THEN last + since ELSE last + since - MsMod

\* Without a device no call gets past its address.
AbsentInv ==
    ~present => /\ pc \in {"idle", "enter", "loop", "wait", "start", "control"}
                /\ pc \notin {"idle", "enter"} => len = Size(call)

Inv == /\ TypeOK /\ CallInv /\ AddrInv /\ KeptInv /\ DeviceInv /\ StoredInv /\ ReadInv /\ ClockInv
       /\ AbsentInv

-----------------------------------------------------------------------------

\* An interval that is empty, and one that gets one more element.
LEMMA Nothing ==
    ASSUME NEW m \in Int, NEW n \in Int, m = n
    PROVE  m..(n - 1) = {}
  OBVIOUS

LEMMA OneMore ==
    ASSUME NEW m \in Int, NEW n \in Int, m <= n
    PROVE  m..(n - 1) \cup {n} = m..(n + 1 - 1)
  OBVIOUS

\* What the arguments of a call are.
LEMMA CallFacts ==
    ASSUME NEW c \in Calls
    PROVE  /\ c # NoCall /\ c.op \in {"write", "read"}
           /\ c.addr \in Nat /\ Size(c) \in Nat
           /\ c.op = "write" => c.data \in Seq(Byte) /\ Size(c) = Len(c.data)
<1>1. /\ Addresses \subseteq Nat /\ Payloads \subseteq Seq(Byte) /\ Lengths \subseteq Nat
  BY StoreAssumption
<1>2. CASE c \in [op : {"write"}, addr : Addresses, data : Payloads]
  <2>1. c.op = "write" /\ c.addr \in Nat /\ c.data \in Seq(Byte)
    BY <1>1, <1>2
  <2>2. Size(c) = Len(c.data) /\ Len(c.data) \in Nat
    BY <2>1 DEF Size
  <2> QED
    BY <2>1, <2>2 DEF NoCall
<1>3. CASE c \in [op : {"read"}, addr : Addresses, len : Lengths]
  <2>1. c.op = "read" /\ c.addr \in Nat /\ c.len \in Nat
    BY <1>1, <1>3
  <2>2. Size(c) = c.len
    BY <2>1 DEF Size
  <2> QED
    BY <2>1, <2>2 DEF NoCall
<1> QED
  BY <1>2, <1>3 DEF Calls

\* Every step keeps Inv.
LEMMA InvSteps ==
    ASSUME Inv, [Next]_vars
    PROVE  Inv'
<1> USE DEF driver, device, clock
<1>0. /\ EEPROM_SIZE \in Nat \ {0} /\ MsMod \in Nat \ {0} /\ WaitMs \in Nat /\ MaxCalls \in Nat
      /\ DOMAIN EmptyLatch = {}
      /\ call \in Calls => call # NoCall
      /\ pc # "idle" => /\ call \in Calls /\ call.op \in {"write", "read"}
                        /\ call.addr \in Nat /\ Size(call) \in Nat
                        /\ call.op = "write" => call.data \in Seq(Byte) /\ Size(call) = Len(call.data)
  <2>1. EEPROM_SIZE \in Nat \ {0} /\ MsMod \in Nat \ {0} /\ WaitMs \in Nat /\ MaxCalls \in Nat
    BY StoreAssumption, DriverAssumption
  <2>4. DOMAIN EmptyLatch = {}
    BY DEF EmptyLatch
  <2>2. call \in Calls => call # NoCall
    BY CallFacts
  <2>3. pc # "idle" => call \in Calls
    BY DEF Inv, TypeOK, CallInv
  <2> QED
    BY <2>1, <2>2, <2>3, <2>4, CallFacts
<1> USE DEF Inv, TypeOK, CallInv, AddrInv, KeptInv, DeviceInv, StoredInv, ReadInv, ClockInv, AbsentInv,
            Pcs, Slaves
<1>1. ASSUME CycleDone PROVE Inv'
  <2>0. busy /\ busy' = FALSE /\ UNCHANGED <<mem, call, stored, kept, rcv, pc, addr, len, buf, last, slave, ptr, latch, present, time, since, calls>>
    BY <1>0, <1>1 DEF CycleDone
  <2>1. TypeOK'
    BY <1>0, <2>0
  <2>2. CallInv'
    BY <1>0, <2>0
  <2>3. AddrInv'
    BY <1>0, <2>0
  <2>4. DeviceInv'
    BY <1>0, <2>0
  <2>5. StoredInv'
    BY <1>0, <2>0
  <2>6. ReadInv'
    BY <1>0, <2>0
  <2>7. ClockInv'
    BY <1>0, <2>0
  <2>8. AbsentInv' /\ KeptInv'
    BY <1>0, <2>0
  <2> QED
    BY <2>1, <2>2, <2>3, <2>4, <2>5, <2>6, <2>7, <2>8
<1>2. ASSUME Refuse PROVE Inv'
  BY <1>0, <1>2 DEF Refuse, Return, Goto, SReturn
<1>3. ASSUME Enter PROVE Inv'
  BY <1>0, <1>3 DEF Enter, Goto, Still
<1>4. ASSUME ReadNothing PROVE Inv'
  BY <1>0, <1>4 DEF ReadNothing, Return, Goto, SReturn
<1>5. ASSUME WriteLoop PROVE Inv'
  <2>1. CASE len = 0
    BY <1>0, <1>5, <2>1 DEF WriteLoop, Return, Goto, SReturn
  <2>2. CASE len > 0
    <3>1. /\ pc = "loop" /\ pc' = "wait"
          /\ UNCHANGED <<mem, call, stored, kept, rcv, addr, len, buf, last, slave, ptr, latch, busy, present,
                         time, since, calls>>
      BY <1>5, <2>2 DEF WriteLoop, Goto, Still
    <3> QED
      BY <1>0, <2>2, <3>1
  <2> QED
    BY <1>5, <2>1, <2>2 DEF WriteLoop
<1>6. ASSUME Wait PROVE Inv'
  BY <1>0, <1>6 DEF Wait, Goto, Still
<1>7. ASSUME Start PROVE Inv'
  <2>0. /\ pc = "start" /\ pc' = "control" /\ slave' = "control" /\ latch' = EmptyLatch
        /\ UNCHANGED <<mem, call, stored, kept, rcv, addr, len, buf, last, ptr, busy, present, time, since, calls>>
    BY <1>0, <1>7 DEF Start, Goto, BusStart, Still
  <2>1. TypeOK'
    BY <1>0, <2>0
  <2>2. CallInv'
    BY <1>0, <2>0
  <2>3. AddrInv'
    BY <1>0, <2>0
  <2>4. DeviceInv'
    BY <1>0, <2>0
  <2>5. StoredInv'
    BY <1>0, <2>0
  <2>6. ReadInv'
    BY <1>0, <2>0
  <2>7. ClockInv'
    BY <1>0, <2>0
  <2>8. AbsentInv' /\ KeptInv'
    BY <1>0, <2>0
  <2> QED
    BY <2>1, <2>2, <2>3, <2>4, <2>5, <2>6, <2>7, <2>8
<1>8. ASSUME Control PROVE Inv'
  BY <1>0, <1>8 DEF Control, Goto, BusControl, Silent, Still
<1>9. ASSUME Address PROVE Inv'
  <2>0. /\ pc = "address" /\ slave = "address" /\ slave' = "write" /\ ptr' = addr % EEPROM_SIZE
        /\ pc' = IF call.op = "write" THEN "data" ELSE "restart"
        /\ UNCHANGED <<mem, call, stored, kept, rcv, addr, len, buf, last, latch, busy, present, time, since, calls>>
    BY <1>0, <1>9 DEF Address, Goto, BusAddress, Still
  <2>1. TypeOK'
    BY <1>0, <2>0
  <2>2. CallInv'
    BY <1>0, <2>0
  <2>3. AddrInv'
    BY <1>0, <2>0
  <2>10. addr % EEPROM_SIZE = addr
    <3>1. /\ addr \in Nat /\ len \in Nat /\ len <= Size(call) /\ len > 0
          /\ addr = call.addr + Size(call) - len \/ addr = call.addr
      BY <1>0, <2>0
    <3>4. ~OutOfRange(call) /\ call.addr \in Nat /\ Size(call) \in Nat
      BY <1>0, <2>0
    <3> HIDE DEF Inv
    <3>2. Size(call) + call.addr <= EEPROM_SIZE - 1
      BY <1>0, <3>4 DEF OutOfRange
    <3>3. addr < EEPROM_SIZE
      BY <1>0, <2>0, <3>1, <3>2
    <3> QED
      BY <1>0, <3>1, <3>3
  <2>4. DeviceInv'
    BY <1>0, <2>0, <2>10
  <2>5. StoredInv'
    <3>1. DOMAIN latch = {} /\ (call.op = "write" => stored = Size(call) - len /\ len > 0)
      BY <1>0, <2>0
    <3>2. call.op = "write" => (call.addr + stored)..(addr - 1) = {}
      <4>1. /\ call.addr \in Nat /\ addr \in Nat /\ stored \in Nat
            /\ call.op = "write" => call.addr + stored = addr
        BY <1>0, <2>0, <3>1
      <4> HIDE DEF Inv
      <4> QED
        BY <4>1, Nothing
    <3> QED
      BY <1>0, <2>0, <3>1, <3>2
  <2>6. ReadInv'
    BY <1>0, <2>0
  <2>7. ClockInv'
    BY <1>0, <2>0
  <2>8. AbsentInv' /\ KeptInv'
    BY <1>0, <2>0
  <2> QED
    BY <2>1, <2>2, <2>3, <2>4, <2>5, <2>6, <2>7, <2>8
<1>10. ASSUME Data PROVE Inv'
  <2>1. /\ pc = "data" /\ slave = "write" /\ ptr = addr /\ addr' = addr + 1 /\ len' = len - 1
        /\ pc' = IF len > 1 /\ InPage(addr + 1) # 0 THEN "data" ELSE "stop"
        /\ ptr' = PageOf(addr) * PAGESIZE + InPage(addr + 1)
        /\ UNCHANGED <<mem, call, stored, kept, rcv, buf, last, slave, busy, present, time, since, calls>>
    BY <1>10 DEF Data, Goto, BusData, Still
  <2>2. /\ addr \in Nat /\ addr < EEPROM_SIZE /\ len \in Nat /\ len > 0 /\ len <= Size(call)
        /\ addr = call.addr + Size(call) - len /\ call.addr \in Nat /\ Size(call) \in Nat
        /\ stored \in Nat /\ stored <= Size(call) - len
    <3>1. addr \in Nat /\ ptr = addr /\ ptr \in 0..(EEPROM_SIZE - 1)
      BY <2>1
    <3>2. len \in Nat /\ len > 0 /\ len <= Size(call) /\ pc # "idle" /\ call.op = "write"
      BY <2>1
    <3>3. call.addr \in Nat /\ Size(call) \in Nat
      BY <1>0, <3>2
    <3>4. addr = call.addr + Size(call) - len
      BY <3>2
    <3>5. stored \in 0..(Size(call) - len)
      BY <2>1
    <3> HIDE DEF Inv
    <3> QED
      BY <1>0, <3>1, <3>2, <3>3, <3>4, <3>5
  <2>3. /\ DOMAIN latch = (call.addr + stored)..(addr - 1)
        /\ \A a \in DOMAIN latch : latch[a] = call.data[a - call.addr + 1]
    BY <1>0, <2>1
  <2>4. /\ DOMAIN latch \subseteq 0..(EEPROM_SIZE - 1)
        /\ \A a \in DOMAIN latch : latch[a] \in Byte
    BY <1>0, <2>1
  <2>5. call.op = "write" /\ call.data \in Seq(Byte) /\ Size(call) = Len(call.data)
        /\ ~OutOfRange(call) /\ ~busy /\ present
    BY <1>0, <2>1
  <2>6. /\ ptr' \in 0..(EEPROM_SIZE - 1)
        /\ InPage(addr + 1) # 0 => ptr' = addr + 1
    <3>1. addr \in 0..(EEPROM_SIZE - 1)
      BY <1>0, <2>2
    <3> QED
      BY <2>1, <3>1, CounterNext
  <2>7. /\ call.data[Size(call) - len + 1] \in Byte
        /\ addr - call.addr + 1 = Size(call) - len + 1
    <3> HIDE DEF Inv
    <3>1. Size(call) - len + 1 \in 1..Size(call) /\ addr - call.addr + 1 = Size(call) - len + 1
      BY <2>2
    <3> QED
      BY <2>5, <3>1
  <2>8. /\ DOMAIN latch' = DOMAIN latch \cup {addr}
        /\ \A a \in DOMAIN latch \cup {addr} :
              latch'[a] = IF a = addr THEN call.data[Size(call) - len + 1] ELSE latch[a]
    <3>1. latch' = [a \in DOMAIN latch \cup {addr} |->
                      IF a = addr THEN call.data[Size(call) - len + 1] ELSE latch[a]]
      BY <1>10, <2>1, <2>5 DEF Data, Goto, BusData, Still
    <3> QED
      BY <3>1
  <2>15. rcv = kept
    BY <2>1
  <2> HIDE DEF Inv
  <2>9. TypeOK'
    <3>1. DOMAIN latch' \subseteq 0..(EEPROM_SIZE - 1)
      BY <1>0, <2>2, <2>4, <2>8
    <3>2. \A a \in DOMAIN latch' : latch'[a] \in Byte
      BY <2>4, <2>7, <2>8
    <3>3. addr' \in Nat /\ len' \in Nat /\ pc' \in Pcs
      BY <2>1, <2>2
    <3>4. TypeOK
      BY DEF Inv
    <3> HIDE DEF TypeOK
    <3> QED
      BY <2>1, <2>6, <3>1, <3>2, <3>3, <3>4 DEF TypeOK
  <2>10. CallInv' /\ AddrInv'
    <3>1. addr' = call.addr + Size(call) - len' /\ len' <= Size(call) /\ (pc' = "data" => len' > 0)
      BY <2>1, <2>2
    <3>2. call # NoCall
      BY <2>1 DEF Inv
    <3> QED
      BY <2>1, <2>5, <3>1, <3>2
  <2>11. DeviceInv'
    BY <2>1, <2>2, <2>5, <2>6
  <2>12. StoredInv'
    <3>1. DOMAIN latch' = (call.addr + stored)..(addr' - 1)
      <4>1. /\ call.addr + stored <= addr /\ call.addr + stored \in Int /\ addr \in Int
            /\ addr' = addr + 1
        BY <2>1, <2>2
      <4>2. (call.addr + stored)..(addr - 1) \cup {addr} = (call.addr + stored)..(addr' - 1)
        BY <4>1, OneMore
      <4>3. DOMAIN latch' = (call.addr + stored)..(addr - 1) \cup {addr}
        BY <2>3, <2>8
      <4> QED
        BY <4>2, <4>3
    <3>2. \A a \in DOMAIN latch' : latch'[a] = call.data[a - call.addr + 1]
      BY <2>3, <2>7, <2>8
    <3>3. stored \in 0..(Size(call) - len') /\ stored < Size(call) - len'
      BY <2>1, <2>2
    <3> QED
      BY <2>1, <2>5, <3>1, <3>2, <3>3
  <2>13. ReadInv' /\ AbsentInv' /\ KeptInv'
    BY <2>1, <2>5, <2>15
  <2>14. ClockInv'
    BY <2>1 DEF Inv
  <2> QED
    BY <2>9, <2>10, <2>11, <2>12, <2>13, <2>14 DEF Inv
<1>11. ASSUME Stop PROVE Inv'
  <2>0. /\ pc = "stop" /\ pc' = "stamp" /\ stored' = Size(call) - len
        /\ mem' = [a \in DOMAIN mem |-> IF a \in DOMAIN latch THEN latch[a] ELSE mem[a]]
        /\ busy' \in BOOLEAN /\ slave' = "idle" /\ latch' = EmptyLatch
        /\ UNCHANGED <<call, kept, rcv, addr, len, buf, last, ptr, present, time, since, calls>>
    BY <1>0, <1>11 DEF Stop, Goto, BusStop
  <2>1. TypeOK'
    <3>1. mem' \in [0..(EEPROM_SIZE - 1) -> Byte]
      BY <2>0
    <3>2. Size(call) - len \in Nat
      BY <1>0, <2>0
    <3> QED
      BY <1>0, <2>0, <3>1, <3>2
  <2>2. CallInv'
    BY <1>0, <2>0
  <2>3. AddrInv'
    BY <1>0, <2>0
  <2>4. DeviceInv'
    BY <1>0, <2>0
  <2>5. StoredInv'
    BY <1>0, <2>0
  <2>6. ReadInv'
    BY <1>0, <2>0
  <2>7. ClockInv'
    BY <1>0, <2>0
  <2>8. AbsentInv' /\ KeptInv'
    BY <1>0, <2>0
  <2> QED
    BY <2>1, <2>2, <2>3, <2>4, <2>5, <2>6, <2>7, <2>8
<1>12. ASSUME Stamp PROVE Inv'
  BY <1>0, <1>12 DEF Stamp
<1>13. ASSUME Restart PROVE Inv'
  <2>0. /\ pc = "restart" /\ pc' = "receive" /\ latch' = EmptyLatch
        /\ slave' = (IF busy \/ ~present THEN "deaf" ELSE "read")
        /\ UNCHANGED <<mem, call, stored, kept, rcv, addr, len, buf, last, ptr, busy, present, time, since, calls>>
    BY <1>13 DEF Restart, Goto, Still
  <2>1. /\ slave = "write" /\ ptr = addr /\ ~busy /\ present /\ rcv = kept /\ call.op = "read"
        /\ len = Size(call) /\ buf = <<>> /\ addr = call.addr
    BY <2>0
  <2>2. slave' = "read"
    BY <2>0, <2>1
  <2>3. TypeOK'
    BY <2>0, <2>2
  <2>4. CallInv' /\ AddrInv' /\ KeptInv'
    BY <1>0, <2>0, <2>1
  <2>5. DeviceInv'
    <3>1. Shift' = 0
      BY <1>0, <2>0, <2>1 DEF Shift
    <3>3. call.addr \in Nat /\ Size(call) \in Nat
      BY <1>0, <2>0
    <3>4. \A a, n \in Nat : a + n - n - 0 = a
      OBVIOUS
    <3>2. call.addr + Size(call) - len - 0 = call.addr
      BY <2>1, <3>3, <3>4
    <3> QED
      BY <2>0, <2>1, <2>2, <3>1, <3>2
  <2>6. StoredInv' /\ ReadInv'
    BY <1>0, <2>0, <2>1
  <2>7. ClockInv' /\ AbsentInv'
    BY <1>0, <2>0, <2>1
  <2> QED
    BY <2>3, <2>4, <2>5, <2>6, <2>7
<1>14. ASSUME Receive PROVE Inv'
  <2>1. /\ pc = "receive" /\ pc' = IF len > 1 THEN "receive" ELSE "read_stop"
        /\ len' = len - 1 /\ slave = "read" /\ ~busy /\ present /\ latch = EmptyLatch
        /\ rcv' = NoByte
        /\ UNCHANGED <<mem, call, stored, kept, addr, last, slave, latch, busy, present, time, since, calls>>
    BY <1>14 DEF Receive, Goto, BusReceive
  <2>2. /\ call.addr \in Nat /\ Size(call) \in Nat /\ len \in Nat /\ len > 0
        /\ len <= Size(call) /\ ptr = call.addr + Size(call) - len - Shift
        /\ rcv = IF len = Size(call) THEN kept ELSE NoByte
    BY <1>0, <2>1
  <2>3. call.op = "read" /\ ~OutOfRange(call) /\ stored = 0 /\ addr = call.addr /\ call # NoCall
    BY <1>0, <2>1
  <2>4. /\ buf \in Seq(Byte) /\ Len(buf) = Size(call) - len /\ Len(buf) \in Nat
        /\ \A n \in 1..Len(buf) : buf[n] = Nth(kept, mem, call.addr, n)
    BY <2>1, <2>2
  <2>5. ptr \in Nat /\ ptr + 1 <= EEPROM_SIZE - 1 /\ Shift \in {0, 1} /\ Size(call) + call.addr <= EEPROM_SIZE - 1
    <3>1. Size(call) + call.addr <= EEPROM_SIZE - 1
      BY <1>0, <2>2, <2>3 DEF OutOfRange
    <3>2. ptr \in 0..(EEPROM_SIZE - 1) /\ Shift \in {0, 1}
      BY DEF Shift
    <3> HIDE DEF Inv
    <3> QED
      BY <1>0, <2>2, <3>1, <3>2
  <2>6. PICK b \in Byte :
           /\ buf' = Append(buf, b)
           /\ \/ rcv # NoByte /\ b = rcv /\ ptr' = ptr
              \/ rcv = NoByte /\ b = mem[ptr] /\ ptr' = ptr + 1
    <3>1. CASE rcv # NoByte
      BY <1>14, <2>1, <3>1 DEF Receive
    <3>2. CASE rcv = NoByte
      <4>1. PICK b \in Byte : BusReceive(b) /\ buf' = Append(buf, b)
        BY <1>14, <3>2 DEF Receive
      <4>2. b = mem[ptr] /\ ptr' = (ptr + 1) % EEPROM_SIZE
        BY <2>1, <4>1 DEF BusReceive
      <4> HIDE DEF Inv
      <4>3. (ptr + 1) % EEPROM_SIZE = ptr + 1
        BY <1>0, <2>5
      <4> QED
        BY <3>2, <4>1, <4>2, <4>3
    <3> QED
      BY <3>1, <3>2
  <2>7. /\ buf' \in Seq(Byte) /\ Len(buf') = Len(buf) + 1
        /\ \A n \in 1..Len(buf') : buf'[n] = IF n = Len(buf) + 1 THEN b ELSE buf[n]
    BY <2>4, <2>6
  <2>8. TypeOK /\ NoByte \notin Byte
    BY StoreAssumption
  <2> HIDE DEF Inv
  <2>9. ptr' = call.addr + Size(call) - len' - Shift'
    <3>1. Shift' = IF kept # NoByte THEN 1 ELSE 0
      BY <2>1, <2>2 DEF Shift
    <3>2. Shift = IF kept # NoByte /\ len # Size(call) THEN 1 ELSE 0
      BY <2>2 DEF Shift
    <3>3. CASE rcv # NoByte
      <4>1. Shift = 0 /\ Shift' = 1 /\ ptr' = ptr
        BY <2>2, <2>6, <3>1, <3>2, <3>3
      <4> QED
        BY <2>1, <2>2, <4>1
    <3>4. CASE rcv = NoByte
      <4>1. Shift' = Shift /\ ptr' = ptr + 1
        BY <2>2, <2>6, <3>1, <3>2, <3>4
      <4> QED
        BY <2>1, <2>2, <2>5, <4>1
    <3> QED
      BY <3>3, <3>4
  <2>10. b = Nth(kept, mem, call.addr, Len(buf) + 1)
    <3>1. CASE rcv # NoByte
      <4>1. Len(buf) + 1 = 1 /\ b = kept /\ kept # NoByte
        BY <2>2, <2>4, <2>6, <3>1
      <4> QED
        BY <4>1 DEF Nth
    <3>2. CASE rcv = NoByte /\ kept = NoByte
      <4>1. ptr = call.addr + (Len(buf) + 1) - 1 /\ b = mem[ptr]
        BY <2>2, <2>4, <2>6, <3>2 DEF Shift
      <4> QED
        BY <3>2, <4>1 DEF Nth
    <3>3. CASE rcv = NoByte /\ kept # NoByte
      <4>1. Shift = 1 /\ len # Size(call)
        BY <2>2, <3>3 DEF Shift
      <4>2. b = mem[ptr]
        BY <2>6, <3>3
      <4>3. ptr = call.addr + (Len(buf) + 1) - 2
        BY <2>2, <2>4, <4>1
      <4>4. Len(buf) + 1 # 1
        BY <2>2, <2>4, <4>1
      <4> QED
        BY <3>3, <4>2, <4>3, <4>4 DEF Nth
    <3> QED
      BY <3>1, <3>2, <3>3
  <2>11. TypeOK'
    <3>1. ptr' \in 0..(EEPROM_SIZE - 1) /\ len' \in Nat /\ pc' \in Pcs
      BY <1>0, <2>1, <2>2, <2>5, <2>6
    <3> HIDE DEF TypeOK
    <3> QED
      BY <2>1, <2>7, <2>8, <3>1 DEF TypeOK
  <2>12. CallInv' /\ AddrInv' /\ AbsentInv' /\ StoredInv' /\ KeptInv'
    <3>1. /\ len' <= Size(call) /\ (pc' = "receive" => len' > 0) /\ (pc' = "read_stop" => len' = 0)
          /\ len' # Size(call) /\ Size(call) > 0
      BY <2>1, <2>2
    <3> QED
      BY <2>1, <2>3, <3>1
  <2>13. DeviceInv'
    BY <2>1, <2>9
  <2>14. ReadInv'
    <3>1. Len(buf') = Size(call) - len'
      BY <2>1, <2>2, <2>4, <2>7
    <3>2. \A n \in 1..Len(buf') : buf'[n] = Nth(kept, mem, call.addr, n)
      BY <2>4, <2>7, <2>10
    <3> QED
      BY <2>1, <3>1, <3>2
  <2>15. ClockInv'
    BY <2>1 DEF Inv
  <2> QED
    BY <2>11, <2>12, <2>13, <2>14, <2>15 DEF Inv
<1>15. ASSUME ReadStop PROVE Inv'
  BY <1>0, <1>15 DEF ReadStop, Return, Goto, SReturn
<1>16. ASSUME Call PROVE Inv'
  <2>1. /\ pc = "idle" /\ pc' = "enter" /\ calls' = calls + 1 /\ calls < MaxCalls
        /\ call' \in Calls /\ addr' = call'.addr /\ len' = Size(call') /\ buf' = <<>>
        /\ UNCHANGED <<mem, stored, kept, rcv, last, slave, ptr, latch, busy, present, time, since>>
    BY <1>16 DEF Call
  <2>2. /\ call' # NoCall /\ call'.op \in {"write", "read"} /\ call'.addr \in Nat /\ Size(call') \in Nat
    BY <2>1, CallFacts
  <2> QED
    BY <1>0, <2>1, <2>2
<1>17. ASSUME Tick PROVE Inv'
  <2>1. /\ time' = (time + 1) % MsMod /\ since' = (IF since < MsMod THEN since + 1 ELSE since)
        /\ UNCHANGED <<mem, call, stored, result, kept, driver, device, calls>>
    BY <1>17 DEF Tick
  <2>2. time \in 0..(MsMod - 1) /\ last \in 0..(MsMod - 1) /\ since \in 0..MsMod
    OBVIOUS
  <2>3. ClockInv
    OBVIOUS
  <2>4. time' \in 0..(MsMod - 1) /\ since' \in 0..MsMod
    <3> HIDE DEF Inv
    <3> QED
      BY <1>0, <2>1, <2>2
  <2>5. (time + 1) % MsMod = IF time + 1 < MsMod THEN time + 1 ELSE 0
    <3> HIDE DEF Inv
    <3> QED
      BY <1>0, <2>2
  <2>6. ClockInv'
    <3> HIDE DEF Inv
    <3> QED
      BY <1>0, <2>1, <2>2, <2>3, <2>5
  <2>7. UNCHANGED <<mem, call, stored, kept, rcv, pc, addr, len, buf, last, slave, ptr, latch, busy, present, calls>>
    BY <2>1
  <2>8. TypeOK'
    BY <1>0, <2>4, <2>7
  <2>9. CallInv' /\ AddrInv'
    BY <1>0, <2>7
  <2>10. DeviceInv'
    BY <1>0, <2>7 DEF Shift
  <2>11. StoredInv'
    BY <1>0, <2>7
  <2>12. ReadInv'
    BY <1>0, <2>7
  <2>13. AbsentInv' /\ KeptInv'
    BY <1>0, <2>7
  <2> QED
    BY <2>6, <2>8, <2>9, <2>10, <2>11, <2>12, <2>13
<1>18. ASSUME Reset PROVE Inv'
  BY <1>0, <1>18 DEF Reset, SReset, SReturn
<1>20. ASSUME Abandon PROVE Inv'
  <2>1. /\ pc' = "idle" /\ call' = NoCall /\ stored' = 0 /\ kept' = rcv'
        /\ UNCHANGED <<mem, addr, len, buf, last, time, since, calls>>
        /\ \/ UNCHANGED <<rcv, slave, ptr, latch, busy, present>>
           \/ /\ pc = "receive"
              /\ \E b \in Byte : BusReceive(b) /\ rcv' = b
    BY <1>20 DEF Abandon, SReturn
  <2>2. /\ UNCHANGED <<slave, latch, busy, present>>
        /\ rcv' \in Byte \cup {NoByte} /\ ptr' \in 0..(EEPROM_SIZE - 1)
    <3>1. (ptr + 1) % EEPROM_SIZE \in 0..(EEPROM_SIZE - 1)
      <4>1. ptr + 1 \in Nat
        BY <1>0
      <4> QED
        BY <1>0, <4>1
    <3> QED
      BY <2>1, <3>1 DEF BusReceive
  <2>3. TypeOK'
    BY <1>0, <2>1, <2>2
  <2>4. CallInv' /\ AddrInv' /\ KeptInv' /\ DeviceInv' /\ StoredInv' /\ ReadInv'
    BY <1>0, <2>1, <2>2
  <2>5. ClockInv' /\ AbsentInv'
    BY <1>0, <2>1, <2>2
  <2> QED
    BY <2>3, <2>4, <2>5
<1>19. ASSUME UNCHANGED vars PROVE Inv'
  <2>0. UNCHANGED <<mem, call, stored, kept, rcv, pc, addr, len, buf, last, slave, ptr, latch, busy, present, time, since, calls>>
    BY <1>19 DEF vars
  <2>1. TypeOK'
    BY <1>0, <2>0
  <2>2. CallInv' /\ AddrInv'
    BY <1>0, <2>0
  <2>3. DeviceInv'
    BY <1>0, <2>0 DEF Shift
  <2>4. StoredInv'
    BY <1>0, <2>0
  <2>5. ReadInv'
    BY <1>0, <2>0
  <2>6. ClockInv' /\ AbsentInv' /\ KeptInv'
    BY <1>0, <2>0
  <2> QED
    BY <2>1, <2>2, <2>3, <2>4, <2>5, <2>6
<1> QED
  BY <1>1, <1>2, <1>3, <1>4, <1>5, <1>6, <1>7, <1>8, <1>9, <1>10, <1>11, <1>12, <1>13, <1>14, <1>15, <1>16, <1>17, <1>18, <1>19, <1>20 DEF Next, Driver

\* Inv holds throughout.
LEMMA Invariance == Spec => []Inv
<1>1. Init => Inv
  <2> SUFFICES ASSUME Init PROVE Inv
    OBVIOUS
  <2>1. /\ EEPROM_SIZE \in Nat \ {0} /\ MsMod \in Nat \ {0} /\ MaxCalls \in Nat
        /\ Contents \subseteq [0..(EEPROM_SIZE - 1) -> Byte] /\ DOMAIN EmptyLatch = {}
    BY StoreAssumption, DriverAssumption DEF EmptyLatch
  <2>2. TypeOK
    BY <2>1 DEF Init, SInit, TypeOK, Pcs, Slaves
  <2>3. CallInv /\ AddrInv /\ KeptInv /\ DeviceInv /\ StoredInv /\ ReadInv /\ AbsentInv
    BY DEF Init, SInit, CallInv, AddrInv, KeptInv, DeviceInv, StoredInv, ReadInv, AbsentInv
  <2>4. ClockInv
    BY <2>1 DEF Init, ClockInv
  <2> QED
    BY <2>2, <2>3, <2>4 DEF Inv
<1> QED
  BY <1>1, InvSteps, PTL DEF Spec

-----------------------------------------------------------------------------
(* The refinement.                                                         *)

\* A STOP stores the bytes sent since the last one, where and in the order the
\* caller gave them (eeprom.c:26-43).
LEMMA StopStores ==
    ASSUME Inv, Stop
    PROVE  SStore
<1>1. /\ pc = "stop" /\ stored' = Size(call) - len
      /\ mem' = [a \in DOMAIN mem |-> IF a \in DOMAIN latch THEN latch[a] ELSE mem[a]]
      /\ UNCHANGED <<call, result, kept>>
  BY DEF Stop, Goto, BusStop
<1>2. /\ call.op = "write" /\ ~OutOfRange(call) /\ len \in Nat /\ stored \in Nat
      /\ call \in Calls /\ addr = call.addr + Size(call) - len
  BY <1>1 DEF Inv, TypeOK, CallInv, AddrInv
<1>3. call.addr \in Nat /\ Size(call) \in Nat
  BY <1>2, CallFacts
<1>4. /\ stored < Size(call) - len
      /\ DOMAIN latch = (call.addr + stored)..(addr - 1)
      /\ \A a \in DOMAIN latch : latch[a] = call.data[a - call.addr + 1]
  BY <1>1 DEF Inv, StoredInv
<1> DEFINE n == Size(call) - len
<1>5. n \in (stored + 1)..Size(call)
  BY <1>2, <1>3, <1>4
<1>6. DOMAIN latch = (call.addr + stored)..(call.addr + n - 1)
  BY <1>2, <1>3, <1>4
<1>7. mem' = Write(mem, call.addr, call.data, stored, n)
  BY <1>1, <1>4, <1>6 DEF Write
<1> QED
  BY <1>1, <1>2, <1>5, <1>7 DEF SStore

\* What has been received is what is stored, behind the byte that was left over.
LEMMA ReceivedIsRead ==
    ASSUME Inv, pc = "read_stop"
    PROVE  buf = ReadAfter(kept, mem, call.addr, call.len) /\ call.len # 0
<1>1. call.op = "read" /\ len = 0 /\ buf \in Seq(Byte) /\ call \in Calls /\ Size(call) > 0
  BY DEF Inv, TypeOK, CallInv, KeptInv
<1>2. call.len = Size(call) /\ Size(call) \in Nat
  BY <1>1, CallFacts DEF Size
<1>3. Len(buf) = call.len /\ \A n \in 1..Len(buf) : buf[n] = Nth(kept, mem, call.addr, n)
  BY <1>1, <1>2 DEF Inv, ReadInv
<1>4. buf = [n \in 1..call.len |-> Nth(kept, mem, call.addr, n)]
  BY <1>1, <1>3
<1> QED
  BY <1>1, <1>2, <1>4 DEF ReadAfter

\* A read that is abandoned leaves no byte behind, or one of those it was for
\* (i2c.c:97-111).
LEMMA AbandonLeaves ==
    ASSUME Inv, Abandon
    PROVE  SAbandon
<1>1. /\ pc # "idle" /\ SReturn(NoResult) /\ kept' = rcv'
      /\ \/ rcv' = rcv
         \/ /\ pc = "receive"
            /\ \E b \in Byte : BusReceive(b) /\ rcv' = b
  BY DEF Abandon, driver
<1>2. call # NoCall /\ call \in Calls /\ (pc \notin {"receive", "read_stop"} => rcv = kept)
      /\ rcv \in {kept, NoByte}
  BY <1>1 DEF Inv, TypeOK, Pcs, CallInv, KeptInv
<1>3. CASE pc \notin {"receive", "read_stop"}
  BY <1>1, <1>2, <1>3 DEF SAbandon
<1>4. CASE pc \in {"receive", "read_stop"}
  <2>1. call.op = "read" /\ ~OutOfRange(call)
    BY <1>4 DEF Inv, CallInv
  <2>2. CASE rcv' = rcv
    BY <1>1, <1>2, <2>1, <2>2 DEF SAbandon, LeftBy
  <2>3. CASE rcv' # rcv
    <3>1. pc = "receive" /\ slave = "read" /\ ptr = call.addr + Size(call) - len - Shift
      BY <1>1, <2>3 DEF Inv, DeviceInv
    <3>2. rcv' = mem[ptr]
      BY <1>1, <2>3, <3>1 DEF BusReceive
    <3>3. /\ call.len = Size(call) /\ Size(call) \in Nat /\ call.addr \in Nat
          /\ len \in Nat /\ len > 0 /\ len <= Size(call)
      BY <1>2, <2>1, <3>1, CallFacts DEF Size, Inv, TypeOK, CallInv
    <3>4. ptr \in call.addr..(call.addr + call.len - 1)
      BY <3>1, <3>3 DEF Shift
    <3> QED
      BY <1>1, <1>2, <2>1, <3>2, <3>4 DEF SAbandon, LeftBy
  <2> QED
    BY <2>2, <2>3
<1> QED
  BY <1>3, <1>4

\* Every step of the driver, the device and the clock is one step of EepromStore, or
\* none.
LEMMA Steps ==
    ASSUME Inv, [Next]_vars
    PROVE  [SNext]_svars
<1> USE DEF driver, device, clock, svars
<1>0. /\ pc = "idle" <=> call = NoCall
      /\ pc \notin {"receive", "read_stop"} => rcv = kept
      /\ pc = "read_stop" => rcv = NoByte
  BY DEF Inv, CallInv, KeptInv
<1>1. ASSUME Refuse PROVE SRefuse
  BY <1>0, <1>1 DEF Refuse, Return, Goto, SRefuse
<1>2. ASSUME ReadNothing PROVE SRead
  <2>1. /\ pc = "enter" /\ call.op = "read" /\ len = 0 /\ ~OutOfRange(call) /\ SReturn(Returned(<<>>))
        /\ kept' = kept
    BY <1>0, <1>2 DEF ReadNothing, Return
  <2>2. call.len = 0
    BY <2>1 DEF Inv, CallInv, Size
  <2>3. ReadAfter(kept, mem, call.addr, 0) = <<>>
    BY DEF ReadAfter
  <2> QED
    BY <2>1, <2>2, <2>3 DEF SRead
<1>3. ASSUME WriteLoop PROVE [SNext]_svars
  <2>1. CASE len = 0
    <3>1. pc = "loop" /\ SReturn(Written) /\ kept' = kept
      BY <1>0, <1>3, <2>1 DEF WriteLoop, Return, Goto
    <3>2. call.op = "write" /\ ~OutOfRange(call) /\ stored = Size(call) - len /\ call \in Calls
      BY <3>1 DEF Inv, TypeOK, CallInv, StoredInv
    <3>3. stored = Size(call)
      BY <2>1, <3>2, CallFacts
    <3> QED
      BY <3>1, <3>2, <3>3 DEF SWritten, SNext
  <2>2. CASE len # 0
    BY <1>3, <2>2 DEF WriteLoop, Still
  <2> QED
    BY <2>1, <2>2
<1>4. ASSUME Stop PROVE SStore
  BY <1>4, StopStores
<1>5. ASSUME ReadStop PROVE SRead
  <2>1. pc = "read_stop" /\ SReturn(Returned(buf)) /\ kept' = NoByte
    BY <1>0, <1>5 DEF ReadStop, Return, Goto
  <2>2. call.op = "read" /\ ~OutOfRange(call)
    BY <2>1 DEF Inv, CallInv
  <2> QED
    BY <2>1, <2>2, ReceivedIsRead DEF SRead
<1>6. ASSUME Call PROVE SCall
  BY <1>0, <1>6 DEF Call, SCall
<1>7. ASSUME Reset PROVE SReset
  BY <1>7 DEF Reset
<1>9. ASSUME Abandon PROVE SAbandon
  BY <1>9, AbandonLeaves
<1>8. ASSUME \/ Enter \/ Wait \/ Start \/ Control \/ Address \/ Data \/ Stamp \/ Restart \/ Receive
             \/ Tick \/ CycleDone \/ UNCHANGED vars
      PROVE  UNCHANGED svars
  BY <1>8 DEF Enter, Wait, Start, Control, Address, Data, Stamp, Restart, Receive, Tick, CycleDone,
              Still, Goto, vars
<1> QED
  BY <1>1, <1>2, <1>3, <1>4, <1>5, <1>6, <1>7, <1>8, <1>9 DEF Next, Driver, SNext

\* A call that returns without a device has refused its arguments or had nothing to
\* do.
LEMMA AbsentSteps ==
    ASSUME Inv, Next, ~present, pc # "idle", pc' = "idle", Size(call) > 0
    PROVE  result'.status # 0
<1>0. /\ pc \in {"enter", "loop", "wait", "start", "control"}
      /\ pc # "enter" => len = Size(call)
      /\ pc = "enter" => len = Size(call)
      /\ call \in Calls /\ Size(call) \in Nat
  BY CallFacts DEF Inv, TypeOK, AbsentInv, CallInv
<1>1. ASSUME Reset PROVE result'.status # 0
  BY <1>1 DEF Reset, SReset, SReturn, NoResult
<1>7. ASSUME Abandon PROVE result'.status # 0
  BY <1>7 DEF Abandon, SReturn, NoResult
<1>2. ASSUME Refuse PROVE result'.status # 0
  BY <1>2 DEF Refuse, Return, SReturn, Refused
<1>3. ~ReadNothing /\ ~ReadStop
  BY <1>0 DEF ReadNothing, ReadStop, Return, Goto
<1>4. ~WriteLoop
  BY <1>0 DEF WriteLoop, Return, Goto
<1>5. ~(\/ Enter \/ Wait \/ Start \/ Control \/ Address \/ Data \/ Stop \/ Stamp \/ Restart \/ Receive)
  BY DEF Enter, Wait, Start, Control, Address, Data, Stop, Stamp, Restart, Receive, Goto
<1>6. ~(Call \/ Tick \/ CycleDone)
  BY DEF Call, Tick, CycleDone, driver
<1> QED
  BY <1>1, <1>2, <1>3, <1>4, <1>5, <1>6, <1>7 DEF Next, Driver

-----------------------------------------------------------------------------

\* Every variable of the driver and the device keeps its type: in particular the
\* device's counter stays in the device.
THEOREM EepromTypes == Spec => []TypeOK
<1>1. Inv => TypeOK
  BY DEF Inv
<1> QED
  BY <1>1, Invariance, PTL

\* No byte of a write (eeprom.c:34-38) wraps in its page or is lost to a device in
\* its write cycle.
THEOREM LandsWhereMeant == Spec => []BytesLand
<1>1. Inv => BytesLand
  BY DEF Inv, DeviceInv, BytesLand
<1> QED
  BY <1>1, Invariance, PTL

\* The wait of eeprom.c:20 is over when its 6 ms are, if the clock has not wrapped.
THEOREM WaitEnds == Spec => []WaitIsForTheCycle
<1>1. Inv => WaitIsForTheCycle
  <2> SUFFICES ASSUME Inv, pc = "wait", since >= WaitMs, last + since < MsMod
               PROVE  ~Waiting
    BY DEF WaitIsForTheCycle
  <2>1. /\ MsMod \in Nat \ {0} /\ WaitMs \in Nat /\ last \in Nat /\ since \in Nat /\ since < MsMod
    BY DriverAssumption DEF Inv, TypeOK
  <2>2. time = last + since
    BY <2>1 DEF Inv, ClockInv
  <2>3. (last + WaitMs) % MsMod = last + WaitMs
    BY <2>1
  <2> QED
    BY <2>1, <2>2, <2>3 DEF Waiting
<1> QED
  BY <1>1, Invariance, PTL

\* A device that is not there is waited for, never reported on (eeprom.c:30, 48).
THEOREM NothingReported == Spec => MissingNotReported
<1>1. Inv /\ [Next]_vars
        => [~present /\ pc # "idle" /\ pc' = "idle" /\ Size(call) > 0 => result'.status # 0]_vars
  BY AbsentSteps
<1> QED
  BY <1>1, Invariance, PTL DEF Spec, MissingNotReported

\* The driver, cutting writes at pages and polling for acknowledges, through resets
\* in the middle of a write cycle and jumps out of any of its calls, is the array of
\* bytes of EepromStore: a read returns what is stored, unless a read was abandoned
\* before it, whose last byte it then begins with (eeprom.c:16-65, i2c.c:97-113).
THEOREM ImplementsStore == Spec => Store
<1>1. Init => SInit
  BY DEF Init
<1> QED
  BY <1>1, Steps, Invariance, PTL DEF Spec, Store
=============================================================================
