----------------------------- MODULE EepromStore -----------------------------
(***************************************************************************)
(* What eeprom_write and eeprom_read promise their callers: an array of    *)
(* bytes.  A call out of range is refused and changes nothing.  A write    *)
(* stores its bytes in order, some at a time, and returns when all of them *)
(* are stored.  A read returns what is stored.                             *)
(*                                                                         *)
(* A call can be abandoned: by a reset of the board, or by the jump of     *)
(* timers_handle_t3.  A read that is abandoned by the jump may leave one   *)
(* byte behind.  The next read hands that byte over first, and after it    *)
(* one byte less of what is stored (i2c.c:101-103).                        *)
(***************************************************************************)
EXTENDS Integers, Sequences

CONSTANTS
    EEPROM_SIZE,   \* bytes in the device
    Byte,          \* the values of a byte
    NoByte,        \* no value of a byte
    Addresses,     \* the addresses callers use
    Payloads,      \* the sequences of bytes callers write
    Lengths,       \* the lengths callers read
    Contents       \* what the device may hold at first

ASSUME StoreAssumption == /\ EEPROM_SIZE \in Nat \ {0} /\ NoByte \notin Byte
                          /\ Addresses \subseteq Nat
                          /\ Payloads \subseteq Seq(Byte)
                          /\ Lengths \subseteq Nat
                          /\ Contents \subseteq [0..(EEPROM_SIZE - 1) -> Byte]

VARIABLES
    mem,      \* contents of the device, as a reader sees them
    call,     \* the call in progress
    stored,   \* how many bytes of the write in progress are in mem
    result,   \* what the last call returned
    kept      \* the byte an abandoned read left behind, or NoByte

svars == <<mem, call, stored, result, kept>>

NoCall == [op |-> "none"]
Calls == [op : {"write"}, addr : Addresses, data : Payloads]
           \cup [op : {"read"}, addr : Addresses, len : Lengths]

Size(c) == IF c.op = "write" THEN Len(c.data) ELSE c.len

(* Both functions refuse a range whose end is above 0x7FFF.                *)
OutOfRange(c) == Size(c) + c.addr > EEPROM_SIZE - 1

(* m with bytes i+1 to j of d written from address a on.                   *)
Write(m, a, d, i, j) ==
    [x \in DOMAIN m |-> IF x \in (a + i)..(a + j - 1) THEN d[x - a + 1] ELSE m[x]]

Read(m, a, n) == [j \in 1..n |-> m[a + j - 1]]

(* The same with a byte k left behind, if there is one.                    *)
Nth(k, m, a, j) == IF k = NoByte THEN m[a + j - 1] ELSE IF j = 1 THEN k ELSE m[a + j - 2]
ReadAfter(k, m, a, n) == [j \in 1..n |-> Nth(k, m, a, j)]

(* What a call leaves behind: a read, no byte or one of those it was for.  *)
LeftBy(c) == IF c.op = "read" /\ ~OutOfRange(c)
             THEN {mem[x] : x \in c.addr..(c.addr + c.len - 1)} \cup {NoByte}
             ELSE {}

Refused == [status |-> -1]
Written == [status |-> 0]
Returned(bytes) == [status |-> 0, bytes |-> bytes]
NoResult == [status |-> 1]   \* the last call was abandoned, or there was none

SInit == /\ mem \in Contents
         /\ call = NoCall /\ stored = 0 /\ result = NoResult /\ kept = NoByte

SCall == /\ call = NoCall
         /\ call' \in Calls
         /\ UNCHANGED <<mem, stored, result, kept>>

SReturn(r) == /\ call' = NoCall /\ stored' = 0 /\ result' = r
              /\ UNCHANGED mem

SRefuse == /\ call # NoCall /\ OutOfRange(call)
           /\ SReturn(Refused) /\ UNCHANGED kept

SStore == /\ call.op = "write" /\ ~OutOfRange(call)
          /\ \E n \in (stored + 1)..Size(call) :
                /\ mem' = Write(mem, call.addr, call.data, stored, n)
                /\ stored' = n
          /\ UNCHANGED <<call, result, kept>>

SWritten == /\ call.op = "write" /\ ~OutOfRange(call)
            /\ stored = Size(call)
            /\ SReturn(Written) /\ UNCHANGED kept

SRead == /\ call.op = "read" /\ ~OutOfRange(call)
         /\ SReturn(Returned(ReadAfter(kept, mem, call.addr, call.len)))
         /\ kept' = IF call.len = 0 THEN kept ELSE NoByte

SAbandon == /\ call # NoCall
            /\ SReturn(NoResult)
            /\ kept' \in {kept} \cup LeftBy(call)

SReset == SReturn(NoResult) /\ kept' = NoByte

SNext == SCall \/ SRefuse \/ SStore \/ SWritten \/ SRead \/ SAbandon \/ SReset

Store == SInit /\ [][SNext]_svars
=============================================================================
