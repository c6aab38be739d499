------------------------------ MODULE SaveFile ------------------------------
(***************************************************************************)
(* Loading a file into the EEPROM over the serial line: the host's sender  *)
(* (programs/utils/pysend.py or sendplain.sh), the receive queue of the    *)
(* UART, uart_direct_read_n (uart.c), receive_and_store (savefile.c) and   *)
(* the read-back of test_savefile (tests.c), over the EEPROM as            *)
(* EepromStore describes it.                                               *)
(*                                                                         *)
(* There is no acknowledge and no time-out, and the line does not pause:   *)
(* the 30 ms that pysend sleeps from the write of 64 bytes on are over     *)
(* before they are out, 33 ms at 19200 baud.  A byte that finds the queue  *)
(* full is lost, and so are the ones after it until the overrun is         *)
(* cleared.  A jump of timers_handle_t3 ends a load or a read-back.        *)
(***************************************************************************)
EXTENDS EepromStore

CONSTANTS
    Base,       \* the values of a byte, 256
    SizeBytes,  \* bytes of the size that is sent first, 4
    FifoSize,   \* the UART's receive queue, 4
    BUFSIZE,    \* bytes per eeprom_write, 64
    ReadBuf,    \* bytes per eeprom_read of the read-back, 100
    U16,        \* 2^16, the width of addr
    Files,      \* the files that users send
    MaxSends    \* bound: files sent in a behaviour

ASSUME SaveAssumption == /\ Base \in Nat \ {0, 1} /\ Byte = 0..(Base - 1)
                         /\ {SizeBytes, FifoSize, BUFSIZE, ReadBuf} \subseteq Nat \ {0}
                         /\ U16 \in Nat /\ EEPROM_SIZE <= U16 /\ ReadBuf < EEPROM_SIZE
                         /\ Files \subseteq Seq(Byte)
                         /\ MaxSends \in Nat

VARIABLES
    pc,         \* the board: where receive_and_store or test_savefile is
    stage,      \* what is being read: "size", a whole "chunk", the "rest"
    buf,        \* the bytes that uart_direct_read_n has read
    filesize,   \* filesize, then what receive_and_store returned
    remaining,  \* remaining, then the sz of the read-back
    addr,       \* the next EEPROM address
    fifo,       \* the UART's receive queue
    oerr,       \* its overrun bit
    line,       \* bytes the host has not sent yet
    sends,      \* files sent, for the bound
    back,       \* bytes sent back to the host
    file,       \* history: the last file sent
    single,     \* history: it is the only one sent to this load
    lost,       \* history: a byte of it was lost
    clean       \* history: nothing was left behind before the read-back, and
                \* nothing ended it

board == <<pc, stage, buf, filesize, remaining, addr, back>>
queue == <<fifo, oerr>>
host  == <<line, sends>>
hist  == <<file, single, lost, clean>>
vars  == <<svars, board, queue, host, hist>>

(* The values of a usize; an isize is negative in their upper half.        *)
Power[k \in 0..SizeBytes] == IF k = 0 THEN 1 ELSE Base * Power[k - 1]
USize == Power[SizeBytes]
Signed(n) == IF 2 * n < USize THEN n ELSE n - USize

(* A size as it is sent, the least significant byte first, and as read.    *)
Bytes(n) == [i \in 1..SizeBytes |-> (n \div Power[i - 1]) % Base]
Number(s) ==
    LET upto[k \in 0..SizeBytes] == IF k = 0 THEN 0 ELSE upto[k - 1] + s[k] * Power[k - 1]
    IN  Signed(upto[SizeBytes])

(* Files are of less than 2 GiB.                                           *)
ASSUME FilesAssumption == \A f \in Files : 2 * Len(f) < USize

Loading == {"check", "poll", "store"}

TypeOK ==
    /\ mem \in [0..(EEPROM_SIZE - 1) -> Byte]
    /\ call = NoCall \/ call.op = "write"
    /\ pc \in {"menu", "ask", "back", "wild"} \cup Loading
    /\ stage \in {"size", "chunk", "rest"}
    /\ buf \in Seq(Byte)
    /\ {filesize, remaining} \subseteq -USize..USize
    /\ addr \in 0..(U16 - 1)
    /\ fifo \in Seq(Byte) /\ Len(fifo) <= FifoSize /\ oerr \in BOOLEAN
    /\ line \in Seq(Byte) /\ sends \in 0..MaxSends
    /\ back \in Seq(Byte) /\ kept \in Byte \cup {NoByte}
    /\ file \in Files \cup {<<>>}
    /\ {single, lost, clean} \subseteq BOOLEAN

(* The locals of the functions, before they are called and once they are   *)
(* left.                                                                   *)
NoLocals == /\ stage' = "size" /\ buf' = <<>> /\ back' = <<>>
            /\ filesize' = 0 /\ remaining' = 0 /\ addr' = 0

Init ==
    /\ SInit
    /\ pc = "menu" /\ stage = "size" /\ buf = <<>> /\ back = <<>>
    /\ filesize = 0 /\ remaining = 0 /\ addr = 0
    /\ fifo = <<>> /\ oerr = FALSE
    /\ line = <<>> /\ sends = 0
    /\ file = <<>> /\ single = FALSE /\ lost = FALSE /\ clean = FALSE

-----------------------------------------------------------------------------
(* The host and the line.                                                  *)

(* The user starts the sender: when the board asks for a file, too early,  *)
(* or again, because the board seems to hang.                              *)
Send(f) == /\ line = <<>> /\ sends < MaxSends
           /\ line' = Bytes(Len(f)) \o f
           /\ sends' = sends + 1
           /\ file' = f /\ lost' = FALSE
           /\ single' = (pc = "poll" /\ stage = "size" /\ buf = <<>> /\ fifo = <<>>)
           /\ UNCHANGED <<svars, board, queue, clean>>

(* The loop that reads bytes is faster than the line, so the queue cannot  *)
(* overrun while it runs.                                                  *)
ByteArrives ==
    /\ line # <<>>
    /\ pc \in {"check", "poll"} => Len(fifo) < FifoSize
    /\ line' = Tail(line)
    /\ IF oerr \/ Len(fifo) = FifoSize
       THEN oerr' = TRUE /\ lost' = TRUE /\ UNCHANGED fifo
       ELSE fifo' = Append(fifo, Head(line)) /\ UNCHANGED <<oerr, lost>>
    /\ UNCHANGED <<svars, board, sends, file, single, clean>>

-----------------------------------------------------------------------------
(* uart_direct_read_n                                                      *)

Want == IF stage = "size" THEN SizeBytes
        ELSE IF stage = "chunk" THEN BUFSIZE ELSE remaining

Receiving == UNCHANGED <<svars, filesize, remaining, addr, back, host, hist>>

CheckNoClear ==   \* mutant: OERR is not cleared
    /\ pc = "check" /\ Want >= 0 /\ Len(buf) < Want
    /\ pc' = "poll"
    /\ Receiving /\ UNCHANGED <<stage, buf, fifo, oerr>>

Check == /\ pc = "check" /\ Want >= 0 /\ Len(buf) < Want
         /\ pc' = "poll"
         /\ oerr' = (oerr /\ fifo # <<>>)
         /\ Receiving /\ UNCHANGED <<stage, buf, fifo>>

PollNoWait ==     \* mutant: a byte is taken from an empty queue
    /\ pc = "poll" /\ pc' = "check"
    /\ buf' = Append(buf, IF fifo = <<>> THEN 0 ELSE Head(fifo))
    /\ fifo' = IF fifo = <<>> THEN <<>> ELSE Tail(fifo)
    /\ Receiving /\ UNCHANGED <<stage, oerr>>

Poll == /\ pc = "poll" /\ fifo # <<>>
        /\ pc' = "check"
        /\ buf' = Append(buf, Head(fifo)) /\ fifo' = Tail(fifo)
        /\ Receiving /\ UNCHANGED <<stage, oerr>>

-----------------------------------------------------------------------------
(* receive_and_store                                                       *)

Load == /\ pc = "menu"
        /\ pc' = "check" /\ NoLocals
        /\ single' = FALSE
        /\ UNCHANGED <<svars, queue, host, file, lost, clean>>

StageFor(n) == IF n >= BUFSIZE THEN "chunk" ELSE "rest"

SizeRead == /\ pc = "check" /\ stage = "size" /\ Len(buf) = Want
            /\ filesize' = Number(buf) /\ remaining' = filesize'
            /\ stage' = StageFor(remaining') /\ buf' = <<>>
            /\ UNCHANGED <<svars, pc, addr, back, queue, host, hist>>

(* A negative size is a huge usize to uart_direct_read_n, which fills the  *)
(* stack; what happens then is not modelled.                               *)
NegativeSize == /\ pc = "check" /\ Want < 0
                /\ pc' = "wild"
                /\ Receiving /\ UNCHANGED <<stage, buf, queue>>

StoreChunk == /\ pc = "check" /\ stage # "size" /\ Len(buf) = Want
              /\ pc' = "store"
              /\ call' = [op |-> "write", addr |-> addr, data |-> buf]
              /\ UNCHANGED <<mem, stored, result, kept>>
              /\ UNCHANGED <<stage, buf, filesize, remaining, addr, back, queue, host, hist>>

EepromWrites == /\ pc = "store" /\ (SRefuse \/ SStore \/ SWritten)
                /\ UNCHANGED <<board, queue, host, hist>>

StoredHere ==     \* mutant: addr is not advanced
    /\ pc = "store" /\ call = NoCall /\ result = Written /\ stage = "chunk"
    /\ remaining' = remaining - BUFSIZE
    /\ pc' = "check" /\ stage' = StageFor(remaining') /\ buf' = <<>>
    /\ UNCHANGED <<svars, filesize, addr, back, queue, host, hist>>

Stored == /\ pc = "store" /\ call = NoCall /\ result = Written /\ stage = "chunk"
          /\ remaining' = remaining - BUFSIZE
          /\ addr' = (addr + BUFSIZE) % U16
          /\ pc' = "check" /\ stage' = StageFor(remaining') /\ buf' = <<>>
          /\ UNCHANGED <<svars, filesize, back, queue, host, hist>>

Return == /\ pc = "store" /\ call = NoCall
          /\ \/ result # Written /\ filesize' = -1
             \/ result = Written /\ stage = "rest" /\ UNCHANGED filesize
          /\ pc' = "ask"
          /\ UNCHANGED <<svars, stage, buf, remaining, addr, back, queue, host, hist>>

-----------------------------------------------------------------------------
(* The rest of test_savefile: button 2 goes back to the menu, button 4     *)
(* sends the file back.                                                    *)

Quit == /\ pc = "ask" /\ pc' = "menu" /\ NoLocals
        /\ UNCHANGED <<svars, queue, host, hist>>

(* sz is compared with sizeof(buffer) as a usize.                          *)
ReadBack == /\ pc = "ask" /\ pc' = "back"
            /\ remaining' = filesize % USize
            /\ addr' = 0 /\ back' = <<>> /\ buf' = <<>>
            /\ clean' = (kept = NoByte)
            /\ UNCHANGED <<svars, stage, filesize, queue, host, file, single, lost>>

(* The next read of the read-back, as eeprom_read does it: a refused one   *)
(* leaves the buffer as it was.                                            *)
BackSize == IF remaining > ReadBuf THEN ReadBuf ELSE remaining
BackRead == [op |-> "read", addr |-> addr, len |-> BackSize]
ReadPiece == /\ buf' = IF OutOfRange(BackRead) THEN buf ELSE ReadAfter(kept, mem, addr, BackSize)
             /\ kept' = IF OutOfRange(BackRead) \/ BackSize = 0 THEN kept ELSE NoByte
             /\ UNCHANGED <<mem, call, stored, result>>

BackChunkHere ==  \* mutant: addr is not advanced
    /\ pc = "back" /\ ReadPiece
    /\ back' = back \o SubSeq(buf', 1, BackSize)
    /\ remaining' = remaining - BackSize
    /\ pc' = IF remaining > ReadBuf THEN "back" ELSE "menu"
    /\ UNCHANGED <<addr, stage, filesize, queue, host, hist>>

BackChunkNoWrap ==  \* mutant: addr is wider than a u16
    /\ pc = "back" /\ ReadPiece
    /\ back' = back \o SubSeq(buf', 1, BackSize)
    /\ remaining' = remaining - BackSize
    /\ addr' = addr + BackSize
    /\ pc' = IF remaining > ReadBuf THEN "back" ELSE "menu"
    /\ UNCHANGED <<stage, filesize, queue, host, hist>>

BackChunk ==
    /\ pc = "back" /\ ReadPiece
    /\ back' = back \o SubSeq(buf', 1, BackSize)
    /\ remaining' = remaining - BackSize
    /\ addr' = (addr + BackSize) % U16
    /\ pc' = IF remaining > ReadBuf THEN "back" ELSE "menu"
    /\ UNCHANGED <<stage, filesize, queue, host, hist>>

-----------------------------------------------------------------------------
(* The jump of timers_handle_t3, into the live main_menu.  An abandoned    *)
(* read may leave a byte behind.                                           *)
Abandon == /\ pc \in Loading \cup {"ask", "back"} /\ pc' = "menu"
           /\ NoLocals /\ SReturn(NoResult)
           /\ kept' \in {kept} \cup (IF pc = "back" THEN LeftBy(BackRead) ELSE {})
           /\ single' = FALSE /\ clean' = FALSE
           /\ UNCHANGED <<queue, host, file, lost>>

(* The reset button: the EEPROM keeps what it has, the host goes on.       *)
Reset == /\ pc' = "menu" /\ NoLocals /\ SReset
         /\ fifo' = <<>> /\ oerr' = FALSE
         /\ single' = FALSE /\ clean' = FALSE
         /\ UNCHANGED <<host, file, lost>>

Board == \/ Check \/ Poll \/ SizeRead \/ NegativeSize \/ StoreChunk
         \/ EepromWrites \/ Stored \/ Return \/ BackChunk

Next == \/ Board \/ ByteArrives \/ (\E f \in Files : Send(f))
        \/ Load \/ Quit \/ ReadBack \/ Abandon \/ Reset

Spec == Init /\ [][Next]_vars

(* The board runs and the host, once started, sends.                       *)
FairSpec == Spec /\ WF_vars(Board) /\ WF_vars(ByteArrives)

-----------------------------------------------------------------------------
(* What a load reports is what it stored: the file that was sent, if it    *)
(* fits and no byte was lost, and -1 if it does not fit (receive_and_store *)
(* over eeprom_write's pages, and the last, shorter piece).                *)
LoadedFile ==
    pc = "ask" /\ single /\ ~lost =>
        IF Len(file) < EEPROM_SIZE
        THEN filesize = Len(file) /\ Read(mem, 0, Len(file)) = file
        ELSE filesize = -1

(* A byte lost to the queue is never made up: unless the user sends        *)
(* something more, such a load does not report a file (uart_direct_read_n  *)
(* has no time-out).                                                       *)
LossNotReported == pc = "ask" /\ single /\ lost => filesize = -1

(* The host reads back what the EEPROM holds of the file that was loaded,  *)
(* however its size compares with the buffer's (test_savefile), if no read *)
(* before it was abandoned: i2c_receive hands a byte that such a read left *)
(* over to this one, which is then off by one byte (i2c.c:101-103).        *)
ReadBackFaithful ==
    [][(pc = "back" /\ pc' = "menu" /\ clean' /\ filesize >= 0)
           => back' = Read(mem, 0, filesize)]_vars

(* A load whose file is sent while it waits for it ends, even if bytes     *)
(* overran the queue before it began, unless a byte is lost while a chunk  *)
(* is being stored (uart_direct_read_n clears the overrun, and has no      *)
(* time-out).                                                              *)
LoadEnds ==
    single ~> ~single \/ pc \notin Loading \/ (lost /\ stage # "size")
=============================================================================
