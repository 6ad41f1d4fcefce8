------------------------------ MODULE SdDriver ------------------------------
(* The SD driver of the BCOS ROM (src/fs/sdcmds.s and sdcard.c), clocking one *)
(* bit at a time through the VIA into the card of module SdCard.  A routine   *)
(* of the driver hands a byte to spi_send or waits for one of spi_recv, and   *)
(* goes on when its eight bits are through.                                   *)
EXTENDS SdCard

CONSTANTS
  rom_crc(_),   \* crc16_xmodem_sdsector
  InitialCards, \* what may be in the slot
  Lbas,         \* sectors that the filesystem asks for (below 256 here)
  Sectors,      \* what it writes
  CanTakeOut    \* whether the card may be pulled out of the slot

(* The sectors that may ever lie on a card: those of the images, those that   *)
(* are written, and the zeros that fill a gap.                                *)
HeldSectors == (UNION {ToSet(c.image) : c \in InitialCards}) \cup Sectors \cup {Zeros}

ASSUME DriverAssumption ==
  /\ Lbas \subseteq 0..255 /\ CanTakeOut \in BOOLEAN
  /\ Sectors \subseteq [1..SECTOR -> 0..255]
  /\ \A c \in InitialCards :
       /\ c.image \in Seq([1..SECTOR -> 0..255]) /\ c.read_only \in BOOLEAN
       /\ c = FreshCard(c.image, c.read_only)
ASSUME ChecksumAssumption ==
  \A sector \in HeldSectors : card_crc(sector) \in Nat /\ card_crc(sector) < 65536

VARIABLES
  card,
  port,     \* VIA port A: [cs, clk, mosi]
  spi,      \* the byte under way: [op, byte, n], n bits to go
  A,        \* the byte received last
  pc,       \* where the driver stands
  which,    \* the SD command it is in
  i,        \* the counter of the loop in progress
  r1,       \* the answer kept for the end of the command
  ocr,      \* the second byte of a five-byte answer
  SDBUF,    \* the sector buffer, with the checksum received after it
  ignore,   \* sdcard_ignore_crc
  call,     \* the call in progress, with what the caller had in SDBUF
  booted, ret

io == <<card, port, spi, A>>
vars == <<io, pc, which, i, r1, ocr, SDBUF, ignore, call, booted, ret>>

NoCall == [op |-> "none", lba |-> 0, data |-> <<>>]
IdleSpi == [op |-> "idle", byte |-> 0, n |-> 0]
SpiIdle == spi.op = "idle"
DataOf(buf) == SubSeq(buf, 1, SECTOR)

(***************************************************************************)
(* spi_send and spi_recv                                                    *)
(***************************************************************************)
Put(c, p) == IF c.present THEN update_outputs(c, p) ELSE c
Set(p) == port' = p /\ card' = Put(card, p)

BitOut(b, n) == (b \div 2^(n - 1)) % 2
LastBit == spi.n = 1

(* The data line, clock high, clock low.                                      *)
SendBit ==
  /\ spi.op = "send"
  /\ LET p == [port EXCEPT !.mosi = BitOut(spi.byte, spi.n), !.clk = 0]
         high == [p EXCEPT !.clk = 1]
     IN port' = p /\ card' = Put(Put(Put(card, p), high), p)
  /\ spi' = IF LastBit THEN IdleSpi ELSE [spi EXCEPT !.n = @ - 1]
  /\ UNCHANGED <<A, pc, which, i, r1, ocr, SDBUF, ignore, call, booted, ret>>

(* Clock high, look, clock low; the data line stays as it was.                *)
Look(c, p) == Put(c, [p EXCEPT !.clk = 1]).miso_bit
RecvBit ==
  /\ spi.op = "recv"
  /\ LET byte == 2 * spi.byte + Look(card, port)
     IN /\ A' = IF LastBit THEN byte ELSE A
        /\ spi' = IF LastBit THEN IdleSpi ELSE [spi EXCEPT !.byte = byte, !.n = @ - 1]
  /\ port' = [port EXCEPT !.clk = 0]
  /\ card' = Put(Put(card, [port EXCEPT !.clk = 1]), port')
  /\ UNCHANGED <<pc, which, i, r1, ocr, SDBUF, ignore, call, booted, ret>>

At(label) == pc = label /\ SpiIdle
Send(b) == spi' = [op |-> "send", byte |-> b, n |-> 8] /\ UNCHANGED <<card, port, A>>
Recv_NineBits == spi' = [op |-> "recv", byte |-> 0, n |-> 9] /\ UNCHANGED <<card, port, A>>
Recv == spi' = [op |-> "recv", byte |-> 0, n |-> 8] /\ UNCHANGED <<card, port, A>>
Quiet == UNCHANGED io

(***************************************************************************)
(* sdinit, sdpulse and the frame of every command                           *)
(***************************************************************************)
Sdinit ==
  /\ At("sdinit")
  /\ Set([cs |-> 1, clk |-> 0, mosi |-> 0]) /\ pc' = "pulse" /\ i' = 10
  /\ UNCHANGED <<spi, A, which, r1, ocr, SDBUF, ignore, call, booted, ret>>

Start(w) == pc' = "open" /\ which' = w
Pulse ==
  /\ At("pulse")
  /\ \/ i > 0 /\ Send(255) /\ i' = i - 1 /\ UNCHANGED <<pc, which>>
     \/ i = 0 /\ Quiet /\ Start("cmd00") /\ UNCHANGED i
  /\ UNCHANGED <<r1, ocr, SDBUF, ignore, call, booted, ret>>

Goto(label) == pc' = label /\ UNCHANGED i
Loop(label, k) == pc' = label /\ i' = k
Same == UNCHANGED <<which, r1, ocr, SDBUF, ignore, call, booted, ret>>

Sdopen == At("open") /\ Send(255) /\ Goto("select") /\ Same
Select ==
  /\ At("select") /\ Set([port EXCEPT !.cs = 0]) /\ UNCHANGED <<spi, A>>
  /\ Loop("command", 1) /\ Same

(* The six bytes BUF3:BUF2 points to.                                         *)
Command ==
  CASE which = "cmd00" -> Cmd00  [] which = "cmd08" -> Cmd08 [] which = "cmd55" -> Cmd55
    [] which = "acmd41" -> Acmd41 [] which = "cmd58" -> Cmd58
    [] which = "cmd17" -> Cmd17(call.lba) [] OTHER -> Cmd24(call.lba)
TRIES == 8
SendCommand ==
  /\ At("command")
  /\ \/ i <= 6 /\ Send(Command[i]) /\ Loop("command", i + 1)
     \/ i > 6 /\ Recv /\ Loop("answer", TRIES)
  /\ Same

(* sd_recv_byte, and what each command does with its first byte.              *)
AnswerAgain == At("answer") /\ A = 255 /\ i > 1 /\ Recv /\ Loop("answer", i - 1) /\ Same
Answered(ws) == At("answer") /\ (A # 255 \/ i = 1) /\ which \in ws /\ r1' = A
AnswerSimple ==
  /\ Answered({"cmd00", "cmd55", "acmd41"}) /\ Quiet /\ Goto("close")
  /\ UNCHANGED <<which, ocr, SDBUF, ignore, call, booted, ret>>
AnswerLong ==
  /\ Answered({"cmd08", "cmd58"}) /\ Recv /\ Loop("r5", 1)
  /\ UNCHANGED <<which, ocr, SDBUF, ignore, call, booted, ret>>
AnswerSector ==
  /\ Answered({"cmd17", "cmd24"})
  /\ \/ A # 0 /\ Quiet /\ Goto("close")
     \/ A = 0 /\ which = "cmd17" /\ Recv /\ Goto("token")
     \/ A = 0 /\ which = "cmd24" /\ Send(254) /\ Loop("payload", 0)
  /\ UNCHANGED <<which, ocr, SDBUF, ignore, call, booted, ret>>

(* sd_recv_r5                                                                 *)
MoreOfAnswer ==
  /\ At("r5") /\ ocr' = IF i = 1 THEN A ELSE ocr
  /\ \/ i < 4 /\ Recv /\ Loop("r5", i + 1)
     \/ i = 4 /\ Quiet /\ Goto("close")
  /\ UNCHANGED <<which, r1, SDBUF, ignore, call, booted, ret>>

(* sdcmd58 closes twice.                                                      *)
Sdclose == At("close") /\ Send(255) /\ Goto("deselect") /\ Same
Deselect ==
  /\ At("deselect") /\ Set([port EXCEPT !.cs = 1]) /\ UNCHANGED <<spi, A>>
  /\ \/ which = "cmd58" /\ i = 4 /\ Loop("close", 0)
     \/ ~(which = "cmd58" /\ i = 4) /\ Goto("result")
  /\ Same

(***************************************************************************)
(* sdcmd17 and sdcmd24                                                      *)
(***************************************************************************)
(* Without a limit: the data token may take its time.                         *)
WaitToken ==
  /\ At("token") /\ Recv
  /\ \/ A # 254 /\ Goto("token")
     \/ A = 254 /\ Loop("data", 1)
  /\ Same

ReadData_NoChecksum ==
  /\ At("data") /\ SDBUF' = [SDBUF EXCEPT ![i] = A]
  /\ \/ i < SECTOR /\ Recv /\ Loop("data", i + 1)
     \/ i = SECTOR /\ Quiet /\ Goto("close")
  /\ UNCHANGED <<which, r1, ocr, ignore, call, booted, ret>>
ReadData ==
  /\ At("data") /\ SDBUF' = [SDBUF EXCEPT ![i] = A]
  /\ \/ i < SECTOR + 2 /\ Recv /\ Loop("data", i + 1)
     \/ i = SECTOR + 2 /\ Quiet /\ Goto("close")
  /\ UNCHANGED <<which, r1, ocr, ignore, call, booted, ret>>

WriteData ==
  /\ At("payload")
  /\ \/ i < SECTOR /\ Send(SDBUF[i + 1]) /\ Loop("payload", i + 1)
     \/ i \in {SECTOR, SECTOR + 1} /\ Send(255) /\ Loop("payload", i + 1)
     \/ i = SECTOR + 2 /\ Recv /\ Loop("response", 32)
  /\ Same

Accepted(b) == b % 32 = 5
DataResponse ==
  /\ At("response")
  /\ \/ A = 255 /\ i > 1 /\ Recv /\ Loop("response", i - 1) /\ UNCHANGED r1
     \/ A # 255 /\ Accepted(A) /\ Recv /\ Goto("busy") /\ UNCHANGED r1
     \/ /\ (A = 255 /\ i = 1) \/ (A # 255 /\ ~Accepted(A))
        /\ Quiet /\ Goto("close") /\ r1' = 255
  /\ UNCHANGED <<which, ocr, SDBUF, ignore, call, booted, ret>>
WaitBusy_WrongLevel ==
  /\ At("busy")
  /\ \/ A # 0 /\ Recv /\ Goto("busy")
     \/ A = 0 /\ Quiet /\ Goto("close")
  /\ Same
WaitBusy ==
  /\ At("busy")
  /\ \/ A # 255 /\ Recv /\ Goto("busy")
     \/ A = 255 /\ Quiet /\ Goto("close")
  /\ Same

(***************************************************************************)
(* boot_sd, read_sector and write_sector                                    *)
(***************************************************************************)
Return(v) == pc' = "idle" /\ call' = NoCall /\ ret' = v
NextCommand == [cmd00 |-> "cmd08", cmd08 |-> "cmd55", cmd55 |-> "acmd41", acmd41 |-> "cmd58"]
Good ==
  CASE which \in {"cmd00", "cmd08", "cmd55"} -> r1 = 1
    [] which = "acmd41" -> r1 = 0
    [] OTHER -> r1 = 0 /\ ocr = 192
BootStep ==
  /\ At("result") /\ which \notin {"cmd17", "cmd24"} /\ Quiet
  /\ \/ Good /\ which # "cmd58" /\ Start(NextCommand[which]) /\ UNCHANGED <<booted, call, ret>>
     \/ which = "acmd41" /\ ~Good /\ Start("cmd55") /\ UNCHANGED <<booted, call, ret>>
     \/ Good /\ which = "cmd58" /\ booted' = TRUE /\ Return(0) /\ UNCHANGED which
     \/ ~Good /\ which # "acmd41" /\ Return(255) /\ UNCHANGED <<which, booted>>
  /\ UNCHANGED <<i, r1, ocr, SDBUF, ignore>>

(* A command that failed returns $FFFF for the checksum.                      *)
Checksum == IF r1 = 0 THEN 256 * SDBUF[SECTOR + 1] + SDBUF[SECTOR + 2] ELSE 65535
Matches == Checksum = rom_crc(DataOf(SDBUF))
ReadResult ==
  /\ At("result") /\ which = "cmd17" /\ Quiet
  /\ \/ (Matches \/ ignore) /\ Return(0)
     \/ ~Matches /\ ~ignore /\ pc' = "ask" /\ UNCHANGED <<call, ret>>
  /\ UNCHANGED <<which, i, r1, ocr, SDBUF, ignore, booted>>
WriteResult ==
  /\ At("result") /\ which = "cmd24" /\ Quiet /\ Return(IF r1 = 0 THEN 0 ELSE 255)
  /\ UNCHANGED <<which, i, r1, ocr, SDBUF, ignore, booted>>

(* fs_prompt_ignore_crc: the user presses Y or N.                             *)
Answer ==
  /\ pc = "ask" /\ Quiet
  /\ \/ ignore' = TRUE /\ Return(0)
     \/ ignore' = FALSE /\ Return(255)
  /\ UNCHANGED <<which, i, r1, ocr, SDBUF, booted>>

(***************************************************************************)
(* The callers, the slot and the specification                              *)
(***************************************************************************)
Call(op, lba, data) ==
  /\ pc = "idle" /\ call' = [op |-> op, lba |-> lba, data |-> data] /\ ret' = 1
  /\ Quiet /\ UNCHANGED <<i, r1, ocr, ignore, booted>>
BootSd ==
  /\ ~booted /\ Call("boot", 0, <<>>) /\ pc' = "sdinit" /\ UNCHANGED <<which, SDBUF>>
ReadSector(lba) ==
  /\ booted /\ Call("read", lba, <<>>) /\ Start("cmd17")
  /\ SDBUF' = Cmd17(lba) \o SubSeq(SDBUF, 7, SECTOR + 2)
WriteSector(lba, data) ==
  /\ booted /\ Call("write", lba, data) /\ Start("cmd24")
  /\ SDBUF' = data \o SubSeq(SDBUF, SECTOR + 1, SECTOR + 2)

(* A program jumps to the reset vector: the card, the lines to it and SDBUF    *)
(* stay as they are, and the driver boots a card that has been booted.  Bound: *)
(* not within a call; the emulator has no button that could.                  *)
Restart ==
  /\ pc = "idle" /\ booted /\ booted' = FALSE /\ ignore' = FALSE
  /\ UNCHANGED <<io, pc, which, i, r1, ocr, SDBUF, call, ret>>

(* Bound: the card goes between two bytes, not between two bits.              *)
TakeOut ==
  /\ CanTakeOut /\ SpiIdle /\ card.present /\ card' = TakenOut(card)
  /\ UNCHANGED <<port, spi, A, pc, which, i, r1, ocr, SDBUF, ignore, call, booted, ret>>

Init ==
  /\ card \in InitialCards /\ port = [cs |-> 1, clk |-> 0, mosi |-> 0]
  /\ spi = IdleSpi /\ A = 0 /\ pc = "idle" /\ which = "cmd00" /\ i = 0 /\ r1 = 0 /\ ocr = 0
  /\ SDBUF = [k \in 1..(SECTOR + 2) |-> 0]
  /\ ignore = FALSE /\ call = NoCall /\ booted = FALSE /\ ret = 0

Driver ==
  \/ SendBit \/ RecvBit
  \/ Sdinit \/ Pulse \/ Sdopen \/ Select \/ SendCommand
  \/ AnswerAgain \/ AnswerSimple \/ AnswerLong \/ AnswerSector \/ MoreOfAnswer
  \/ Sdclose \/ Deselect \/ WaitToken \/ ReadData \/ WriteData \/ DataResponse \/ WaitBusy
  \/ BootStep \/ ReadResult \/ WriteResult
Caller ==
  \/ BootSd \/ \E lba \in Lbas : ReadSector(lba) \/ \E data \in Sectors : WriteSector(lba, data)
Next == Driver \/ Caller \/ Answer \/ Restart \/ TakeOut

(* The CPU does not stop: unless a call has come back, there is a next step.  *)
(* This is WF_vars(Driver) with ENABLED written out (a driver that could take *)
(* no step in a call would be a deadlock, which the run looks for).           *)
CpuRuns == []<>(pc \in {"idle", "ask"}) \/ []<><<Driver>>_vars
Spec == Init /\ [][Next]_vars /\ CpuRuns
=============================================================================
