------------------------------- MODULE SdCard -------------------------------
(* The SD card at the other end of the VIA's port A, as the emulator plays it *)
(* (sdcardbasic.cpp, via.cpp): two shift registers that move on a rising      *)
(* clock, two queues of bytes, and the few commands that the ROM uses.  A     *)
(* card is a record; every operator returns the card after the event.         *)
EXTENDS Integers, Sequences, SequencesExt

CONSTANTS
  SECTOR,       \* bytes in a sector (512 in the code)
  card_crc(_)   \* the checksum the card puts after a sector

ASSUME CardAssumption == SECTOR \in Nat /\ SECTOR >= 6

Cmd00 == <<64, 0, 0, 0, 0, 149>>
Cmd08 == <<72, 0, 0, 1, 170, 135>>
Cmd55 == <<119, 0, 0, 0, 0, 101>>
Acmd41 == <<105, 64, 0, 0, 0, 119>>
Cmd58 == <<122, 0, 0, 0, 0, 1>>
Cmd17(lba) == <<81, 0, 0, 0, lba, 1>>
Cmd24(lba) == <<88, 0, 0, 0, lba, 1>>
Address(cmd) == ((cmd[2] * 256 + cmd[3]) * 256 + cmd[4]) * 256 + cmd[5]

(* image: the sectors of the image file.  failed: the error state of the      *)
(* stream it is read and written through.                                     *)
FreshCard(image, read_only) ==
  [present |-> TRUE, cs |-> 1, clk |-> 0, mosi_bit |-> 0, miso_bit |-> 0,
   mosi_shift_reg |-> 0, miso_shift_reg |-> 0, mosi_bit_count |-> 0, miso_bit_count |-> 0,
   mosi_queue |-> <<>>, miso_queue |-> <<>>,
   awaiting_write_block |-> FALSE, cmd24_seen_token |-> FALSE,
   pending_write_addr |-> 0, write_payload |-> <<>>,
   image |-> image, failed |-> FALSE, read_only |-> read_only, dirty_blocks |-> <<>>]

load_response(c, resp) == [c EXCEPT !.miso_queue = @ \o resp]

(* What a CMD17 sends: waits, R1, waits, the token, the sector, its checksum. *)
SectorResponse(sector) ==
  <<255, 0, 255, 255, 255, 255, 254>> \o sector
    \o <<card_crc(sector) \div 256, card_crc(sector) % 256>>

(* addr * 512 is computed in 32 bits.  A read that ends short leaves the      *)
(* stream failed, and nothing clears it.                                      *)
Wrap == 8388608
load_response_cmd17(c, addr) ==
  LET at == addr % Wrap IN
  CASE addr \in DOMAIN c.dirty_blocks -> load_response(c, SectorResponse(c.dirty_blocks[addr]))
    [] addr \notin DOMAIN c.dirty_blocks /\ c.failed -> c
    [] addr \notin DOMAIN c.dirty_blocks /\ ~c.failed /\ at >= Len(c.image) -> [c EXCEPT !.failed = TRUE]
    [] OTHER -> load_response(c, SectorResponse(c.image[at + 1]))

(* seekp beyond the end and a write there fill the gap with zeros.            *)
Zeros == [k \in 1..SECTOR |-> 0]
Written(c, addr, block) ==
  IF c.failed THEN c.image
  ELSE [k \in 1..(IF addr < Len(c.image) THEN Len(c.image) ELSE addr + 1) |->
         IF k = addr + 1 THEN block ELSE IF k <= Len(c.image) THEN c.image[k] ELSE Zeros]

Keep(blocks, addr, block) ==
  [a \in DOMAIN blocks \cup {addr} |-> IF a = addr THEN block ELSE blocks[a]]

StoreBlock_OffByOne(c) ==
  LET block == SubSeq(c.write_payload, 2, SECTOR + 1)
      addr == c.pending_write_addr
  IN IF c.read_only THEN [c EXCEPT !.dirty_blocks = Keep(@, addr, block)]
                    ELSE [c EXCEPT !.image = Written(c, addr, block)]
StoreBlock(c) ==
  LET block == SubSeq(c.write_payload, 1, SECTOR)
      addr == c.pending_write_addr
  IN IF c.read_only THEN [c EXCEPT !.dirty_blocks = Keep(@, addr, block)]
                    ELSE [c EXCEPT !.image = Written(c, addr, block)]

(* One byte of a write's payload: the sector and two bytes nobody checks.     *)
PayloadByte(c, value) ==
  LET d == [c EXCEPT !.write_payload = Append(@, value)] IN
  CASE ~c.cmd24_seen_token -> [c EXCEPT !.cmd24_seen_token = (value = 254)]
    [] c.cmd24_seen_token /\ Len(d.write_payload) < SECTOR + 2 -> d
    [] OTHER -> [load_response(StoreBlock(d), <<255, 5, 255>>) EXCEPT
                   !.awaiting_write_block = FALSE, !.cmd24_seen_token = FALSE,
                   !.write_payload = <<>>]
handle_cmd24_payload(c) ==
  FoldLeft(LAMBDA d, value :
             IF d.awaiting_write_block THEN PayloadByte(d, value)
                                       ELSE [d EXCEPT !.mosi_queue = Append(@, value)],
           [c EXCEPT !.mosi_queue = <<>>], c.mosi_queue)

Known == {Cmd00, Cmd08, Cmd55, Acmd41, Cmd58}
Response(cmd) ==
  CASE cmd \in {Cmd00, Cmd55} -> <<255, 1>>
    [] cmd = Cmd08 -> <<255, 1, 0, 0, 1, 170>>
    [] cmd = Acmd41 -> <<255, 0>>
    [] cmd = Cmd58 -> <<255, 0, 192, 255, 128, 0>>

AcceptWrite(c, addr) ==
  [load_response(c, <<255, 0>>) EXCEPT
     !.pending_write_addr = addr, !.awaiting_write_block = TRUE,
     !.cmd24_seen_token = FALSE, !.write_payload = <<>>]

(* Six bytes that are no command are dropped without an answer.               *)
Obey(c, cmd) ==
  CASE cmd \in Known -> load_response(c, Response(cmd))
    [] cmd \notin Known /\ cmd[1] = 81 /\ cmd[6] = 1 -> load_response_cmd17(c, Address(cmd))
    [] cmd \notin Known /\ cmd[1] = 88 -> AcceptWrite(c, Address(cmd))
    [] OTHER -> c

digest_sd(c) ==
  CASE c.awaiting_write_block -> handle_cmd24_payload(c)
    [] ~c.awaiting_write_block /\ (c.mosi_queue = <<255>> \/ Len(c.mosi_queue) >= 6) ->
         LET d == [c EXCEPT !.mosi_queue = <<>>]
         IN IF Len(c.mosi_queue) = 1 THEN d ELSE Obey(d, c.mosi_queue)
    [] OTHER -> c

(* A rising clock: one bit in, perhaps a whole byte to digest, one bit out.   *)
MosiIn(c) ==
  LET reg == ((2 * c.mosi_shift_reg) % 256) + c.mosi_bit IN
  IF c.mosi_bit_count = 7
  THEN digest_sd([c EXCEPT !.mosi_queue = Append(@, reg), !.mosi_bit_count = 0,
                           !.mosi_shift_reg = 0])
  ELSE [c EXCEPT !.mosi_shift_reg = reg, !.mosi_bit_count = @ + 1]
LoadMiso(c) ==
  IF c.miso_queue = <<>> THEN [c EXCEPT !.miso_shift_reg = 255, !.miso_bit_count = 8]
  ELSE [c EXCEPT !.miso_shift_reg = Head(c.miso_queue), !.miso_queue = Tail(@),
                 !.miso_bit_count = 8]
MisoOut(c) ==
  LET d == IF c.miso_bit_count = 0 THEN LoadMiso(c) ELSE c
  IN [d EXCEPT !.miso_bit = d.miso_shift_reg \div 128,
               !.miso_shift_reg = (2 * @) % 256, !.miso_bit_count = @ - 1]
set_clk(c, clk) ==
  [(IF c.clk = 0 /\ clk = 1 THEN MisoOut(MosiIn(c)) ELSE c) EXCEPT !.clk = clk]

(* update_outputs of the VIA after a write to port A: /CS, which the card     *)
(* does not look at, then the clock, and the data line last.                  *)
update_outputs(c, port) ==
  [set_clk([c EXCEPT !.cs = port.cs], port.clk) EXCEPT !.mosi_bit = port.mosi]

(* An empty slot: the data line stays high.                                   *)
TakenOut(c) ==
  [FreshCard(c.image, c.read_only) EXCEPT
     !.present = FALSE, !.miso_bit = 1, !.dirty_blocks = c.dirty_blocks]

(* What a card holds at an address: a sector, or none.                        *)
NoSector == <<>>
Contents(c, lba) ==
  CASE lba \in DOMAIN c.dirty_blocks -> c.dirty_blocks[lba]
    [] lba \notin DOMAIN c.dirty_blocks /\ lba < Len(c.image) -> c.image[lba + 1]
    [] OTHER -> NoSector
=============================================================================
