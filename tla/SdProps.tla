------------------------------ MODULE SdProps ------------------------------
(* What must hold between the driver of SdDriver and its card.                *)
EXTENDS SdDriver

Byte == 0..255

(* Type invariant: the loops stay inside their buffers, bytes are bytes on    *)
(* both sides of the wire, and the card never collects more than a command    *)
(* or a payload (sdcmds.s, sdcardbasic.cpp).                                  *)
TypeOK ==
  /\ A \in Byte /\ r1 \in Byte /\ ocr \in Byte /\ i \in 0..(SECTOR + 33)
  /\ spi.op \in {"idle", "send", "recv"} /\ spi.byte \in Byte /\ spi.n \in 0..8
  /\ SDBUF \in [1..(SECTOR + 2) -> Byte]
  /\ {port.cs, port.clk, port.mosi, card.miso_bit, card.mosi_bit} \subseteq {0, 1}
  /\ Len(card.mosi_queue) < 6 /\ Len(card.write_payload) < SECTOR + 2
  /\ {card.mosi_shift_reg, card.miso_shift_reg} \subseteq Byte

(* InStep: whenever no call is in progress, driver and card agree that        *)
(* nothing is: no half a byte on either side, no answer that the next command *)
(* would take for its own, no command begun, no block awaited, /CS high.      *)
InStep ==
  pc = "idle" /\ card.present =>
    /\ card.mosi_bit_count = 0 /\ card.miso_bit_count = 0 /\ card.clk = 0
    /\ card.mosi_queue = <<>> /\ card.miso_queue = <<>>
    /\ ~card.awaiting_write_block /\ port.cs = 1

(* NoFalseAlarm: read_sector never refuses a sector that the card has and     *)
(* can send, whatever bytes it holds (tokens, $FF, a command's): both sides   *)
(* compute the same checksum of the same bytes.                               *)
NoFalseAlarm ==
  pc = "ask" => ~card.present \/ card.failed \/ Contents(card, call.lba) = NoSector

(* DriverReturns: as long as the card is in its slot every call comes back,   *)
(* at the latest with the question to the user, although sdcmd17 waits for    *)
(* the data token and sdcmd24 for the end of busy without a limit.            *)
DriverReturns ==
  []card.present => [](pc \notin {"idle", "ask"} => <>(pc \in {"idle", "ask"}))

(* IsSectorDevice: driver, wires and card together are the device that the    *)
(* filesystem counts on.                                                      *)
Device == INSTANCE SectorDevice WITH
  store <- [lba \in Lbas |-> Contents(card, lba)],
  buffer <- DataOf(SDBUF), trusted <- ~ignore, call <- call, ret <- ret
IsSectorDevice == Device!DeviceSpec
=============================================================================
