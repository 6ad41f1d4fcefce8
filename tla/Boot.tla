-------------------------------- MODULE Boot --------------------------------
(* From the reset vector to the first prompt (crt0.s, init.s, makecrctable,   *)
(* main), and the bank switches around the code in ROM bank 2, whose first    *)
(* use is the mount.  Of the memory, what each part of it was left holding.   *)
EXTENDS Board, Sequences

CONSTANT PowerOn   \* what a bank register may hold when the machine starts

SDRAMBANK   == 63
SD_ROM_BANK == 2
FIRST_BANK  == 4
B2_IMAGE    == 16384   \* where the linker puts BANK2 into the ROM's image
B2_SIZE     == 8192

TBPR == 0
TBPL == 1
SOFT_SP == 32          \* the first word of the linker's zero page
TB == 512              \* 0x0200
OS_RAM == 768          \* 0x0300, DATA and behind it BSS
OS_BSS == 1536         \* 0x0600, a cell of it
USER_START == 2048     \* 0x0800
CRCLO == 40448         \* 0x9E00
CRC_END == 40959       \* the end of CRCHI, 0x9FFF

RingCells  == {TBPR, TBPL, TB, TB + 255}
UserCells  == {USER_START, IO_PAGE - 1}
CellOf(addr, bank) == write(addr, bank, 0).cell
TableCells == {CellOf(CRCLO, SDRAMBANK), CellOf(CRC_END, SDRAMBANK)}
Watched == RingCells \union UserCells \union TableCells \union {SOFT_SP, OS_RAM, OS_BSS}

ASSUME BootAssumption == PowerOn \subseteq 0..255

VARIABLES
  pc,        \* where the processor stands
  mem,       \* what a watched cell holds: what was there before (junk), zero,
             \* what is to be there (set), the filling of user space, or (key)
             \* what the interrupt handler made of a zero
  irq,       \* whether interrupts are enabled
  rambank, rombank,
  frames     \* the bank that each fs_bank_enter in progress has saved

machine == <<mem, irq>>
rom     == <<rombank, frames>>
banks   == <<rambank, rom>>
bootvars == <<pc, machine, banks>>

Goto(l) == pc' = l
Front(s) == SubSeq(s, 1, Len(s) - 1)
Fill(from, to, v) ==
  mem' = [c \in Watched |-> IF from <= c /\ c <= to THEN v ELSE mem[c]]

----------------------------------------------------------------------------
(* crt0.s: the soft stack's pointer is set before anything else is.           *)
Crt0 ==
  /\ pc = "crt0" /\ Goto("clear") /\ rambank' = FIRST_BANK
  /\ Fill(SOFT_SP, SOFT_SP + 1, "set") /\ UNCHANGED <<irq, rom>>
ClearMem ==
  /\ pc = "clear" /\ Goto("copy") /\ Fill(TB, USER_START - 1, "zero")
  /\ UNCHANGED <<irq, banks>>
CopyData ==   \* zerobss finds zeros
  /\ pc = "copy" /\ Goto("init") /\ Fill(OS_RAM, OS_RAM, "set")
  /\ UNCHANGED <<irq, banks>>
(* init_system: the loop, then the ring's pointers once more; the interrupts  *)
(* come last.                                                                 *)
ClearZp ==
  /\ pc = "init" /\ Goto("ring") /\ Fill(0, SOFT_SP - 1, "zero")
  /\ UNCHANGED <<irq, banks>>
ClearRing ==
  /\ pc = "ring" /\ Goto("tables")
  /\ mem' = [mem EXCEPT ![TBPL] = "zero", ![TBPR] = "zero"]
  /\ UNCHANGED <<irq, banks>>
makecrctable_InFirstBank ==
  /\ pc = "tables" /\ Goto("main") /\ irq' = TRUE /\ UNCHANGED banks
  /\ Fill(CellOf(CRCLO, rambank), CellOf(CRC_END, rambank), "set")
makecrctable ==
  /\ pc = "tables" /\ Goto("main") /\ irq' = TRUE /\ rambank' = SDRAMBANK
  /\ Fill(CellOf(CRCLO, rambank'), CellOf(CRC_END, rambank'), "set")
  /\ UNCHANGED rom

(* A key's interrupt during a start, which nothing masks when a program jumps *)
(* to the reset vector (there is no sei).  The key goes where the write       *)
(* pointer says, anywhere in the ring as long as that is junk, and the        *)
(* pointers move on from what they hold, the read pointer when they meet.     *)
(* Once the start is over, the ring is KeyBuffer's.                           *)
Starting == {"crt0", "clear", "copy", "init", "ring", "tables"}
Moved(v) == IF v = "junk" THEN "junk" ELSE "key"
isr ==
  /\ irq /\ pc \in Starting
  /\ \E x \in 0..255, full \in BOOLEAN :
       mem' = [c \in Watched |->
                 CASE c = TB + x          -> "key"
                   [] c = TBPR            -> Moved(mem[c])
                   [] c = TBPL /\ full    -> Moved(mem[c])
                   [] OTHER               -> mem[c]]
  /\ UNCHANGED <<pc, irq, banks>>

----------------------------------------------------------------------------
(* fs_bank_enter and fs_bank_exit; the wrappers of fat32.c call routines that *)
(* call those of sdcard.c, which switch once more.                            *)
fs_bank_enter == frames' = Append(frames, rombank) /\ rombank' = SD_ROM_BANK
fs_bank_exit ==
  /\ frames # <<>> /\ frames' = Front(frames)
  /\ rombank' = Masked(frames[Len(frames)])
(* One call behind the other, with nothing in between.                        *)
fs_bank_exit_enter ==
  frames # <<>> /\ frames' = <<Masked(frames[1])>> /\ rombank' = SD_ROM_BANK
InCall == Len(frames) = 1

(* boot_sd, read_sector, write_sector; the last two select the RAM bank too.  *)
SectorCall(from) ==
  /\ pc \in from /\ InCall /\ fs_bank_enter
  /\ rambank' = SDRAMBANK \/ (pc = "mount" /\ rambank' = rambank)
  /\ UNCHANGED <<pc, machine>>
SectorReturn ==
  /\ Len(frames) = 2 /\ fs_bank_exit /\ UNCHANGED <<pc, machine, rambank>>

(* main: without a card it returns to crt0, and crt0 to nowhere.              *)
Main ==
  /\ pc = "main" /\ Goto("mount") /\ Fill(USER_START, IO_PAGE - 1, "fill") /\ fs_bank_enter
  /\ UNCHANGED <<irq, rambank>>
Mounted ==
  /\ pc = "mount" /\ InCall /\ fs_bank_exit /\ (Goto("prompt") \/ Goto("halted"))
  /\ UNCHANGED <<machine, rambank>>

(* A reset disables interrupts; a jump to its vector leaves them as they are. *)
PowerUp ==
  /\ pc' = "crt0" /\ mem' = [c \in Watched |-> "junk"] /\ irq' \in BOOLEAN
  /\ rambank' \in PowerOn /\ rombank' \in PowerOn /\ frames' = <<>>

BootInit ==
  /\ pc = "crt0" /\ mem = [c \in Watched |-> "junk"] /\ irq = FALSE
  /\ rambank \in PowerOn /\ rombank \in PowerOn /\ frames = <<>>
Booting == Crt0 \/ ClearMem \/ CopyData \/ ClearZp \/ ClearRing \/ makecrctable \/ isr
           \/ Main \/ Mounted

----------------------------------------------------------------------------
BootTypeOK ==
  /\ mem \in [Watched -> {"junk", "zero", "set", "fill", "key"}] /\ irq \in BOOLEAN
  /\ rambank \in 0..255 /\ rombank \in 0..255 /\ frames \in Seq(0..255)

(* BootInOrder: nothing is used before the start has set it up, and nothing   *)
(* that was set up is undone again, by a later step of the start or by a key  *)
(* that comes in between: once C code runs, interrupts are let in, the ring's *)
(* pointers stand where the start or the handler has put them, never where    *)
(* they stood before, and the soft stack, the initialised data and the        *)
(* cleared ones are in place, as are, when the card is read, the checksum     *)
(* tables in the bank that the sector routines select.                        *)
BootInOrder ==
  /\ pc \notin Starting =>
       /\ irq /\ mem[TBPR] # "junk" /\ mem[TBPL] # "junk"
       /\ mem[SOFT_SP] = "set" /\ mem[OS_RAM] = "set" /\ mem[OS_BSS] = "zero"
       /\ \A c \in TableCells : mem[c] = "set"
  /\ pc = "mount" => \A c \in UserCells : mem[c] = "fill"
=============================================================================
