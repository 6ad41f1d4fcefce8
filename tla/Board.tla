------------------------------- MODULE Board -------------------------------
(* What answers at an address of the mini board, and which cell of its RAM or *)
(* ROM chip it is (ByteCradleMini::read and write).  Each bank register puts  *)
(* 8 KB of its chip into a window; RAM banks 0 to 3 are the main memory once  *)
(* more, ROM banks 0 and 1 the ROM at the top.                                *)
EXTENDS Integers

IO_PAGE    == 32512    \* 0x7F00
RAM_WINDOW == 32768    \* 0x8000
ROM_WINDOW == 40960    \* 0xA000
ROM_TOP    == 49152    \* 0xC000
BANK_SIZE  == 8192     \* bank << 13
CHIP_SIZE  == 524288   \* of either chip

InRamWindow(addr) == addr >= RAM_WINDOW /\ addr < ROM_WINDOW
InRomWindow(addr) == addr >= ROM_WINDOW /\ addr < ROM_TOP

(* set_rambank, set_rombank: six bits of what is written are kept.            *)
Masked(bank) == bank % 64

(* Every chip in the I/O page is selected by the upper ten address bits.      *)
ACIA_MASK       == 32512  \* 0x7F00
VIA_MASK        == 32576  \* 0x7F40
ROMBANK_PATTERN == 32640  \* 0x7F80
RAMBANK_PATTERN == 32704  \* 0x7FC0
Responds(addr, base) == addr - (addr % 64) = base

Cell(chip, n) == [chip |-> chip, cell |-> n]
Nothing == Cell("none", 0)
InBank(offset, bank) == offset + BANK_SIZE * bank

read(addr, rambank, rombank) ==
  CASE addr >= ROM_TOP                 -> Cell("rom", addr - ROM_TOP)
    [] addr < IO_PAGE                  -> Cell("ram", addr)
    [] InRamWindow(addr)               -> Cell("ram", InBank(addr - RAM_WINDOW, rambank))
    [] InRomWindow(addr)               -> Cell("rom", InBank(addr - ROM_WINDOW, rombank))
    [] Responds(addr, ACIA_MASK)       -> Cell("acia", addr % 4)
    [] Responds(addr, VIA_MASK)        -> Cell("via", addr % 16)
    [] Responds(addr, ROMBANK_PATTERN) -> Cell("rombank", 0)
    [] Responds(addr, RAMBANK_PATTERN) -> Cell("rambank", 0)

(* A write to ROM is warned of and lost.                                      *)
write(addr, rambank, rombank) ==
  CASE addr < IO_PAGE                  -> Cell("ram", addr)
    [] InRamWindow(addr)               -> Cell("ram", InBank(addr - RAM_WINDOW, rambank))
    [] Responds(addr, ROMBANK_PATTERN) -> Cell("rombank", 0)
    [] Responds(addr, RAMBANK_PATTERN) -> Cell("rambank", 0)
    [] Responds(addr, ACIA_MASK)       -> Cell("acia", addr % 4)
    [] Responds(addr, VIA_MASK)        -> Cell("via", addr % 16)
    [] InRomWindow(addr) \/ addr >= ROM_TOP -> Nothing
=============================================================================
