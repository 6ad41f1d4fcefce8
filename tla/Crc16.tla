------------------------------- MODULE Crc16 -------------------------------
(* The checksum of a sector, computed twice in this system: by the ROM with   *)
(* two tables of bytes (src/fs/crc16sd.s), and bit by bit by the emulated     *)
(* card (sdcardbasic.cpp).  What is used at every byte is a function, so that *)
(* TLC evaluates its arguments once.                                          *)
EXTENDS Integers, Sequences, SequencesExt, Bitwise

XorByte == [x \in 0..255, y \in 0..255 |-> x ^^ y]
Times8(f, x) == FoldLeft(LAMBDA y, k : f[y], x, [k \in 1..8 |-> k])

(* crc16_xmodem of the emulator.                                              *)
Shift ==
  [crc \in 0..65535 |-> IF crc >= 32768 THEN ((2 * crc) % 65536) ^^ 4129 ELSE 2 * crc]
AddByte(crc, b) == 256 * XorByte[crc \div 256, b] + (crc % 256)
crc16_xmodem(data) ==
  FoldLeft(LAMBDA crc, b : Times8(Shift, AddByte(crc, b)), 0, data)

(* makecrctable: A holds the low byte, BUF2 the high byte, and the carry goes *)
(* from one to the other.                                                     *)
Word(hi, lo) == [hi |-> hi, lo |-> lo]
ShiftBytes ==
  [w \in [hi : 0..255, lo : 0..255] |->
     LET lo == (2 * w.lo) % 256
         hi == ((2 * w.hi) % 256) + (w.lo \div 128)
     IN IF w.hi >= 128 THEN Word(XorByte[hi, 16], XorByte[lo, 33]) ELSE Word(hi, lo)]
crctable == [x \in 0..255 |-> Times8(ShiftBytes, Word(x, 0))]

(* updcrc, with BUF3 the high and BUF2 the low byte.                          *)
updcrc_LowByte(w, b) ==
  LET entry == crctable[XorByte[b, w.lo]] IN Word(XorByte[w.hi, entry.hi], entry.lo)
updcrc(w, b) ==
  LET entry == crctable[XorByte[b, w.hi]] IN Word(XorByte[w.lo, entry.hi], entry.lo)
crc16_xmodem_sdsector(data) ==
  LET w == FoldLeft(updcrc, Word(0, 0), data) IN 256 * w.hi + w.lo
=============================================================================
