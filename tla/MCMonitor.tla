----------------------------- MODULE MCMonitor -----------------------------
(* What a user types: every command, right and wrong, taken back, too long;   *)
(* lines of the assembler in every mode; a page of all instructions.          *)
EXTENDS Monitor

RECURSIVE KeysOf(_)
KeysOf(s) ==   \* "<" takes a character back, "/" is the return key
  IF Len(s) = 0 THEN <<>>
  ELSE LET c == Char(s, 1)
       IN <<CASE c = "<" -> DEL [] c = "/" -> RET [] c = "^" -> "TAB" [] OTHER -> c>>
          \o KeysOf(SubSeq(s, 2, Len(s)))

(* For the command line.                                                      *)
CommandLines ==
  {"/", "Q/", "Q</", "m/", "G2000/", "G20/", "^R2000/ q", "R2000/X^Q", "R2000:20FF/",
   "R2000:201G/", "<m/", "R2000:2010/", "r1F80:2010/", "R2008:2010/", "R2000:200F/", "R2000:20FF0123456789ABC/q", "W200/"}
Pages == {"D3000/                                q"}
Edits ==
  {"A2000/", "W2000/", "A2002/", "A7EFE/", "W7EFE/", "WFFFF/", "AFFFE/"}
(* For the assembler, and for write mode.                                     *)
AsmLines ==
  {"/", "lda 12/", "LDA 1234/", "LDA (12),Y/", "LDA      1234/", "LDA #1234/", "LDA 12,X/", "STX 12,Y/",
   "LDA 1234,X/", "STA 1234,Y/", "LDA (12,X)/", "JMP (1234)/", "LDA #12/", "BNE 12/",
   "ASL/", "ASL  /", "RTS/", "RMB0 12/", "RMB012/", "BBR0 12,34/", "LDA 1G/", "LDA 1G3/", "LDA 123<<</",
   "XYZ/", "LDA (12)/", "JMP 12/", "LDA (12,Y)/", "LDA 12,A/", "LDA 1234,5/"}
Bytes ==
  {"0aFf/", "0/", "0G", "00112233445566778899AABBCCDDEEFF5a/"}
MCScripts == {KeysOf(s) : s \in CommandLines \union Pages \union Edits \union AsmLines \union Bytes}

(* The first cells of free memory, and the last ones below the chips.         *)
MCCells == 8192..8192 + 17 \union {32510, 32511}
(* All codes one behind the other from 3000, with operands, which are chosen  *)
(* so that the disassembly comes across each of them.                         *)
MCImage(a) ==
  LET n == a - 12288
  IN IF n \notin 0..767 THEN 0
     ELSE CASE n % 3 = 0 -> n \div 3 [] n % 3 = 1 -> 18 [] OTHER -> 234
=============================================================================
