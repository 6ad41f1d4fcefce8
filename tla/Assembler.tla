----------------------------- MODULE Assembler -----------------------------
(* The monitor's tables, its inline assembler (assembler.s) and what its      *)
(* disassembler prints (disassemble.s), as functions.  A character is a       *)
(* string of one; a line of the command buffer is a function from offsets.    *)
EXTENDS Integers, Sequences, FiniteSetsExt, SequencesExt

Char(s, i) == SubSeq(s, i, i)
Chars(s) == [i \in 1..Len(s) |-> Char(s, i)]
NUL == "NUL"       \* a zero byte
CMDSIZE == 16      \* CMDBUF $80 to $8F; CMDLENGTH lies behind it

(* optcodes.s, the table of the disassembler: mnemonics and addressing modes  *)
(* of the 256 codes, sixteen a row.                                           *)
Mnemonics == <<
  "BRK ORA ????????TSB ORA ASL RMB0PHP ORA ASL ????TSB ORA ASL BBR0",
  "BPL ORA ORA ????TRB ORA ASL RMB1CLC ORA INC ????TRB ORA ASL BBR1",
  "JSR AND ????????BIT AND ROL RMB2PLP AND ROL ????BIT AND ROL BBR2",
  "BMI AND AND ????BIT AND ROL RMB3SEC AND DEC ????BIT AND ROL BBR3",
  "RTI EOR ????????????EOR LSR RMB4PHA EOR LSR ????JMP EOR LSR BBR4",
  "BVC EOR EOR ????????EOR LSR RMB5CLI EOR PHY ????????EOR LSR BBR5",
  "RTS ADC ????????STZ ADC ROR RMB6PLA ADC ROR ????JMP ADC ROR BBR6",
  "BVS ADC ADC ????STZ ADC ROR RMB7SEI ADC PLY ????JMP ADC ROR BBR7",
  "BRA STA ????????STY STA STX SMB0DEY BIT TXA ????STY STA STX BBS0",
  "BCC STA STA ????STY STA STX SMB1TYA STA TXS ????STZ STA STZ BBS1",
  "LDY LDA LDX ????LDY LDA LDX SMB2TAY LDA TAX ????LDY LDA LDX BBS2",
  "BCS LDA LDA ????LDY LDA LDX SMB3CLV LDA TSX ????LDY LDA LDX BBS3",
  "CPY CMP ????????CPY CMP DEC SMB4INY CMP DEX WAI CPY CMP DEC BBS4",
  "BNE CMP CMP ????????CMP DEC SMB5CLD CMP PHX STP ????CMP DEC BBS5",
  "CPX SBC ????????CPX SBC INC SMB6INX SBC NOP ????CPX SBC INC BBS6",
  "BEQ SBC SBC ????????SBC INC SMB7SED SBC PLX ????????SBC INC BBS7">>
Modes == <<
  "06??AAAA054?111F", "97D?ABBA034?122F", "16??AAAA054?111F", "97D?BBBA034?222F",
  "06???AAA054?111F", "97D??BBA030??22F", "06??AAAA054?811F", "97D?BBBA030?E22F",
  "96??AAAA050?111F", "97D?BBCA030?122F", "565?AAAA050?111F", "97D?BBCA030?223F",
  "56??AAAA0500111F", "97D??BBA0300?22F", "56??AAAA050?111F", "97D??BBA030??22F">>
Mnemonic(o) == SubSeq(Mnemonics[o \div 16 + 1], (4 * (o % 16)) + 1, (4 * (o % 16)) + 4)
Mode(o) == Char(Modes[o \div 16 + 1], (o % 16) + 1)
(* The length of an instruction of each mode; an undefined code takes one.    *)
Length(mode) == CASE mode \in {"0", "4", "?"}           -> 1
                  [] mode \in {"1", "2", "3", "8", "E", "F"} -> 3
                  [] OTHER                                  -> 2

HexDigits == "0123456789ABCDEF"
IsHex(c) == \E i \in 1..16 : c = Char(HexDigits, i)
Nibble(c) == CHOOSE i \in 0..15 : c = Char(HexDigits, i + 1)
Hex(b) == Char(HexDigits, b \div 16 + 1) \o Char(HexDigits, (b % 16) + 1)
char2num(hi, lo) == 16 * Nibble(hi) + Nibble(lo)

(* mnemonics.s, the table of the assembler: behind each mnemonic the digit of *)
(* an addressing mode and the code in that mode, as often as it has modes.    *)
IndexRegisters_XForY == {
  "CPX 5E0AE41EC", "CPY 5C0AC41CC", "LDX 5A2AA61AECB62BE", "LDY 5A0AA41ACBB42BC",
  "STX A8618EC96", "STY A8418CB94"}
IndexRegisters == {
  "CPX 5E0AE41EC", "CPY 5C0AC41CC", "LDX 5A2AA61AECB63BE", "LDY 5A0AA41ACBB42BC",
  "STX A8618EC96", "STY A8418CB94"}
ManyModes == {
  "ADC 661A6556916D771D72B7537927D", "AND 621A2552912D731D32B3533923D",
  "ASL A0640A10EB1621E", "BIT A2412CB3423C589", "CMP 6C1AC55C91CD7D1DD2BD53D92DD",
  "DEC 43AAC61CEBD62DE", "EOR 641A4554914D751D52B5535925D", "INC 41AAE61EEBF62FE",
  "JMP 14C86CE7C", "LDA 6A1AA55A91AD7B1DB2BB53B92BD", "LSR A4644A14EB5625E",
  "ORA 601A0550910D711D12B1531921D", "ROL A2642A12EB3623E", "ROR A6646A16EB7627E",
  "SBC 6E1AE55E91ED7F1DF2BF53F92FD", "STA 681A8518D791D92B9539929D",
  "STZ A64B7419C29E", "TRB A1411C", "TSB A0410C"}
OneMode == {
  "BBR0F0F", "BBR1F1F", "BBR2F2F", "BBR3F3F", "BBR4F4F", "BBR5F5F", "BBR6F6F",
  "BBR7F7F", "BBS0F8F", "BBS1F9F", "BBS2FAF", "BBS3FBF", "BBS4FCF", "BBS5FDF",
  "BBS6FEF", "BBS7FFF", "BCC 990", "BCS 9B0", "BEQ 9F0", "BMI 930", "BNE 9D0",
  "BPL 910", "BRA 980", "BRK 000", "BVC 950", "BVS 970", "CLC 018", "CLD 0D8",
  "CLI 058", "CLV 0B8", "DEX 0CA", "DEY 088", "INX 0E8", "INY 0C8", "JSR 120",
  "NOP 0EA", "PHA 048", "PHP 008", "PHX 0DA", "PHY 05A", "PLA 068", "PLP 028",
  "PLX 0FA", "PLY 07A", "RMB0A07", "RMB1A17", "RMB2A27", "RMB3A37", "RMB4A47",
  "RMB5A57", "RMB6A67", "RMB7A77", "RTI 040", "RTS 060", "SEC 038", "SED 0F8",
  "SEI 078", "SMB0A87", "SMB1A97", "SMB2AA7", "SMB3AB7", "SMB4AC7", "SMB5AD7",
  "SMB6AE7", "SMB7AF7", "STP 0DB", "TAX 0AA", "TAY 0A8", "TSX 0BA", "TXA 08A",
  "TXS 09A", "TYA 098", "WAI 0CB"}
Datasets == IndexRegisters \union ManyModes \union OneMode
Pairs(row) ==
  {[mode |-> Char(row, 3 * i + 2), code |-> char2num(Char(row, 3 * i + 3), Char(row, 3 * i + 4))] :
     i \in 1..(Len(row) - 4) \div 3}
ASSUME DatasetsAssumption == \A row \in Datasets : \A p \in Pairs(row) : p.code \in 0..255

----------------------------------------------------------------------------
(* The routines read past the line: the byte behind the buffer is CMDLENGTH,  *)
(* and after it the zero page is unused.                                      *)
At(buf, length, i) ==
  IF i < CMDSIZE THEN buf[i] ELSE IF i = CMDSIZE /\ length # 0 THEN "len" ELSE NUL

(* findmnemonic: the dataset of the mnemonic that the line starts with.       *)
Spells(buf, m) ==
  /\ \A i \in 0..2 : buf[i] = Char(m, i + 1)
  /\ IF Char(m, 4) = " " THEN buf[3] \in {" ", NUL} ELSE buf[3] = Char(m, 4)
Dataset(buf) == UNION {Pairs(row) : row \in {r \in Datasets : Spells(buf, r)}}

(* getmode: the addressing mode by the shape of what follows, "" for none.    *)
IndirectMode(at(_), p) ==
  CASE at(p + 3) = ")" -> IF at(p + 4) = "," /\ at(p + 5) = "Y" THEN "7" ELSE ""
    [] at(p + 3) = "," -> IF at(p + 4) = "X" /\ at(p + 5) = ")" THEN "6" ELSE ""
    [] OTHER           -> "8"
Indexed(c, plainX, plainY) == CASE c = "X" -> plainX [] c = "Y" -> plainY [] OTHER -> ""
AbsoluteMode(at(_), p) ==
  CASE at(p + 2) = NUL -> "A"
    [] at(p + 2) = "," -> Indexed(at(p + 3), "B", "C")
    [] at(p + 4) = NUL /\ at(p + 2) \notin {NUL, ","} -> "1"
    [] at(p + 4) = "," /\ at(p + 2) \notin {NUL, ","} -> Indexed(at(p + 5), "2", "3")
    [] OTHER           -> ""
getmode(buf, length) ==
  LET at(i) == At(buf, length, i)
      p == Min({i \in 4..CMDSIZE + 1 : at(i) # " "})
  IN CASE length < 5 \/ at(p) = NUL -> "0"
       [] length >= 5 /\ at(p) = "#" -> "5"
       [] length >= 5 /\ at(p) = "(" -> IndirectMode(at, p)
       [] OTHER                      -> AbsoluteMode(at, p)

(* getoptcode: implied may mean the accumulator, zero page a branch.          *)
Second(mode) == CASE mode = "0" -> "4" [] mode = "A" -> "9" [] OTHER -> mode
getoptcode(dataset, mode) ==
  LET found == {p \in dataset : p.mode = mode}
  IN IF found # {} THEN found ELSE {p \in dataset : p.mode = Second(mode)}
NoOperand == {"0", "4"}

(* grabaddress: up to four hex digits behind the first space.                 *)
FirstSpace(buf) == Min({i \in 1..CMDSIZE - 1 : buf[i] = " "})
Collected(buf, length, s) ==   \* from the first n characters behind offset s
  LET digits[n \in Nat] ==
        IF n = 0 THEN <<>>
        ELSE LET c == At(buf, length, s + n)
                 before == digits[n - 1]
             IN IF Len(before) < 4 /\ IsHex(c) THEN Append(before, c) ELSE before
  IN digits
EndOfLine(buf, length, s) == Min({i \in s + 1..CMDSIZE + 1 : At(buf, length, i) = NUL})
HexBehind(buf, length) ==
  LET s == FirstSpace(buf)
  IN Collected(buf, length, s)[EndOfLine(buf, length, s) - s - 1]
(* The operand bytes, low byte first; none, one or two.                       *)
Operand_HighFirst(d) ==
  CASE Len(d) = 4 -> <<char2num(d[1], d[2]), char2num(d[3], d[4])>>
    [] Len(d) = 2 -> <<char2num(d[1], d[2])>>
    [] OTHER      -> <<>>
Operand(d) ==
  CASE Len(d) = 4 -> <<char2num(d[3], d[4]), char2num(d[1], d[2])>>
    [] Len(d) = 2 -> <<char2num(d[1], d[2])>>
    [] OTHER      -> <<>>

(* assemble: the bytes of a line; none if it is refused.                      *)
Assemble(buf, length) ==
  LET found == getoptcode(Dataset(buf), getmode(buf, length))
      p == CHOOSE q \in found : TRUE
      d == HexBehind(buf, length)
  IN CASE found = {}                               -> <<>>
       [] found # {} /\ p.mode \in NoOperand       -> <<p.code>>
       [] found # {} /\ p.mode \notin NoOperand /\ Len(d) \in {2, 4} -> <<p.code>> \o Operand(d)
       [] OTHER                                    -> <<>>
(* No space anywhere: grabaddress goes on searching in other memory.          *)
GoesAstray(buf, length) ==
  /\ \E p \in getoptcode(Dataset(buf), getmode(buf, length)) : p.mode \notin NoOperand
  /\ \A i \in 1..CMDSIZE - 1 : buf[i] # " "

----------------------------------------------------------------------------
(* disassembleline: what is printed for a code and the two bytes behind it.   *)
(* zpx and zpy are printed like the indirect modes, absind without its first  *)
(* parenthesis.                                                               *)
OperandText(mode, b2, b3) ==
  CASE mode = "1" -> Hex(b3) \o Hex(b2)
    [] mode = "2" -> Hex(b3) \o Hex(b2) \o ",X"
    [] mode = "3" -> Hex(b3) \o Hex(b2) \o ",Y"
    [] mode = "5" -> "#" \o Hex(b2)
    [] mode \in {"6", "B"} -> "(" \o Hex(b2) \o ",X)"
    [] mode \in {"7", "C"} -> "(" \o Hex(b2) \o "),Y"
    [] mode = "8" -> "(" \o Hex(b3) \o Hex(b2) \o ")"
    [] mode \in {"9", "A"} -> Hex(b2)
    [] mode = "D" -> "(" \o Hex(b2) \o ")"
    [] mode = "E" -> Hex(b3) \o Hex(b2) \o ",X)"
    [] mode = "F" -> Hex(b3) \o "," \o Hex(b2)
    [] OTHER      -> ""
Text(o, b2, b3) ==
  Mnemonic(o) \o (IF Char(Mnemonic(o), 4) = " " THEN "" ELSE " ")
              \o OperandText(Mode(o), b2, b3)
=============================================================================
