--------------------------- MODULE Monitor_proofs ---------------------------
(* The safety properties of Monitor for any keys, however many, any cells     *)
(* that can be written to and any contents of the others.                     *)
EXTENDS Monitor, NatRecursion, SequenceTheorems

USE DEF keys, cmd, wr, dump, Goto

----------------------------------------------------------------------------
(* Characters, digits and bytes.                                              *)
LEMMA DigitRange == ASSUME NEW c, IsHex(c) PROVE Nibble(c) \in 0..15
<1>1. PICK i \in 1..16 : c = Char(HexDigits, i)
  BY DEF IsHex
<1>2. i - 1 \in 0..15 /\ c = Char(HexDigits, (i - 1) + 1)
  BY <1>1
<1>3. \E n \in 0..15 : c = Char(HexDigits, n + 1)
  BY <1>2
<1> QED
  BY <1>3, Zenon DEF Nibble

LEMMA ByteRange ==
  ASSUME NEW hi, NEW lo, IsHex(hi), IsHex(lo) PROVE char2num(hi, lo) \in 0..255
<1>1. Nibble(hi) \in 0..15 /\ Nibble(lo) \in 0..15
  BY DigitRange
<1> QED
  BY <1>1 DEF char2num

LEMMA AddressRange == ASSUME NEW x \in Nat, Hex4(x) PROVE Address(x) \in Word16
<1>1. IsHex(CMDBUF[x]) /\ IsHex(CMDBUF[x + 1]) /\ IsHex(CMDBUF[x + 2]) /\ IsHex(CMDBUF[x + 3])
  <2>1. {x, x + 1, x + 2, x + 3} \subseteq x..x + 3
    OBVIOUS
  <2> QED BY <2>1 DEF Hex4
<1>2. char2num(CMDBUF[x], CMDBUF[x + 1]) \in 0..255
      /\ char2num(CMDBUF[x + 2], CMDBUF[x + 3]) \in 0..255
  BY <1>1, ByteRange
<1> DEFINE hi == char2num(CMDBUF[x], CMDBUF[x + 1])
           lo == char2num(CMDBUF[x + 2], CMDBUF[x + 3])
<1>4. Address(x) = 256 * hi + lo
  BY DEF Address
<1>5. hi \in 0..255 /\ lo \in 0..255
  BY <1>2
<1> HIDE DEF hi, lo
<1> QED
  BY <1>4, <1>5 DEF Word16

LEMMA LengthRange == ASSUME NEW mode PROVE Length(mode) \in 1..3
BY DEF Length

LEMMA WordRange == ASSUME NEW n \in Int PROVE Word(n) \in Word16
BY DEF Word, Word16

LEMMA WordNat == ASSUME NEW n \in Int PROVE Word(n) \in Nat
BY WordRange DEF Word16

LEMMA Word16Int == \A n \in Word16 : n \in Nat /\ n \in Int /\ n < 65536
BY DEF Word16

LEMMA CellsFree == \A a \in Cells : a \in Word16 /\ FREE <= a
<1>1. Cells \subseteq FREE..IO_PAGE - 1
  BY MonitorAssumption
<1>2. \A a \in FREE..IO_PAGE - 1 : a \in Word16 /\ FREE <= a
  BY DEF FREE, IO_PAGE, Word16
<1> QED BY <1>1, <1>2

(* Below free memory lies RAM that the model does not follow.                 *)
LEMMA BelowFree == ASSUME NEW a \in Nat, a < FREE PROVE a \notin Cells /\ ~IsRom(a)
<1>1. a \notin Cells
  BY CellsFree DEF FREE, Word16
<1>2. a < IO_PAGE
  BY DEF FREE, IO_PAGE
<1>3. write(a, 0, 0) = Cell("ram", a)
  <2>1. a < 32512 /\ ~InRamWindow(a) /\ ~InRomWindow(a) /\ ~(a >= ROM_TOP)
    BY <1>2 DEF IO_PAGE, InRamWindow, InRomWindow, RAM_WINDOW, ROM_WINDOW, ROM_TOP
  <2>2. a - (a % 64) < 32512
    BY <2>1
  <2>3. /\ ~Responds(a, ACIA_MASK) /\ ~Responds(a, VIA_MASK)
        /\ ~Responds(a, ROMBANK_PATTERN) /\ ~Responds(a, RAMBANK_PATTERN)
    BY <2>2 DEF Responds, ACIA_MASK, VIA_MASK, ROMBANK_PATTERN, RAMBANK_PATTERN
  <2> QED BY <1>2, <2>1, <2>3 DEF write
<1>4. Cell("ram", a) # Nothing
  <2>1. Cell("ram", a).chip = "ram" /\ Nothing.chip = "none"
    BY DEF Cell, Nothing
  <2> QED BY <2>1
<1> QED BY <1>1, <1>3, <1>4 DEF IsRom

----------------------------------------------------------------------------
(* What the assembler stores is bytes.  The digits it collects are hex        *)
(* digits, four at most.                                                      *)
HexChars == {Char(HexDigits, i) : i \in 1..16}

LEMMA DigitsCollected ==
  ASSUME NEW buf, NEW length, NEW s \in Nat, NEW n \in Nat
  PROVE  Collected(buf, length, s)[n] \in Seq(HexChars)
<1> DEFINE S == Seq(HexChars)
           Takes2(u, i) == Len(u) < 4 /\ IsHex(At(buf, length, s + i))
           Add(u, i) == IF Takes2(u, i) THEN Append(u, At(buf, length, s + i)) ELSE u
           step == [i \in Nat |-> [u \in S |-> Add(u, i)]]
           digits[i \in Nat] ==
             IF i = 0 THEN <<>>
             ELSE LET c == At(buf, length, s + i)
                      before == digits[i - 1]
                  IN IF Len(before) < 4 /\ IsHex(c) THEN Append(before, c) ELSE before
<1>1. ASSUME NEW i \in Nat, NEW u \in S PROVE Add(u, i) \in S
  <2>1. CASE Takes2(u, i)
    <3>1. At(buf, length, s + i) \in HexChars
      BY <2>1 DEF IsHex, HexChars
    <3> HIDE DEF HexChars
    <3> QED BY <2>1, <3>1
  <2> QED BY <2>1
<1>2. PICK f : Iterates(f, S, <<>>, step)
  <2> HIDE DEF S, Add
  <2>1. IsStep(S, step)
    BY <1>1 DEF IsStep
  <2>2. <<>> \in S
    BY DEF S
  <2> HIDE DEF step
  <2> QED BY <2>1, <2>2, Recursion
<1>3. f \in [Nat -> S] /\ f[0] = <<>> /\ \A i \in Nat : f[i + 1] = step[i + 1][f[i]]
  <2> HIDE DEF S, step
  <2> QED BY <1>2 DEF Iterates
<1>4. ASSUME NEW i \in Nat, i # 0 PROVE f[i] = Add(f[i - 1], i)
  <2>1. i - 1 \in Nat /\ (i - 1) + 1 = i
    BY <1>4
  <2> HIDE DEF S, Add
  <2> QED BY <1>3, <2>1
<1>5. \E g : g = [i \in Nat |-> IF i = 0 THEN <<>> ELSE Add(g[i - 1], i)]
  <2> HIDE DEF S, Add, step
  <2>1. f = [i \in Nat |-> IF i = 0 THEN <<>> ELSE Add(f[i - 1], i)]
    BY <1>3, <1>4
  <2> QED BY <2>1
<1>6. \E g : g = [i \in Nat |->
             IF i = 0 THEN <<>>
             ELSE LET c == At(buf, length, s + i)
                      before == g[i - 1]
                  IN IF Len(before) < 4 /\ IsHex(c) THEN Append(before, c) ELSE before]
  BY <1>5
<1>7. digits = [i \in Nat |->
             IF i = 0 THEN <<>>
             ELSE LET c == At(buf, length, s + i)
                      before == digits[i - 1]
                  IN IF Len(before) < 4 /\ IsHex(c) THEN Append(before, c) ELSE before]
  BY <1>6, Zenon DEF digits
<1>8. Collected(buf, length, s) = digits
  BY DEF Collected
<1> HIDE DEF digits
<1>9. digits[0] = <<>> /\ \A i \in Nat : digits[i + 1] = Add(digits[i], i + 1)
  <2>1. ASSUME NEW i \in Nat PROVE digits[i + 1] = Add(digits[i], i + 1)
    <3>1. i + 1 \in Nat /\ i + 1 # 0 /\ (i + 1) - 1 = i
      OBVIOUS
    <3> QED BY <1>7, <3>1
  <2> QED BY <1>7, <2>1
<1> DEFINE T == {i \in Nat : digits[i] \in S}
<1>10. 0 \in T
  <2>1. <<>> \in S
    OBVIOUS
  <2> HIDE DEF S, Add
  <2> QED BY <1>9, <2>1
<1>11. ASSUME NEW i \in T PROVE i + 1 \in T
  <2>1. i \in Nat /\ i + 1 \in Nat /\ digits[i] \in S
    OBVIOUS
  <2> HIDE DEF S, Add
  <2> QED BY <1>1, <1>9, <2>1
<1>12. n \in T
  <2> HIDE DEF T
  <2> QED BY <1>10, <1>11, Induction, T \subseteq Nat DEF T
<1> QED BY <1>8, <1>12

(* Some character behind the buffer always ends the search for digits.        *)
LEMMA EndFound ==
  ASSUME NEW buf, NEW length, NEW s \in 1..CMDSIZE - 1
  PROVE  EndOfLine(buf, length, s) - s - 1 \in Nat
<1> DEFINE E == {i \in s + 1..CMDSIZE + 1 : At(buf, length, i) = NUL}
<1>1. 17 \in E /\ E \subseteq Nat
  BY DEF At, CMDSIZE
<1>2. \E i \in E : \A j \in E : i <= j
  <2> HIDE DEF E
  <2> QED BY <1>1, Least
<1>3. Min(E) \in E
  <2> HIDE DEF E
  <2> QED BY <1>2, Zenon DEF Min
<1>4. Min(E) \in s + 1..17
  BY <1>3 DEF CMDSIZE
<1> HIDE DEF E
<1> QED BY <1>4 DEF EndOfLine, E

LEMMA OperandBytes ==
  ASSUME NEW d \in Seq(HexChars) PROVE Operand(d) \in Seq(0..255) /\ Len(Operand(d)) <= 2
<1>1. \A c \in HexChars : IsHex(c)
  BY DEF HexChars, IsHex
<1>5. \A i \in 1..Len(d) : d[i] \in HexChars
  OBVIOUS
<1>2. CASE Len(d) = 4
  <2>1. char2num(d[3], d[4]) \in 0..255 /\ char2num(d[1], d[2]) \in 0..255
    <3>1. d[1] \in HexChars /\ d[2] \in HexChars /\ d[3] \in HexChars /\ d[4] \in HexChars
      BY <1>2, <1>5
    <3> QED BY <1>1, <3>1, ByteRange
  <2>2. Operand(d) = <<char2num(d[3], d[4]), char2num(d[1], d[2])>>
    BY <1>2 DEF Operand
  <2> QED BY <2>1, <2>2
<1>3. CASE Len(d) = 2
  <2>1. char2num(d[1], d[2]) \in 0..255
    <3>1. d[1] \in HexChars /\ d[2] \in HexChars
      BY <1>3, <1>5
    <3> QED BY <1>1, <3>1, ByteRange
  <2>2. Operand(d) = <<char2num(d[1], d[2])>>
    BY <1>3 DEF Operand
  <2> QED BY <2>1, <2>2
<1>4. CASE Len(d) # 4 /\ Len(d) # 2
  BY <1>4 DEF Operand
<1> QED BY <1>2, <1>3, <1>4

(* A line that does not send the search astray is one to three bytes, or none.*)
LEMMA AssembledBytes ==
  ASSUME NEW buf, NEW length, ~GoesAstray(buf, length)
  PROVE  /\ Assemble(buf, length) \in Seq(0..255)
         /\ Len(Assemble(buf, length)) <= 3
<1> DEFINE codes == getoptcode(Dataset(buf), getmode(buf, length))
           o == CHOOSE q \in codes : TRUE
           d == HexBehind(buf, length)
<1>1. \A p \in codes : p.code \in 0..255
  <2>1. \A p \in Dataset(buf) : p.code \in 0..255
    BY DatasetsAssumption DEF Dataset
  <2> QED BY <2>1 DEF getoptcode
<1> HIDE DEF codes
<1>2. codes # {} => o \in codes /\ o.code \in 0..255
  BY <1>1
<1>3. CASE codes # {} /\ o.mode \notin NoOperand /\ Len(d) \in {2, 4}
  <2>1. \E i \in 1..CMDSIZE - 1 : buf[i] = " "
    BY <1>2, <1>3 DEF GoesAstray, codes
  <2>2. FirstSpace(buf) \in 1..CMDSIZE - 1
    <3> DEFINE P == {i \in 1..CMDSIZE - 1 : buf[i] = " "}
    <3>1. P # {}
      BY <2>1
    <3>4. P \subseteq Nat
      <4>1. 1..CMDSIZE - 1 \subseteq Nat
        BY DEF CMDSIZE
      <4> QED BY <4>1
    <3>2. \E i \in P : \A j \in P : i <= j
      <4> HIDE DEF P
      <4> QED BY <3>1, <3>4, Least
    <3>3. Min(P) \in P
      <4> HIDE DEF P
      <4> QED BY <3>2, Zenon DEF Min
    <3> QED BY <3>3 DEF FirstSpace
  <2>3. d \in Seq(HexChars)
    <3>1. FirstSpace(buf) \in Nat
      BY <2>2 DEF CMDSIZE
    <3>2. EndOfLine(buf, length, FirstSpace(buf)) - FirstSpace(buf) - 1 \in Nat
      BY <2>2, EndFound
    <3> QED BY <3>1, <3>2, DigitsCollected DEF HexBehind
  <2>4. Operand(d) \in Seq(0..255) /\ Len(Operand(d)) <= 2
    BY <2>3, OperandBytes
  <2>5. Assemble(buf, length) = <<o.code>> \o Operand(d)
    <3> HIDE DEF o, d
    <3> QED BY <1>3 DEF Assemble, codes, o, d
  <2>6. <<o.code>> \in Seq(0..255) /\ Len(<<o.code>>) = 1
    BY <1>2, <1>3
  <2> HIDE DEF o, d
  <2> QED BY <2>4, <2>5, <2>6
<1>4. CASE codes = {}
  BY <1>4 DEF Assemble, codes
<1>5. CASE codes # {} /\ o.mode \in NoOperand
  <2>1. Assemble(buf, length) = <<o.code>>
    BY <1>5 DEF Assemble, codes
  <2> QED BY <1>2, <1>5, <2>1
<1>6. CASE codes # {} /\ o.mode \notin NoOperand /\ ~(Len(d) \in {2, 4})
  BY <1>6 DEF Assemble, codes
<1> QED BY <1>3, <1>4, <1>5, <1>6

----------------------------------------------------------------------------
(* Addresses of sixteen bits.                                                 *)
LEMMA WordBounds ==
  ASSUME NEW n \in Int PROVE Word(n) \in Int /\ 0 <= Word(n) /\ Word(n) < 65536
BY DEF Word

Pages(n) == n \div 65536
LEMMA WordParts ==
  ASSUME NEW n \in Int PROVE Pages(n) \in Int /\ n = 65536 * Pages(n) + Word(n)
BY DEF Word, Pages

LEMMA WordAdd ==
  ASSUME NEW a \in Int, NEW b \in Int PROVE Word(Word(a) + b) = Word(a + b)
<1> DEFINE s == Word(a) + b
<1>1. Word(a) \in Int /\ Pages(a) \in Int /\ a = 65536 * Pages(a) + Word(a)
  BY WordBounds, WordParts
<1>2. s \in Int /\ a + b = 65536 * Pages(a) + s
  BY <1>1
<1> HIDE DEF s
<1>3. Word(s) \in Int /\ 0 <= Word(s) /\ Word(s) < 65536
  BY <1>2, WordBounds
<1>4. Pages(s) \in Int /\ s = 65536 * Pages(s) + Word(s)
  BY <1>2, WordParts
<1>5. Pages(a) + Pages(s) \in Int /\ a + b = 65536 * (Pages(a) + Pages(s)) + Word(s)
  BY <1>1, <1>2, <1>3, <1>4
<1>6. Word(65536 * (Pages(a) + Pages(s)) + Word(s)) = Word(s)
  <2> DEFINE q == Pages(a) + Pages(s)
             r == Word(s)
  <2>1. q \in Int /\ r \in Int /\ 0 <= r /\ r < 65536
    BY <1>3, <1>5
  <2> HIDE DEF q, r
  <2>2. Word(65536 * q + r) = r
    BY <2>1 DEF Word
  <2> QED BY <2>2 DEF q, r
<1> QED BY <1>5, <1>6 DEF s

LEMMA WordMoves ==
  ASSUME NEW a \in Int, NEW b \in Int, NEW d \in Int, Word(a) = Word(b)
  PROVE  Word(a + d) = Word(b + d)
<1>1. Word(Word(a) + d) = Word(a + d) /\ Word(Word(b) + d) = Word(b + d)
  BY WordAdd
<1> QED BY <1>1

LEMMA WordsDiffer ==
  ASSUME NEW a \in Int, NEW b \in Int, a < b, b < a + 65536 PROVE Word(a) # Word(b)
<1>1. Pages(a) \in Int /\ a = 65536 * Pages(a) + Word(a) /\ Word(a) \in Int
  BY WordParts, WordBounds
<1>2. Pages(b) \in Int /\ b = 65536 * Pages(b) + Word(b) /\ Word(b) \in Int
  BY WordParts, WordBounds
<1>3. ASSUME Word(a) = Word(b) PROVE FALSE
  <2>1. b - a = 65536 * (Pages(b) - Pages(a))
    BY <1>1, <1>2, <1>3
  <2> QED BY <1>1, <1>2, <2>1
<1> QED BY <1>3

LEMMA WordSmall == ASSUME NEW a \in Word16 PROVE Word(a) = a
BY DEF Word, Word16

----------------------------------------------------------------------------
(* The type invariant, with the types of the history variables.               *)
Held == 0..255 \union {Image(a) : a \in Word16}
Entry == [at : Word16, o : Held, b2 : Held, b3 : Held]
MoreTypes ==
  /\ stack \in Seq(Nat) /\ base \in Word16 /\ typed \in Seq(0..255)
  /\ listed \in Seq(Entry) /\ range \in [from : Word16, to : Word16]
TypeInv == TypeOK /\ MoreTypes

LEMMA TopNumber == ASSUME NEW s \in Seq(Nat), Len(s) = 1 PROVE s[Len(s)] \in Nat
<1>1. Len(s) \in 1..Len(s)
  OBVIOUS
<1> QED BY <1>1, ElementOfSeq

LEMMA OneNumber ==
  ASSUME NEW n \in Nat PROVE <<n>> \in Seq(Nat) /\ Len(<<n>>) = 1 /\ <<n>>[Len(<<n>>)] = n
OBVIOUS

LEMMA StackMoves ==
  ASSUME NEW s \in Seq(Nat), Len(s) = 1
  PROVE  Front(s) = <<>>
         /\ \A n \in Nat : Append(Front(s), n) = <<n>> /\ Len(Append(Front(s), n)) = 1
<1>1. Front(s) = <<>>
  BY DEF Front
<1> QED BY <1>1

LEMMA ListingType ==
  ASSUME NEW m \in [Cells -> 0..255], NEW a \in Word16
  PROVE  Listing(m, a) \in Entry /\ Listing(m, a).at = a /\ LengthOf(Listing(m, a)) \in 1..3
<1>1. ASSUME NEW b \in Word16 PROVE Mem(m, b) \in Held
  BY DEF Mem, Held
<1>2. Word(a + 1) \in Word16 /\ Word(a + 2) \in Word16
  <2>1. a + 1 \in Int /\ a + 2 \in Int
    BY Word16Int
  <2> QED BY <2>1, WordRange, Zenon
<1>3. Mem(m, a) \in Held /\ Mem(m, Word(a + 1)) \in Held /\ Mem(m, Word(a + 2)) \in Held
  BY <1>1, <1>2
<1>4. LengthOf(Listing(m, a)) \in 1..3
  BY LengthRange DEF LengthOf
<1> QED BY <1>3, <1>4 DEF Listing, Entry

(* What typing and editing do to the buffer.                                  *)
LEMMA EditingTypes ==
  ASSUME TypeOK, TypeChar \/ Backspace
  PROVE  DOMAIN CMDBUF' = 0..CMDSIZE - 1 /\ CMDLENGTH' \in 0..CMDSIZE
<1>1. CASE TypeChar
  <2>1. PICK c : StoreChar(c) \/ UNCHANGED cmd
    BY <1>1 DEF TypeChar
  <2>2. CASE StoreChar(c)
    BY <2>2 DEF StoreChar, TypeOK, CMDSIZE
  <2>3. CASE UNCHANGED cmd
    BY <2>3 DEF TypeOK
  <2> QED BY <2>1, <2>2, <2>3
<1>2. CASE Backspace
  BY <1>2 DEF Backspace, TypeOK, CMDSIZE
<1> QED BY <1>1, <1>2

LEMMA Cleared ==
  ASSUME ClearCmdBuf PROVE DOMAIN CMDBUF' = 0..CMDSIZE - 1 /\ CMDLENGTH' = 0 /\ CMDLENGTH' \in 0..CMDSIZE
BY DEF ClearCmdBuf, CMDSIZE

(* What a line of the assembler does.                                         *)
LEMMA LineStored ==
  ASSUME TypeInv, NEW bytes \in Seq(0..255), AsmLine(bytes)
  PROVE  /\ mem' \in [Cells -> 0..255] /\ START' \in Word16
         /\ listed' \in Seq(Entry) /\ Listing(mem', START) \in Entry
         /\ listed' = Append(listed, Listing(mem', START))
         /\ START' = Word(START + LengthOf(Listing(mem', START)))
         /\ LengthOf(Listing(mem', START)) \in 1..3
<1>1. mem' \in [Cells -> 0..255]
  <2>1. ASSUME NEW a \in Cells, Word(a - START) < Len(bytes)
        PROVE  bytes[Word(a - START) + 1] \in 0..255
    <3>1. a - START \in Int
      BY CellsFree, Word16Int DEF TypeInv, TypeOK
    <3>3. Word(a - START) \in Nat
      BY <3>1, WordNat
    <3>2. Word(a - START) + 1 \in 1..Len(bytes)
      BY <2>1, <3>3
    <3> QED BY <3>2, ElementOfSeq
  <2> QED BY <2>1 DEF AsmLine, TypeInv, TypeOK
<1>2. START \in Word16
  BY DEF TypeInv, TypeOK
<1>3. Listing(mem', START) \in Entry /\ LengthOf(Listing(mem', START)) \in 1..3
  BY <1>1, <1>2, ListingType
<1>4. /\ listed' = Append(listed, Listing(mem', START))
      /\ START' = Word(START + LengthOf(Listing(mem', START)))
  BY DEF AsmLine
<1>5. START' \in Word16
  <2>1. START + LengthOf(Listing(mem', START)) \in Int
    BY <1>2, <1>3, Word16Int
  <2> QED BY <1>4, <2>1, WordRange
<1> QED BY <1>1, <1>3, <1>4, <1>5 DEF TypeInv, MoreTypes

----------------------------------------------------------------------------
(* The types and the stack: every step.                                       *)
LEMMA TypesInit == Init => TypeInv /\ StackBalanced
<1> SUFFICES ASSUME Init PROVE TypeInv /\ StackBalanced
  OBVIOUS
<1>1. TypeOK
  <2>1. mem \in [Cells -> 0..255]
    BY MonitorAssumption DEF Init
  <2>2. 0 \in Word16
    BY DEF Word16
  <2>3. DOMAIN CMDBUF = 0..CMDSIZE - 1 /\ CMDLENGTH \in 0..CMDSIZE
    BY DEF Init, CMDSIZE
  <2>4. START \in Word16 /\ row \in Word16 /\ lines \in Nat /\ lines < 4096 /\ ask \in BOOLEAN
    <3>1. START = 0 /\ row = 0 /\ lines = 0 /\ ask = FALSE
      BY DEF Init
    <3>2. START \in Word16 /\ row \in Word16
      BY <2>2, <3>1
    <3>3. lines \in Nat /\ lines < 4096
      BY <3>1
    <3>4. ask \in BOOLEAN
      BY <3>1
    <3> QED BY <3>2, <3>3, <3>4
  <2> QED BY <2>1, <2>3, <2>4 DEF Init, TypeOK
<1>2. MoreTypes
  <2>1. 0 \in Word16
    BY DEF Word16
  <2>2. [from |-> 0, to |-> 0] \in [from : Word16, to : Word16]
    BY <2>1
  <2>3. <<>> \in Seq(Nat) /\ <<>> \in Seq(0..255) /\ <<>> \in Seq(Entry)
    OBVIOUS
  <2> QED BY <2>1, <2>2, <2>3 DEF Init, MoreTypes
<1> QED BY <1>1, <1>2 DEF Init, TypeInv, StackBalanced

Editor == TypeScript \/ Start \/ TypeChar \/ Backspace \/ NoCommand \/ Quit \/ Run
          \/ ProgramReturns \/ Reset
LEMMA EditorTypes ==
  ASSUME TypeInv, StackBalanced, Editor PROVE TypeInv' /\ StackBalanced'
<1> USE DEF BackToLoop, Exec
<1>1. /\ START' = START /\ mem' = mem /\ base' = base /\ typed' = typed /\ listed' = listed
      /\ range' = range /\ row' = row /\ lines' = lines /\ ask' = ask
  BY DEF Editor, TypeScript, Start, TypeChar, Backspace, NoCommand, Quit, Run, ProgramReturns, Reset
<1>2. stack' = stack \/ stack' = <<>>
  BY DEF Editor, TypeScript, Start, TypeChar, Backspace, NoCommand, Quit, Run, ProgramReturns, Reset
<1>3. DOMAIN CMDBUF' = 0..CMDSIZE - 1 /\ CMDLENGTH' \in 0..CMDSIZE
  <2>1. CASE TypeChar \/ Backspace
    BY <2>1, EditingTypes DEF TypeInv
  <2>2. CASE ~(TypeChar \/ Backspace)
    <3>1. UNCHANGED cmd \/ ClearCmdBuf
      BY <2>2 DEF Editor, TypeScript, Start, NoCommand, Quit, Run, ProgramReturns, Reset
    <3> QED BY <3>1, Cleared DEF TypeInv, TypeOK
  <2> QED BY <2>1, <2>2
<1>4. \/ where' = where /\ stack' = stack
      \/ where \in {"shell", "loop", "run"} /\ where' \in {"loop", "shell", "run"} /\ stack' = stack
      \/ where \in {"run", "astray"} /\ where' = "shell" /\ stack' = <<>>
  BY DEF Editor, TypeScript, Start, TypeChar, Backspace, NoCommand, Quit, Run, ProgramReturns, Reset,
         StackBalanced
<1>5. TypeOK'
  BY <1>1, <1>3, <1>4 DEF TypeInv, TypeOK
<1>6. MoreTypes'
  <2>1. stack \in Seq(Nat) /\ <<>> \in Seq(Nat)
    BY DEF TypeInv, MoreTypes
  <2>2. stack' \in Seq(Nat)
    BY <1>2, <2>1
  <2> QED BY <1>1, <2>2 DEF TypeInv, MoreTypes
<1>7. StackBalanced'
  BY <1>4 DEF StackBalanced, Offset
<1> QED BY <1>5, <1>6, <1>7 DEF TypeInv

LEMMA WriterTypes ==
  ASSUME TypeInv, StackBalanced, Write \/ Writing PROVE TypeInv' /\ StackBalanced'
<1> USE DEF TypeInv, TypeOK, MoreTypes
<1>1. CASE Write
  <2>1. Address(1) \in Word16
    BY <1>1, AddressRange DEF Write
  <2>2. stack = <<>> /\ stack' = <<0>> /\ Len(stack') = 1 /\ stack' \in Seq(Nat)
    BY <1>1 DEF Write, Exec, StackBalanced
  <2>3. TypeInv'
    BY <1>1, <2>1, <2>2 DEF Write
  <2>4. StackBalanced'
    BY <1>1, <2>2 DEF Write, StackBalanced, Offset, ROW
  <2> QED BY <2>3, <2>4
<1>2. CASE WriteFirst
  BY <1>2 DEF WriteFirst, StackBalanced, Offset
<1>3. CASE WriteSecond
  <2>1. PICK c : /\ IsHex(pair) /\ IsHex(chartoupper(c))
                 /\ WriteByte(char2num(pair, chartoupper(c)))
                 /\ typed' = Append(typed, char2num(pair, chartoupper(c)))
    BY <1>3 DEF WriteSecond
  <2> DEFINE b == char2num(pair, chartoupper(c))
  <2>2. b \in 0..255
    BY <2>1, ByteRange
  <2>3. WriteByte(b) /\ typed' = Append(typed, b)
    BY <2>1
  <2> HIDE DEF b
  <2>4. stack \in Seq(Nat) /\ Len(stack) = 1 /\ Offset < ROW /\ Offset \in Nat
    <3>1. stack \in Seq(Nat) /\ Len(stack) = 1 /\ Offset < ROW
      BY <1>3 DEF WriteSecond, StackBalanced
    <3>2. Offset \in Nat
      <4> HIDE DEF TypeInv
      <4> QED BY <3>1, TopNumber DEF Offset
    <3> QED BY <3>1, <3>2
  <2>5. mem' \in [Cells -> 0..255]
    BY <2>2, <2>3 DEF WriteByte
  <2>6. typed' \in Seq(0..255)
    BY <2>2, <2>3
  <2>7. START' \in Word16
    <3>1. START + ROW \in Int
      BY Word16Int DEF ROW
    <3> QED BY <2>3, <3>1, WordRange DEF WriteByte
  <2>8. \E n \in 0..ROW - 1 : stack' = <<n>>
    <3>1. CASE Offset + 1 < ROW /\ stack' = Append(Pulled, Offset + 1)
      <4>1. stack' = <<Offset + 1>>
        BY <2>4, <3>1, StackMoves DEF Pulled
      <4>2. Offset + 1 \in 0..ROW - 1
        BY <2>4, <3>1 DEF ROW
      <4> QED BY <4>1, <4>2
    <3>2. CASE stack' = Append(Pulled, 0)
      <4>1. stack' = <<0>>
        BY <2>4, <3>2, StackMoves DEF Pulled
      <4> QED BY <4>1 DEF ROW
    <3> QED BY <2>3, <3>1, <3>2 DEF WriteByte
  <2>9. stack' \in Seq(Nat) /\ Len(stack') = 1 /\ stack'[Len(stack')] < ROW
    BY <2>8 DEF ROW
  <2>10. TypeInv'
    BY <1>3, <2>5, <2>6, <2>7, <2>9 DEF WriteSecond
  <2>11. StackBalanced'
    BY <1>3, <2>9 DEF WriteSecond, StackBalanced, Offset
  <2> QED BY <2>10, <2>11
<1>4. CASE WriteEnds
  <2>1. stack' = <<>>
    BY <1>4, StackMoves DEF WriteEnds, EndOfWrite, Pulled, StackBalanced
  <2>2. TypeInv'
    BY <1>4, <2>1, Cleared DEF WriteEnds, BackToLoop
  <2>3. StackBalanced'
    BY <1>4, <2>1 DEF WriteEnds, BackToLoop, StackBalanced
  <2> QED BY <2>2, <2>3
<1>5. CASE WriteAstray
  BY <1>5 DEF WriteAstray, StackBalanced
<1> QED BY <1>1, <1>2, <1>3, <1>4, <1>5 DEF Writing

LEMMA AssemblerTypes ==
  ASSUME TypeInv, StackBalanced, Asm \/ Assembling PROVE TypeInv' /\ StackBalanced'
<1>1. CASE Asm
  <2>1. Address(1) \in Word16 /\ <<>> \in Seq(Entry)
    BY <1>1, AddressRange DEF Asm
  <2>2. TypeOK'
    BY <1>1, <2>1, Cleared DEF Asm, TypeInv, TypeOK
  <2>3. MoreTypes'
    BY <1>1, <2>1 DEF Asm, TypeInv, MoreTypes
  <2>4. StackBalanced'
    BY <1>1 DEF Asm, Exec, StackBalanced
  <2> QED BY <2>2, <2>3, <2>4 DEF TypeInv
<1>2. CASE AsmLeave \/ AsmAstray
  <2>1. /\ UNCHANGED <<START, mem, stack, wr, listed, dump>> /\ where = "asm"
        /\ UNCHANGED cmd \/ ClearCmdBuf
        /\ where' \in {"loop", "astray"}
    BY <1>2 DEF AsmLeave, AsmAstray, BackToLoop
  <2>2. TypeOK'
    BY <2>1, Cleared DEF TypeInv, TypeOK
  <2>3. MoreTypes'
    BY <2>1 DEF TypeInv, MoreTypes
  <2>4. StackBalanced'
    BY <2>1 DEF StackBalanced
  <2> QED BY <2>2, <2>3, <2>4 DEF TypeInv
<1>3. CASE AsmEnter
  <2> DEFINE bytes == Assemble(CMDBUF, CMDLENGTH)
  <2>1. /\ where = "asm" /\ where' = "asm" /\ ClearCmdBuf /\ UNCHANGED <<stack, wr, dump>>
        /\ AsmLine(bytes) \/ UNCHANGED <<mem, listed, START>>
    BY <1>3 DEF AsmEnter
  <2>2. bytes \in Seq(0..255)
    BY <1>3, AssembledBytes DEF AsmEnter
  <2> HIDE DEF bytes
  <2>3. mem' \in [Cells -> 0..255] /\ START' \in Word16 /\ listed' \in Seq(Entry)
    <3>1. CASE AsmLine(bytes)
      BY <2>2, <3>1, LineStored
    <3>2. CASE UNCHANGED <<mem, listed, START>>
      BY <3>2 DEF TypeInv, TypeOK, MoreTypes
    <3> QED BY <2>1, <3>1, <3>2
  <2>4. TypeOK'
    BY <2>1, <2>3, Cleared DEF TypeInv, TypeOK
  <2>5. MoreTypes'
    BY <2>1, <2>3 DEF TypeInv, MoreTypes
  <2>6. StackBalanced'
    BY <2>1 DEF StackBalanced
  <2> QED BY <2>4, <2>5, <2>6 DEF TypeInv
<1> QED BY <1>1, <1>2, <1>3 DEF Assembling

LEMMA DisassemblerTypes ==
  ASSUME TypeInv, StackBalanced, Disassemble \/ DisLine \/ DisAsk
  PROVE  TypeInv' /\ StackBalanced'
<1>0. stack \in Seq(Nat) /\ <<>> \in Seq(Entry)
  BY DEF TypeInv, MoreTypes
<1>1. CASE Disassemble
  <2>1. Address(1) \in Word16
    BY <1>1, AddressRange DEF Disassemble
  <2>2. stack' = <<0>> /\ Len(stack') = 1 /\ stack' \in Seq(Nat) /\ stack'[Len(stack')] = 0
    BY <1>1 DEF Disassemble, Exec, StackBalanced
  <2>3. TypeOK'
    BY <1>1, <2>1 DEF Disassemble, TypeInv, TypeOK
  <2>4. MoreTypes'
    BY <1>0, <1>1, <2>2 DEF Disassemble, TypeInv, MoreTypes
  <2>5. StackBalanced'
    BY <1>1, <2>2 DEF Disassemble, StackBalanced, Offset, SCREEN
  <2> QED BY <2>3, <2>4, <2>5 DEF TypeInv
<1>2. CASE DisLine
  <2> DEFINE e == Listing(mem, START)
  <2>1. e \in Entry /\ LengthOf(e) \in 1..3
    BY ListingType DEF TypeInv, TypeOK
  <2>2. /\ where = "dis" /\ listed' = Append(listed, e) /\ START' = Word(START + LengthOf(e))
        /\ \/ Offset + 1 < SCREEN /\ stack' = Append(Pulled, Offset + 1) /\ UNCHANGED where
           \/ Offset + 1 = SCREEN /\ stack' = Pulled /\ where' = "disask"
        /\ UNCHANGED <<keys, cmd, mem, wr, dump>>
    BY <1>2 DEF DisLine
  <2> HIDE DEF e
  <2>3. START' \in Word16
    <3>1. START + LengthOf(e) \in Int
      BY <2>1, Word16Int DEF TypeInv, TypeOK
    <3> QED BY <2>2, <3>1, WordRange
  <2>4. listed' \in Seq(Entry)
    BY <2>1, <2>2 DEF TypeInv, MoreTypes
  <2>5. Len(stack) = 1 /\ Offset \in Nat
    BY <1>0, <2>2, TopNumber DEF StackBalanced, Offset
  <2>6. \/ where' = "dis" /\ stack' \in Seq(Nat) /\ Len(stack') = 1 /\ stack'[Len(stack')] < SCREEN
        \/ where' = "disask" /\ stack' = <<>> /\ stack' \in Seq(Nat)
    <3>1. CASE Offset + 1 < SCREEN /\ stack' = Append(Pulled, Offset + 1) /\ UNCHANGED where
      <4>1. stack' = <<Offset + 1>>
        BY <1>0, <2>5, <3>1, StackMoves DEF Pulled
      <4>2. Offset + 1 \in Nat
        BY <2>5
      <4> QED BY <2>2, <3>1, <4>1, <4>2, OneNumber
    <3>2. CASE Offset + 1 = SCREEN /\ stack' = Pulled /\ where' = "disask"
      <4>1. stack' = <<>>
        BY <1>0, <2>5, <3>2, StackMoves DEF Pulled
      <4> QED BY <3>2, <4>1
    <3> QED BY <2>2, <3>1, <3>2
  <2>7. TypeOK'
    BY <2>2, <2>3, <2>6 DEF TypeInv, TypeOK
  <2>8. MoreTypes'
    BY <2>2, <2>4, <2>6 DEF TypeInv, MoreTypes
  <2>9. StackBalanced'
    BY <2>6 DEF StackBalanced, Offset
  <2> QED BY <2>7, <2>8, <2>9 DEF TypeInv
<1>3. CASE DisAsk
  <2>1. stack = <<>> /\ UNCHANGED <<START, mem, wr, dump>>
    BY <1>3 DEF DisAsk, StackBalanced
  <2>2. PICK c : \/ BackToLoop /\ UNCHANGED <<stack, listed>>
                 \/ where' = "dis" /\ stack' = Append(stack, 0) /\ listed' = <<>> /\ UNCHANGED cmd
    BY <1>3 DEF DisAsk
  <2>3. \/ BackToLoop /\ stack' = <<>> /\ stack' \in Seq(Nat) /\ listed' = listed
        \/ /\ where' = "dis" /\ stack' \in Seq(Nat) /\ Len(stack') = 1 /\ stack'[Len(stack')] < SCREEN
           /\ listed' = <<>> /\ UNCHANGED cmd
    <3>1. CASE BackToLoop /\ UNCHANGED <<stack, listed>>
      BY <2>1, <3>1
    <3>2. CASE where' = "dis" /\ stack' = Append(stack, 0) /\ listed' = <<>> /\ UNCHANGED cmd
      <4>1. stack' = <<0>>
        BY <2>1, <3>2
      <4>2. stack' \in Seq(Nat) /\ Len(stack') = 1 /\ stack'[Len(stack')] = 0
        BY <4>1, OneNumber
      <4>3. stack'[Len(stack')] < SCREEN
        BY <4>2 DEF SCREEN
      <4> QED BY <3>2, <4>2, <4>3
    <3> QED BY <2>2, <3>1, <3>2
  <2>4. TypeOK'
    BY <2>1, <2>3, Cleared DEF TypeInv, TypeOK, BackToLoop
  <2>5. MoreTypes'
    BY <1>0, <2>1, <2>3 DEF TypeInv, MoreTypes
  <2>6. StackBalanced'
    BY <2>3 DEF StackBalanced, Offset, BackToLoop
  <2> QED BY <2>4, <2>5, <2>6 DEF TypeInv
<1> QED BY <1>1, <1>2, <1>3

LEMMA ReaderTypes ==
  ASSUME TypeInv, StackBalanced, Read \/ DumpRow \/ DumpAsk
  PROVE  TypeInv' /\ StackBalanced'
<1>0. row \in Word16 /\ row \in Int /\ lines \in Nat /\ lines < 4096 /\ range \in [from : Word16, to : Word16]
  BY Word16Int DEF TypeInv, TypeOK, MoreTypes
<1>1. /\ UNCHANGED <<mem, stack, wr, listed>> /\ stack = <<>>
      /\ where' \in {"loop", "dump", "dumpask"}
      /\ UNCHANGED cmd \/ ClearCmdBuf
  BY DEF Read, DumpRow, DumpAsk, Exec, StackBalanced, BackToLoop
<1>2. /\ START' \in Word16 /\ row' \in Word16 /\ lines' \in Nat /\ lines' < 4096 /\ ask' \in BOOLEAN
      /\ range' \in [from : Word16, to : Word16]
  <2>1. CASE Read
    <3> DEFINE a == Address(1)
               b == Address(6)
    <3>1. a \in Word16
      BY <2>1, AddressRange DEF Read
    <3>2. CASE UNCHANGED dump
      BY <2>1, <3>1, <3>2 DEF Read, TypeInv, TypeOK, MoreTypes
    <3>3. CASE ~UNCHANGED dump
      <4>1. /\ CMDBUF[5] = ":" => Hex4(6)
            /\ row' = 256 * (a \div 256) /\ ask' = ~Ranged /\ START' = a
            /\ lines' = IF Ranged THEN RowsBetween(a, b) ELSE SCREEN - 1
            /\ range' = [from |-> a, to |-> IF Ranged THEN b ELSE Word(row' + SCREEN * ROW - 1)]
        BY <2>1, <3>3 DEF Read
      <4>2. Ranged => b \in Word16
        BY <4>1, AddressRange DEF Ranged
      <4> HIDE DEF a, b
      <4>3. a \in Int /\ 0 <= a /\ a < 65536
        BY <3>1 DEF Word16
      <4>4. row' \in Word16 /\ row' + SCREEN * ROW - 1 \in Int
        BY <4>1, <4>3 DEF Word16, SCREEN, ROW
      <4>5. Word(row' + SCREEN * ROW - 1) \in Word16
        BY <4>4, WordRange
      <4>6. range' \in [from : Word16, to : Word16]
        <5>1. (IF Ranged THEN b ELSE Word(row' + SCREEN * ROW - 1)) \in Word16
          BY <4>2, <4>5
        <5> QED BY <3>1, <4>1, <5>1
      <4>7. lines' \in Nat /\ lines' < 4096
        <5>1. CASE Ranged
          <6>1. b - a \in Int
            BY <4>2, <4>3, <5>1, Word16Int
          <6>2. Word(b - a) \in Int /\ 0 <= Word(b - a) /\ Word(b - a) < 65536
            BY <6>1, WordBounds
          <6> DEFINE w == Word(b - a)
          <6> HIDE DEF w
          <6>3. w \div 16 \in Nat /\ w \div 16 < 4096
            BY <6>2 DEF w
          <6> QED BY <4>1, <5>1, <6>3 DEF RowsBetween, ROW, w
        <5>2. CASE ~Ranged
          BY <4>1, <5>2 DEF SCREEN
        <5> QED BY <5>1, <5>2
      <4>8. ask' \in BOOLEAN
        BY <4>1
      <4> QED BY <3>1, <4>1, <4>4, <4>6, <4>7, <4>8
    <3> QED BY <3>2, <3>3
  <2>2. CASE DumpRow
    <3>1. row + ROW \in Int
      BY <1>0 DEF ROW
    <3>2. row' \in Word16
      BY <2>2, <3>1, WordRange DEF DumpRow
    <3>3. lines' \in Nat /\ lines' < 4096
      BY <1>0, <2>2 DEF DumpRow
    <3> QED BY <1>0, <2>2, <3>2, <3>3 DEF DumpRow, TypeInv, TypeOK
  <2>3. CASE DumpAsk
    <3>1. row + SCREEN * ROW - 1 \in Int
      BY <1>0 DEF SCREEN, ROW
    <3>2. Word(row + SCREEN * ROW - 1) \in Word16
      BY <3>1, WordRange
    <3>3. range' \in [from : Word16, to : Word16]
      BY <1>0, <2>3, <3>2 DEF DumpAsk
    <3>4. lines' \in Nat /\ lines' < 4096
      BY <1>0, <2>3 DEF DumpAsk, SCREEN
    <3> QED BY <1>0, <2>3, <3>3, <3>4 DEF DumpAsk, TypeInv, TypeOK
  <2> QED BY <2>1, <2>2, <2>3
<1>3. TypeOK'
  BY <1>1, <1>2, Cleared DEF TypeInv, TypeOK
<1>4. MoreTypes'
  BY <1>1, <1>2 DEF TypeInv, MoreTypes
<1>5. StackBalanced'
  BY <1>1 DEF StackBalanced
<1> QED BY <1>3, <1>4, <1>5 DEF TypeInv

(* Every step is one of these five groups.                                    *)
LEMMA Groups ==
  ASSUME Next
  PROVE  Editor \/ (Write \/ Writing) \/ (Asm \/ Assembling) \/ (Disassemble \/ DisLine \/ DisAsk)
         \/ (Read \/ DumpRow \/ DumpAsk)
BY DEF Next, Editing, Commands, Showing, Editor

LEMMA TypesStep == ASSUME TypeInv, StackBalanced, [Next]_vars PROVE TypeInv' /\ StackBalanced'
<1>1. CASE UNCHANGED vars
  BY <1>1 DEF vars, TypeInv, TypeOK, MoreTypes, StackBalanced, Offset
<1>2. CASE Next
  BY <1>2, Groups, EditorTypes, WriterTypes, AssemblerTypes, DisassemblerTypes, ReaderTypes
<1> QED BY <1>1, <1>2

(* Whatever is typed, the line stays in its buffer, addresses and bytes in    *)
(* their range, also when a program that was run crashes and is reset.        *)
THEOREM TypeCorrect == Spec => []TypeOK
<1>1. TypeInv => TypeOK
  BY DEF TypeInv
<1> QED BY <1>1, TypesInit, TypesStep, PTL DEF Spec

(* Whatever is typed, Q finds the shell's return address.                     *)
THEOREM StackCorrect == Spec => []StackBalanced
BY TypesInit, TypesStep, PTL DEF Spec

----------------------------------------------------------------------------
(* Write mode.  Only a second digit moves anything that WritesInOrder speaks  *)
(* of: its byte goes behind the last one.  What is typed does not come around *)
(* the end of memory, because nothing below free memory is followed.          *)
NoWrap == where = "write" => base + Len(typed) <= 65536
ByteLies ==
  /\ stack'[Len(stack')] \in Nat
  /\ Word(START' + stack'[Len(stack')]) = Word(base + Len(typed) + 1)
  /\ base + Len(typed) + 1 <= 65536
  /\ \A k \in 1..Len(typed') :
       (base + k - 1 \in Cells /\ mem'[base + k - 1] = typed'[k]) \/ IsRom(base + k - 1)

LEMMA ByteBehind ==
  ASSUME TypeInv, StackBalanced, WritesInOrder, NoWrap, where = "write", NEW b \in 0..255,
         Followed(START + Offset, 1), WriteByte(b), typed' = Append(typed, b), base' = base
  PROVE  ByteLies
<1> DEFINE n == Len(typed)
<1>1. /\ START \in Word16 /\ START \in Int /\ base \in Word16 /\ base \in Int /\ base \in Nat
      /\ stack \in Seq(Nat) /\ Len(stack) = 1 /\ typed \in Seq(0..255) /\ n \in Nat
      /\ mem \in [Cells -> 0..255]
  BY Word16Int DEF TypeInv, TypeOK, MoreTypes, StackBalanced
<1>2. Offset \in Nat
  BY <1>1, TopNumber DEF Offset
<1>3. Word(START + Offset) = Word(base + n)
  BY DEF WritesInOrder
<1>4. /\ Len(typed') = n + 1 /\ typed'[n + 1] = b
      /\ \A k \in 1..n : typed'[k] = typed[k]
  BY <1>1
<1>5. mem' = [a \in Cells |-> IF a = Word(START + Offset) THEN b ELSE mem[a]]
  BY DEF WriteByte
<1>8. Word(START + Offset) = base + n /\ base + n < 65536
      /\ (base + n \in Cells \/ IsRom(base + n))
  <2>1. START + Offset + 0 = START + Offset /\ 0 \in 0..1 - 1
    BY <1>1, <1>2
  <2>2. Word(START + Offset) \in Cells \/ IsRom(Word(START + Offset))
    BY <2>1 DEF Followed
  <2>3. base + n # 65536
    <3>1. SUFFICES ASSUME base + n = 65536 PROVE FALSE
      OBVIOUS
    <3>2. Word(START + Offset) = 0
      BY <1>3, <3>1 DEF Word
    <3> QED BY <2>2, <3>2, BelowFree DEF FREE
  <2>4. base + n <= 65536 /\ base + n \in Nat
    BY <1>1 DEF NoWrap
  <2>5. base + n \in Word16 /\ base + n < 65536
    BY <2>3, <2>4 DEF Word16
  <2> QED BY <1>3, <2>2, <2>5, WordSmall
<1>6. stack'[Len(stack')] \in Nat /\ Word(START' + stack'[Len(stack')]) = Word(base + n + 1)
  <2>1. Word(START + Offset + 1) = Word(base + n + 1)
    <3>1. START + Offset \in Int /\ base + n \in Int
      BY <1>1, <1>2
    <3> DEFINE x == START + Offset
               y == base + n
    <3> HIDE DEF x, y
    <3>2. Word(x + 1) = Word(y + 1)
      BY <1>3, <3>1, WordMoves DEF x, y
    <3> QED BY <3>2 DEF x, y
  <2>2. CASE Offset + 1 < ROW /\ stack' = Append(Pulled, Offset + 1) /\ START' = START
    <3>1. Offset + 1 \in Nat
      BY <1>2
    <3>2. stack' = <<Offset + 1>>
      BY <1>1, <2>2, <3>1, StackMoves DEF Pulled
    <3>3. stack'[Len(stack')] = Offset + 1
      BY <3>1, <3>2, OneNumber
    <3>4. START + (Offset + 1) = START + Offset + 1
      BY <1>1, <1>2
    <3> QED BY <2>1, <2>2, <3>1, <3>3, <3>4
  <2>3. CASE Offset + 1 = ROW /\ stack' = Append(Pulled, 0) /\ START' = Word(START + ROW)
    <3>1. stack' = <<0>>
      BY <1>1, <2>3, StackMoves DEF Pulled
    <3>2. stack'[Len(stack')] = 0
      BY <3>1, OneNumber
    <3>3. Word(Word(START + ROW) + 0) = Word(START + ROW + 0)
      BY <1>1, WordAdd DEF ROW
    <3>4. START + ROW + 0 = START + Offset + 1
      BY <1>1, <1>2, <2>3
    <3> QED BY <2>1, <2>3, <3>2, <3>3, <3>4
  <2> QED BY <2>2, <2>3 DEF WriteByte
<1>7. ASSUME NEW k \in 1..n + 1
      PROVE  (base + k - 1 \in Cells /\ mem'[base + k - 1] = typed'[k]) \/ IsRom(base + k - 1)
  <2>1. CASE k = n + 1
    <3>1. base + k - 1 = base + n
      BY <1>1, <2>1
    <3> QED BY <1>4, <1>5, <1>8, <2>1, <3>1
  <2>2. CASE k # n + 1
    <3>1. k \in 1..n /\ base + k - 1 # base + n
      BY <1>1, <1>7, <2>2
    <3>2. (base + k - 1 \in Cells /\ mem[base + k - 1] = typed[k]) \/ IsRom(base + k - 1)
      BY <3>1 DEF WritesInOrder
    <3> QED BY <1>4, <1>5, <1>8, <3>1, <3>2
  <2> QED BY <2>1, <2>2
<1>9. base + n + 1 <= 65536
  BY <1>1, <1>8
<1> QED BY <1>4, <1>6, <1>7, <1>9 DEF ByteLies

LEMMA WriteStep ==
  ASSUME TypeInv, StackBalanced, WritesInOrder, NoWrap, [Next]_vars
  PROVE  WritesInOrder' /\ NoWrap'
<1>1. CASE Write
  <2>1. /\ typed' = <<>> /\ stack' = <<0>> /\ START' = base'
    BY <1>1 DEF Write, Exec, StackBalanced
  <2>2. Len(typed') = 0 /\ stack'[Len(stack')] = 0 /\ base' \in Int
    <3>1. Address(1) \in Word16 /\ base' = Address(1)
      BY <1>1, AddressRange DEF Write
    <3> QED BY <2>1, <3>1, OneNumber, Word16Int
  <2>3. base' <= 65536
    <3>1. base' \in Word16
      BY <1>1, AddressRange DEF Write
    <3> QED BY <3>1 DEF Word16
  <2>4. NoWrap'
    <3> DEFINE first == base'
               n == Len(typed')
    <3>1. n = 0 /\ first \in Int /\ first <= 65536
      BY <2>2, <2>3
    <3> HIDE DEF first, n
    <3>2. first + n <= 65536
      BY <3>1
    <3> QED BY <3>2 DEF NoWrap, first, n
  <2> QED BY <2>1, <2>2, <2>4 DEF WritesInOrder, Offset
<1>2. CASE WriteSecond
  <2>1. PICK c : /\ IsHex(pair) /\ IsHex(chartoupper(c)) /\ Followed(START + Offset, 1)
                 /\ WriteByte(char2num(pair, chartoupper(c)))
                 /\ typed' = Append(typed, char2num(pair, chartoupper(c)))
    BY <1>2 DEF WriteSecond
  <2> DEFINE b == char2num(pair, chartoupper(c))
  <2>2. b \in 0..255 /\ WriteByte(b) /\ typed' = Append(typed, b)
    BY <2>1, ByteRange
  <2>3. where = "write" /\ base' = base
    BY <1>2 DEF WriteSecond
  <2> HIDE DEF b
  <2>4. ByteLies
    BY <2>1, <2>2, <2>3, ByteBehind
  <2>5. Len(typed') = Len(typed) + 1 /\ base + Len(typed) + 1 = base + (Len(typed) + 1)
    BY <2>2, Word16Int DEF TypeInv, MoreTypes
  <2>6. NoWrap'
    BY <2>3, <2>4, <2>5 DEF NoWrap, ByteLies
  <2> QED BY <2>3, <2>4, <2>5, <2>6 DEF WritesInOrder, Offset, ByteLies
<1>3. CASE ~Write /\ ~WriteSecond
  <2>1. \/ where' # "write"
        \/ where = "write" /\ UNCHANGED <<START, mem, stack, base, typed>>
    BY <1>3 DEF Next, vars, TypeScript, Start, Editing, TypeChar, Backspace, Commands, NoCommand,
         Quit, Run, Asm, Disassemble, Read, Exec, Writing, WriteFirst, WriteAstray, WriteEnds,
         Assembling, AsmLeave, AsmAstray, AsmEnter, Showing, DisLine, DisAsk, DumpRow, DumpAsk, BackToLoop,
         ProgramReturns, Reset
  <2> QED BY <2>1 DEF WritesInOrder, Offset, NoWrap
<1> QED BY <1>1, <1>2, <1>3

MonInv == TypeInv /\ StackBalanced /\ WritesInOrder /\ NoWrap

(* What is typed in write mode lies in memory in order, however long it is    *)
(* and wherever it began, over the end of a row, but for what went to ROM; for*)
(* any part of free memory, as long as nothing is written outside of it that  *)
(* is not ROM.                                                                *)
THEOREM WritesCorrect == Spec => []WritesInOrder
<1>1. Init => MonInv
  BY TypesInit DEF MonInv, Init, WritesInOrder, NoWrap
<1>2. MonInv /\ [Next]_vars => MonInv'
  BY TypesStep, WriteStep DEF MonInv
<1>3. MonInv => WritesInOrder
  BY DEF MonInv
<1> QED BY <1>1, <1>2, <1>3, PTL DEF Spec

----------------------------------------------------------------------------
(* The assembler.  Each listed instruction ends before the place where the    *)
(* next one goes; behind the end of memory nothing more is assembled.         *)
EndsBefore(e, a) == e.at + LengthOf(e) <= a
AllBefore == where = "asm" => START < FREE \/ \A k \in 1..Len(listed) : EndsBefore(listed[k], START)
ListInv == ListingIsMemory /\ AllBefore

(* A line leaves what lies before it as it is.                                *)
LEMMA MemoryBehind ==
  ASSUME TypeInv, NEW bytes \in Seq(0..255), Len(bytes) <= 3, AsmLine(bytes),
         NEW at \in Nat, NEW i \in Nat, at + i < START
  PROVE  Mem(mem', Word(at + i)) = Mem(mem, Word(at + i))
<1> DEFINE x == at + i
<1>1. START \in Nat /\ START < 65536 /\ x \in Nat /\ x < START
  BY Word16Int DEF TypeInv, TypeOK
<1>2. x \in Word16
  BY <1>1 DEF Word16
<1>3. Word(x) = x
  BY <1>2, WordSmall
<1> HIDE DEF x
<1>4. ASSUME x \in Cells PROVE mem'[x] = mem[x]
  <2>1. FREE <= x
    BY <1>4, CellsFree
  <2>2. Word(x - START) = x - START + 65536
    BY <1>1 DEF Word
  <2>3. ~(Word(x - START) < Len(bytes))
    BY <1>1, <2>1, <2>2 DEF FREE
  <2> QED BY <1>4, <2>3 DEF AsmLine
<1> QED BY <1>3, <1>4 DEF Mem, x

(* A line that is followed is assembled into free memory or ROM.              *)
LEMMA FollowedIsHigh ==
  ASSUME NEW a \in Word16, NEW n \in Nat, n > 0, Followed(a, n) PROVE FREE <= a
<1>1. a \in Nat /\ a + 0 = a /\ 0 \in 0..n - 1 /\ FREE \in Nat
  BY DEF Word16, FREE
<1>2. a \in Cells \/ IsRom(a)
  BY <1>1, WordSmall DEF Followed
<1> QED BY <1>1, <1>2, BelowFree

LEMMA LineListed ==
  ASSUME TypeInv, ListInv, where = "asm", where' = "asm",
         NEW bytes \in Seq(0..255), Len(bytes) <= 3, bytes # <<>>,
         Followed(START, Len(bytes)), AsmLine(bytes)
  PROVE  ListInv'
<1> DEFINE n == Len(listed)
           e == Listing(mem', START)
           len == LengthOf(e)
<1>1. /\ mem' \in [Cells -> 0..255] /\ listed' = Append(listed, e)
      /\ START' = Word(START + len) /\ len \in 1..3
  BY LineStored
<1>2. START \in Word16 /\ START \in Int /\ n \in Nat /\ listed \in Seq(Entry)
  BY Word16Int DEF TypeInv, TypeOK, MoreTypes
<1>3. /\ e.at = START /\ e.o = Mem(mem', START)
      /\ e.b2 = Mem(mem', Word(START + 1)) /\ e.b3 = Mem(mem', Word(START + 2))
  BY DEF Listing
<1> HIDE DEF e, len
<1>4. /\ Len(listed') = n + 1 /\ listed'[n + 1] = e
      /\ \A k \in 1..n : listed'[k] = listed[k]
  BY <1>1, <1>2
<1>5. \A k \in 1..n : listed[k].at \in Word16 /\ listed[k].at \in Nat
  <2>1. ASSUME NEW k \in 1..n PROVE listed[k].at \in Word16
    <3>1. listed[k] \in Entry
      BY <1>2, ElementOfSeq
    <3> QED BY <3>1 DEF Entry
  <2> QED BY <2>1, Word16Int
<1>6. FREE <= START /\ \A k \in 1..n : EndsBefore(listed[k], START)
  <2>1. Len(bytes) \in Nat /\ Len(bytes) > 0
    OBVIOUS
  <2>2. FREE <= START
    BY <1>2, <2>1, FollowedIsHigh
  <2>3. ~(START < FREE)
    BY <1>2, <2>2 DEF FREE
  <2> QED BY <2>2, <2>3 DEF ListInv, AllBefore
<1>7. ASSUME NEW k \in 1..n PROVE InMemory(listed[k])'
  <2> DEFINE f == listed[k]
  <2>1. f.at \in Word16 /\ f.at \in Nat /\ LengthOf(f) \in 1..3 /\ f.at + LengthOf(f) <= START
    BY <1>5, <1>6, LengthRange DEF LengthOf, EndsBefore
  <2>2. InMemory(f)
    BY DEF ListInv, ListingIsMemory
  <2>11. listed'[k] = f
    BY <1>4 DEF f
  <2> HIDE DEF f
  <2>3. ASSUME NEW i \in Nat, i < LengthOf(f)
        PROVE  Mem(mem', Word(f.at + i)) = Mem(mem, Word(f.at + i))
    <3>1. f.at + i < START
      BY <1>2, <2>1, <2>3
    <3> QED BY <2>1, <3>1, MemoryBehind
  <2>4. Mem(mem', f.at) = Mem(mem, f.at)
    <3>1. Word(f.at + 0) = f.at
      BY <2>1, WordSmall
    <3> QED BY <2>1, <2>3, <3>1
  <2>8. LengthOf(f) > 1 => Mem(mem', Word(f.at + 1)) = Mem(mem, Word(f.at + 1))
    BY <2>1, <2>3
  <2>9. LengthOf(f) > 2 => Mem(mem', Word(f.at + 2)) = Mem(mem, Word(f.at + 2))
    BY <2>1, <2>3
  <2>10. /\ Mem(mem', f.at) = f.o
         /\ LengthOf(f) > 1 => Mem(mem', Word(f.at + 1)) = f.b2
         /\ LengthOf(f) > 2 => Mem(mem', Word(f.at + 2)) = f.b3
    BY <2>2, <2>4, <2>8, <2>9 DEF InMemory
  <2> QED BY <2>10, <2>11 DEF InMemory, f
<1>9. AllBefore'
  <2>1. START \in Nat /\ START < 65536
    BY <1>2 DEF Word16
  <2>2. CASE START + len < 65536
    <3>1. START + len \in Word16
      BY <1>1, <2>1, <2>2 DEF Word16
    <3>2. START' = START + len
      BY <1>1, <3>1, WordSmall
    <3>3. ASSUME NEW k \in 1..n + 1 PROVE EndsBefore(listed'[k], START')
      <4>1. CASE k \in 1..n
        <5>1. listed[k].at + LengthOf(listed[k]) <= START /\ listed[k].at \in Nat
              /\ LengthOf(listed[k]) \in 1..3
          BY <1>5, <1>6, <4>1, LengthRange DEF EndsBefore, LengthOf
        <5> QED BY <1>1, <1>4, <2>1, <3>2, <4>1, <5>1 DEF EndsBefore
      <4>2. CASE k = n + 1
        BY <1>1, <1>3, <1>4, <2>1, <3>2, <4>2 DEF EndsBefore, len
      <4> QED BY <1>2, <4>1, <4>2
    <3> QED BY <1>4, <3>3 DEF AllBefore
  <2>3. CASE START + len >= 65536
    <3>1. START' < FREE
      BY <1>1, <2>1, <2>3 DEF Word, FREE
    <3> QED BY <3>1 DEF AllBefore, FREE
  <2> QED BY <1>1, <2>1, <2>2, <2>3
<1>10. /\ Mem(mem', e.at) = e.o
       /\ LengthOf(e) > 1 => Mem(mem', Word(e.at + 1)) = e.b2
       /\ LengthOf(e) > 2 => Mem(mem', Word(e.at + 2)) = e.b3
  BY <1>3
<1>11. ASSUME NEW k \in 1..n + 1 PROVE InMemory(listed[k])'
  <2>1. CASE k \in 1..n
    BY <1>7, <2>1
  <2>2. CASE k = n + 1
    BY <1>4, <1>10, <2>2 DEF InMemory
  <2> QED BY <1>2, <2>1, <2>2
<1>12. ASSUME NEW k \in 2..n + 1 PROVE listed'[k].at = After(listed'[k - 1])
  <2>1. k - 1 \in 1..n /\ listed'[k - 1] = listed[k - 1]
    BY <1>2, <1>4
  <2>2. CASE k \in 2..n
    <3>1. listed[k].at = After(listed[k - 1])
      BY <2>2 DEF ListInv, ListingIsMemory
    <3>2. listed'[k] = listed[k]
      BY <1>4, <2>2
    <3> QED BY <2>1, <3>1, <3>2
  <2>3. CASE k = n + 1
    <3>1. listed # <<>> /\ k - 1 = n
      BY <1>2, <2>1, <2>3
    <3>2. START = After(listed[n])
      BY <3>1 DEF ListInv, ListingIsMemory
    <3> QED BY <1>3, <1>4, <2>1, <2>3, <3>1, <3>2
  <2> QED BY <1>2, <2>2, <2>3
<1>13. START' = After(listed'[Len(listed')])
  BY <1>1, <1>3, <1>4 DEF After, len
<1>14. ListingIsMemory'
  BY <1>4, <1>11, <1>12, <1>13 DEF ListingIsMemory, After, LengthOf
<1> QED BY <1>9, <1>14 DEF ListInv

LEMMA ListStep ==
  ASSUME TypeInv, ListInv, [Next]_vars PROVE ListInv'
<1>1. CASE Asm
  <2>1. listed' = <<>>
    BY <1>1 DEF Asm
  <2> QED BY <2>1 DEF ListInv, ListingIsMemory, AllBefore
<1>2. CASE AsmEnter
  <2> DEFINE bytes == Assemble(CMDBUF, CMDLENGTH)
  <2>1. /\ where = "asm" /\ where' = "asm"
        /\ \/ bytes # <<>> /\ Followed(START, Len(bytes)) /\ AsmLine(bytes)
           \/ UNCHANGED <<mem, listed, START>>
    BY <1>2 DEF AsmEnter
  <2>2. bytes \in Seq(0..255) /\ Len(bytes) <= 3
    BY <1>2, AssembledBytes DEF AsmEnter
  <2> HIDE DEF bytes
  <2>3. CASE bytes # <<>> /\ Followed(START, Len(bytes)) /\ AsmLine(bytes)
    BY <2>1, <2>2, <2>3, LineListed
  <2>4. CASE UNCHANGED <<mem, listed, START>>
    BY <2>1, <2>4 DEF ListInv, ListingIsMemory, AllBefore, InMemory, After, LengthOf, Mem
  <2> QED BY <2>1, <2>3, <2>4
<1>3. CASE ~Asm /\ ~AsmEnter
  <2>1. \/ where' # "asm"
        \/ where = "asm" /\ UNCHANGED <<START, mem, listed>>
    BY <1>3 DEF Next, vars, TypeScript, Start, Editing, TypeChar, Backspace, Commands, NoCommand,
         Quit, Run, Write, Disassemble, Read, Exec, Writing, WriteFirst, WriteSecond, WriteAstray, WriteEnds,
         Assembling, AsmLeave, AsmAstray, Showing, DisLine, DisAsk, DumpRow, DumpAsk, BackToLoop,
         ProgramReturns, Reset
  <2>2. CASE where' # "asm"
    BY <2>2 DEF ListInv, ListingIsMemory, AllBefore
  <2>3. CASE where = "asm" /\ UNCHANGED <<START, mem, listed>>
    <3>1. ListingIsMemory'
      BY <2>3 DEF ListInv, ListingIsMemory, InMemory, After
    <3>2. AllBefore'
      BY <2>3 DEF ListInv, AllBefore
    <3> QED BY <3>1, <3>2 DEF ListInv
  <2> QED BY <2>1, <2>2, <2>3
<1> QED BY <1>1, <1>2, <1>3

AsmInv == TypeInv /\ StackBalanced /\ ListInv

(* What the assembler has listed is what memory holds, line behind line, also *)
(* when a line stored more than its instruction has and the next one went     *)
(* over it, or nothing because ROM is there.                                  *)
THEOREM ListingCorrect == Spec => []ListingIsMemory
<1>1. Init => AsmInv
  BY TypesInit DEF AsmInv, Init, ListInv, ListingIsMemory, AllBefore
<1>2. AsmInv /\ [Next]_vars => AsmInv'
  BY TypesStep, ListStep DEF AsmInv
<1>3. AsmInv => ListingIsMemory
  BY DEF AsmInv, ListInv
<1> QED BY <1>1, <1>2, <1>3, PTL DEF Spec

----------------------------------------------------------------------------
(* The dump.  The rows shown and the rows to come are those of the range.     *)
Aligned(r) == r.from % 256 = 0 /\ r.from <= r.to
RowsOf(r) == (r.to - r.from) \div 16
DumpInv ==
  where = "dump" /\ Aligned(range) =>
    lines <= RowsOf(range) /\ row = Word(range.from + 16 * (RowsOf(range) - lines))

LEMMA RowsRange ==
  ASSUME NEW r \in [from : Word16, to : Word16], Aligned(r)
  PROVE  /\ r.from \in Nat /\ r.to \in Nat /\ r.to < 65536 /\ RowsOf(r) \in Nat /\ RowsOf(r) < 4096
         /\ 16 * RowsOf(r) <= r.to - r.from /\ r.to - r.from < 16 * RowsOf(r) + 16
<1> DEFINE w == r.to - r.from
<1>1. r.from \in Nat /\ r.to \in Nat /\ r.to < 65536 /\ r.from <= r.to
  BY DEF Word16, Aligned
<1>2. w \in Nat /\ w < 65536
  BY <1>1
<1> HIDE DEF w
<1>3. w \div 16 \in Nat /\ w \div 16 < 4096 /\ 16 * (w \div 16) <= w /\ w < 16 * (w \div 16) + 16
  BY <1>2
<1> QED BY <1>1, <1>3 DEF w, RowsOf

(* A screen that begins at a page ends with it.                               *)
LEMMA ScreenOf ==
  ASSUME NEW a \in Word16, NEW b, b = Word(a + SCREEN * ROW - 1), a % 256 = 0
  PROVE  b = a + 255 /\ (b - a) \div 16 = SCREEN - 1
<1>1. a \in Nat /\ a < 65536
  BY DEF Word16
<1>2. a <= 65280
  BY <1>1
<1>3. a + SCREEN * ROW - 1 = a + 255 /\ a + 255 \in Word16
  BY <1>1, <1>2 DEF SCREEN, ROW, Word16
<1>4. b = a + 255
  BY <1>3, WordSmall
<1>5. b - a = 255
  BY <1>1, <1>4
<1> QED BY <1>4, <1>5 DEF SCREEN

LEMMA DumpStep == ASSUME TypeInv, DumpInv, [Next]_vars PROVE DumpInv'
<1>0. row \in Word16 /\ range \in [from : Word16, to : Word16] /\ lines \in Nat
  BY DEF TypeInv, TypeOK, MoreTypes
<1>1. CASE Read
  <2> DEFINE a == Address(1)
             b == Address(6)
  <2>1. SUFFICES ASSUME where' = "dump", Aligned(range')
                 PROVE  /\ lines' <= RowsOf(range')
                        /\ row' = Word(range'.from + 16 * (RowsOf(range') - lines'))
    BY DEF DumpInv
  <2>2. /\ a \in Word16
        /\ CMDBUF[5] = ":" => Hex4(6)
        /\ row' = 256 * (a \div 256)
        /\ lines' = IF Ranged THEN RowsBetween(a, b) ELSE SCREEN - 1
        /\ range' = [from |-> a, to |-> IF Ranged THEN b ELSE Word(row' + SCREEN * ROW - 1)]
    BY <1>1, <2>1, AddressRange DEF Read, BackToLoop
  <2>3. Ranged => b \in Word16
    BY <2>2, AddressRange DEF Ranged
  <2>4. a % 256 = 0 /\ a <= range'.to
    BY <2>1, <2>2 DEF Aligned
  <2> HIDE DEF a, b
  <2>5. a \in Nat /\ a < 65536 /\ row' = a
    BY <2>2, <2>4 DEF Word16
  <2>6. lines' = RowsOf(range')
    <3>1. CASE Ranged
      <4>1. b \in Nat /\ b < 65536 /\ a <= b
        BY <2>2, <2>3, <2>4, <3>1 DEF Word16
      <4>2. b - a \in Word16
        BY <2>5, <4>1 DEF Word16
      <4>3. Word(b - a) = b - a
        BY <4>2, WordSmall
      <4> QED BY <2>2, <3>1, <4>3 DEF RowsBetween, RowsOf, ROW
    <3>2. CASE ~Ranged
      <4>1. range'.to = Word(a + SCREEN * ROW - 1) /\ range'.from = a /\ lines' = SCREEN - 1
        BY <2>2, <2>5, <3>2
      <4>2. (range'.to - a) \div 16 = SCREEN - 1
        BY <2>2, <2>4, <4>1, ScreenOf
      <4> QED BY <4>1, <4>2 DEF RowsOf
    <3> QED BY <3>1, <3>2
  <2>7. lines' \in Int
    <3>1. CASE Ranged
      <4>1. b \in Int
        BY <2>3, <3>1, Word16Int
      <4>2. b - a \in Int
        BY <2>5, <4>1
      <4>3. Word(b - a) \in Int
        BY <4>2, WordBounds
      <4> QED BY <2>2, <3>1, <4>3 DEF RowsBetween, ROW
    <3>2. CASE ~Ranged
      BY <2>2, <3>2 DEF SCREEN
    <3> QED BY <3>1, <3>2
  <2>8. range'.from + 16 * (RowsOf(range') - lines') = a
    BY <2>2, <2>5, <2>6, <2>7
  <2>9. row' = Word(range'.from + 16 * (RowsOf(range') - lines'))
    BY <2>2, <2>5, <2>8, WordSmall
  <2> QED BY <2>6, <2>7, <2>9
<1>2. CASE DumpRow
  <2>1. SUFFICES ASSUME where' = "dump", Aligned(range)
                 PROVE  /\ lines' <= RowsOf(range)
                        /\ row' = Word(range.from + 16 * (RowsOf(range) - lines'))
    BY <1>2 DEF DumpInv, DumpRow
  <2> DEFINE g == RowsOf(range)
             f == range.from
  <2>2. /\ where = "dump" /\ lines > 0 /\ lines' = lines - 1 /\ row' = Word(row + 16)
    BY <1>2, <2>1 DEF DumpRow, ROW, BackToLoop
  <2>3. lines <= g /\ row = Word(f + 16 * (g - lines))
    BY <2>1, <2>2 DEF DumpInv
  <2>4. g \in Nat /\ f \in Nat
    BY <1>0, <2>1, RowsRange
  <2> HIDE DEF g, f
  <2> DEFINE x == f + 16 * (g - lines)
  <2>5. x \in Int /\ x + 16 = f + 16 * (g - lines') /\ lines' <= g
    BY <1>0, <2>2, <2>3, <2>4
  <2>6. row = Word(x)
    BY <2>3
  <2> HIDE DEF x
  <2>7. Word(Word(x) + 16) = Word(x + 16)
    BY <2>5, WordAdd
  <2> QED BY <2>2, <2>5, <2>6, <2>7 DEF g, f
<1>3. CASE DumpAsk
  <2>1. SUFFICES ASSUME where' = "dump", Aligned(range')
                 PROVE  /\ lines' <= RowsOf(range')
                        /\ row' = Word(range'.from + 16 * (RowsOf(range') - lines'))
    BY DEF DumpInv
  <2>2. /\ lines' = SCREEN - 1 /\ row' = row
        /\ range' = [from |-> row, to |-> Word(row + SCREEN * ROW - 1)]
    BY <1>3, <2>1 DEF DumpAsk, BackToLoop
  <2>3. row % 256 = 0 /\ row \in Nat
    BY <1>0, <2>1, <2>2 DEF Aligned, Word16
  <2>4. (Word(row + SCREEN * ROW - 1) - row) \div 16 = SCREEN - 1
    BY <1>0, <2>3, ScreenOf
  <2>5. RowsOf(range') = lines' /\ lines' \in Int
    BY <2>2, <2>4 DEF RowsOf, SCREEN
  <2>6. range'.from + 16 * (RowsOf(range') - lines') = row
    <3>1. range'.from = row /\ RowsOf(range') - lines' = 0
      BY <2>2, <2>5
    <3> QED BY <2>3, <3>1
  <2> QED BY <1>0, <2>2, <2>5, <2>6, WordSmall
<1>4. CASE ~Read /\ ~DumpRow /\ ~DumpAsk
  <2>1. \/ where' # "dump"
        \/ where = "dump" /\ UNCHANGED <<row, lines, range>>
    BY <1>4 DEF Next, vars, TypeScript, Start, Editing, TypeChar, Backspace, Commands, NoCommand,
         Quit, Run, Write, Asm, Disassemble, Exec, Writing, WriteFirst, WriteSecond, WriteAstray, WriteEnds,
         Assembling, AsmLeave, AsmAstray, AsmEnter, Showing, DisLine, DisAsk, BackToLoop,
         ProgramReturns, Reset
  <2> QED BY <2>1 DEF DumpInv
<1> QED BY <1>1, <1>2, <1>3, <1>4

LEMMA LastRow ==
  ASSUME TypeInv, DumpInv, DumpRow, where' # "dump", Aligned(range)
  PROVE  /\ Word(row' - 1 - range.from) >= range.to - range.from
         /\ Word(row' - 1 - range.from) < range.to - range.from + ROW
<1> DEFINE g == RowsOf(range)
           f == range.from
           w == range.to - range.from
<1>1. /\ range \in [from : Word16, to : Word16] /\ where = "dump" /\ row' = Word(row + 16) /\ lines = 0
  BY DEF DumpRow, ROW, TypeInv, MoreTypes
<1>2. f \in Nat /\ w \in Nat /\ g \in Nat /\ g < 4096 /\ 16 * g <= w /\ w < 16 * g + 16
  <2>1. /\ range.from \in Nat /\ range.to \in Nat /\ g \in Nat /\ g < 4096
        /\ 16 * g <= w /\ w < 16 * g + 16 /\ range.from <= range.to
    BY <1>1, RowsRange DEF Aligned
  <2> QED BY <2>1
<1>3. row = Word(f + 16 * (g - 0))
  BY <1>1 DEF DumpInv
<1> HIDE DEF g, f, w
<1> DEFINE x == f + 16 * g
<1>4. x \in Int /\ row = Word(x)
  BY <1>2, <1>3
<1>5. x + 16 \in Int /\ (x + 16) - (1 + f) = 16 * g + 15 /\ 0 - (1 + f) \in Int
  BY <1>2
<1> HIDE DEF x
<1>6. row' = Word(x + 16)
  BY <1>1, <1>4, WordAdd
<1> DEFINE y == x + 16
           z == 0 - (1 + f)
<1>7. y \in Int /\ z \in Int /\ y + z = 16 * g + 15 /\ row' = Word(y)
  BY <1>2, <1>4, <1>5, <1>6
<1> HIDE DEF y
<1>8. Word(Word(y) + z) = Word(y + z)
  <2> HIDE DEF z
  <2> QED BY <1>7, WordAdd
<1>9. row' \in Int /\ row' - 1 - f = Word(y) + z
  BY <1>2, <1>7, WordBounds
<1>10. 16 * g + 15 \in Word16
  BY <1>2 DEF Word16
<1>11. Word(row' - 1 - f) = 16 * g + 15
  BY <1>7, <1>8, <1>9, <1>10, WordSmall
<1>12. 16 * g + 15 >= w /\ 16 * g + 15 < w + ROW
  BY <1>2 DEF ROW
<1> QED BY <1>11, <1>12 DEF f, w

ShowInv == TypeInv /\ StackBalanced /\ DumpInv

(* A dump shows all of the range it was asked for and less than a row more,   *)
(* and a screen ends where the next begins, for every range that begins at a  *)
(* page.                                                                      *)
THEOREM DumpCorrect == Spec => DumpShowsAll
<1>1. Init => ShowInv
  BY TypesInit DEF ShowInv, Init, DumpInv
<1>2. ShowInv /\ [Next]_vars => ShowInv'
  BY TypesStep, DumpStep DEF ShowInv
<1>3. ASSUME ShowInv, [Next]_vars
      PROVE  [DumpDone /\ range.from % 256 = 0 =>
       /\ Word(row' - 1 - range.from) >= range.to - range.from
       /\ Word(row' - 1 - range.from) < range.to - range.from + ROW]_vars
  <2>1. SUFFICES ASSUME where = "dump", where' # "dump", Aligned(range)
                 PROVE  /\ Word(row' - 1 - range.from) >= range.to - range.from
                        /\ Word(row' - 1 - range.from) < range.to - range.from + ROW
    BY DEF Aligned, DumpDone
  <2>2. DumpRow
    BY <1>3, <2>1 DEF Next, vars, TypeScript, Start, Editing, TypeChar, Backspace, Commands, NoCommand,
         Quit, Run, Write, Asm, Disassemble, Read, Exec, Writing, WriteFirst, WriteSecond, WriteAstray, WriteEnds,
         Assembling, AsmLeave, AsmAstray, AsmEnter, Showing, DisLine, DisAsk, DumpAsk, BackToLoop,
         ProgramReturns, Reset
  <2> QED BY <1>3, <2>1, <2>2, LastRow DEF ShowInv
<1> QED BY <1>1, <1>2, <1>3, PTL DEF Spec, DumpShowsAll
=============================================================================
