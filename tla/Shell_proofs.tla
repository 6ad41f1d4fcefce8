---------------------------- MODULE Shell_proofs ----------------------------
(* The invariants of Boot and Shell, for every content of the registers at    *)
(* power-up and whatever a program leaves in them, every size of the line     *)
(* buffer and the argument block, every card and every program.               *)
EXTENDS Shell, SequenceTheorems, TLAPS

USE DEF machine, rom, banks, bootvars, editor, loader

----------------------------------------------------------------------------
(* The three moves of the bank wrappers.                                      *)
FramesOK == rombank \in 0..255 /\ frames \in Seq(0..255)

LEMMA MaskedByte ==
  ASSUME NEW b \in 0..255 PROVE Masked(b) \in 0..255 /\ (b = 2 => Masked(b) = 2)
BY DEF Masked

LEMMA AppendFacts ==
  ASSUME NEW S, NEW s \in Seq(S), NEW e \in S
  PROVE  /\ Append(s, e) \in Seq(S) /\ Len(Append(s, e)) = Len(s) + 1
         /\ Append(s, e)[Len(s) + 1] = e
         /\ \A r \in 1..Len(s) : Append(s, e)[r] = s[r]
OBVIOUS

LEMMA FrontFacts ==
  ASSUME NEW S, NEW s \in Seq(S), s # <<>>
  PROVE  /\ Front(s) \in Seq(S) /\ Len(Front(s)) = Len(s) - 1 /\ Len(s) >= 1
         /\ \A r \in 1..Len(s) - 1 : Front(s)[r] = s[r]
<1>1. Len(s) \in Nat /\ Len(s) >= 1
  OBVIOUS
<1>2. Len(s) - 1 \in Nat /\ (1 <= Len(s) - 1 => Len(s) - 1 <= Len(s))
  BY <1>1
<1> QED
  BY <1>1, <1>2, SubSeqProperties DEF Front

LEMMA Elements ==
  ASSUME NEW S, NEW s \in Seq(S), s # <<>>
  PROVE  s[Len(s)] \in S /\ s[1] \in S
<1>1. Len(s) \in Nat /\ Len(s) >= 1
  OBVIOUS
<1> QED
  BY <1>1

LEMMA Entered ==
  ASSUME FramesOK, fs_bank_enter
  PROVE  /\ FramesOK' /\ rombank' = SD_ROM_BANK /\ Len(frames') = Len(frames) + 1
         /\ frames'[Len(frames) + 1] = rombank
<1>1. frames \in Seq(0..255) /\ rombank \in 0..255
  BY DEF FramesOK
<1>2. frames' = Append(frames, rombank) /\ rombank' = 2
  BY DEF fs_bank_enter, SD_ROM_BANK
<1>3. /\ frames' \in Seq(0..255) /\ Len(frames') = Len(frames) + 1
      /\ frames'[Len(frames) + 1] = rombank
  BY <1>1, <1>2
<1> QED
  BY <1>2, <1>3 DEF FramesOK, SD_ROM_BANK

LEMMA Left ==
  ASSUME FramesOK, fs_bank_exit
  PROVE  /\ FramesOK' /\ Len(frames) >= 1 /\ Len(frames') = Len(frames) - 1
         /\ frames[Len(frames)] = SD_ROM_BANK => rombank' = SD_ROM_BANK
<1>1. /\ frames \in Seq(0..255) /\ frames # <<>>
      /\ frames' = Front(frames) /\ rombank' = Masked(frames[Len(frames)])
  BY DEF FramesOK, fs_bank_exit
<1>2. frames[Len(frames)] \in 0..255
  BY <1>1, Elements
<1>3. frames' \in Seq(0..255) /\ Len(frames') = Len(frames) - 1 /\ Len(frames) >= 1
  BY <1>1, FrontFacts
<1> QED
  BY <1>1, <1>2, <1>3, MaskedByte DEF FramesOK, SD_ROM_BANK

LEMMA LeftAndEntered ==
  ASSUME FramesOK, fs_bank_exit_enter
  PROVE  FramesOK' /\ rombank' = SD_ROM_BANK /\ Len(frames') = 1
<1>1. /\ frames \in Seq(0..255) /\ frames # <<>>
      /\ frames' = <<Masked(frames[1])>> /\ rombank' = 2
  BY DEF FramesOK, fs_bank_exit_enter, SD_ROM_BANK
<1>2. frames[1] \in 0..255
  BY <1>1, Elements
<1>3. Masked(frames[1]) \in 0..255
  BY <1>2, MaskedByte
<1>4. frames' \in Seq(0..255) /\ Len(frames') = 1
  BY <1>1, <1>3
<1> QED
  BY <1>1, <1>4 DEF FramesOK, SD_ROM_BANK

----------------------------------------------------------------------------
(* The banks: known from the first use of the filesystem on, but for the way  *)
(* from a program's end to the next prompt; a wrapper inside a wrapper saves  *)
(* the bank that the outer one has selected; outside nothing is saved.        *)
Unknown == Starting \union {"done", "prompt", "halted", "lost"}
BankInv ==
  /\ rambank \in 0..255 /\ FramesOK
  /\ pc \notin Unknown => rambank = SDRAMBANK
  /\ pc \in FsStates =>
       /\ rombank = SD_ROM_BANK /\ Len(frames) \in {1, 2}
       /\ Len(frames) = 2 => frames[2] = SD_ROM_BANK /\ pc \in ReadsCard
  /\ pc \notin FsStates \union {"lost"} => frames = <<>>

(* A step to a state inside a call, a step to a state outside.                *)
LEMMA Within ==
  ASSUME BankInv, pc' \in FsStates, rambank' = SDRAMBANK, FramesOK', Len(frames') = 1,
         rombank' = SD_ROM_BANK
  PROVE  BankInv'
<1>1. rambank' \in 0..255 /\ pc' # "lost"
  BY DEF SDRAMBANK, FsStates, ReadsCard
<1> QED
  BY <1>1 DEF BankInv

LEMMA Outside ==
  ASSUME BankInv, pc' \notin FsStates, rambank' = SDRAMBANK \/ pc' \in Unknown,
         rambank' \in 0..255, FramesOK', Len(frames') = 0 \/ pc' = "lost"
  PROVE  BankInv'
<1>1. Len(frames') = 0 => frames' = <<>>
  BY DEF FramesOK
<1> QED
  BY <1>1 DEF BankInv

LEMMA InitBanks == Init => BankInv
<1> SUFFICES ASSUME Init PROVE BankInv
  OBVIOUS
<1>1. /\ pc = "crt0" /\ frames = <<>> /\ rambank \in 0..255 /\ rombank \in 0..255
  BY BootAssumption DEF Init, BootInit
<1> QED
  BY <1>1 DEF BankInv, FramesOK, Unknown, Starting, FsStates, ReadsCard

LEMMA NextBanks == BankInv /\ [Next]_vars => BankInv'
<1> SUFFICES ASSUME BankInv, [Next]_vars PROVE BankInv'
  OBVIOUS
<1> USE DEF Goto
<1>0. /\ FramesOK /\ rambank \in 0..255 /\ SDRAMBANK \in 0..255 /\ Len(<<>>) = 0
      /\ Len(frames) \in Nat
  BY DEF BankInv, FramesOK, SDRAMBANK
<1>1. CASE Booting
  <2>1. CASE Crt0 \/ ClearMem \/ CopyData \/ ClearZp \/ ClearRing \/ makecrctable \/ isr
    <3>1. /\ UNCHANGED rom /\ rambank' \in {rambank, FIRST_BANK, SDRAMBANK}
          /\ pc' \in Starting \union {"main"}
          /\ (pc' = "main" => rambank' = SDRAMBANK) /\ pc \in Starting
      BY <2>1 DEF Crt0, ClearMem, CopyData, ClearZp, ClearRing, makecrctable, isr, Starting
    <3>2. /\ pc' \notin FsStates /\ (pc' # "main" => pc' \in Unknown)
          /\ pc \notin FsStates /\ pc # "lost"
      BY <3>1 DEF FsStates, ReadsCard, Unknown, Starting
    <3>3. frames' = <<>> /\ FramesOK' /\ rambank' \in 0..255
      BY <1>0, <3>1, <3>2 DEF BankInv, FramesOK, FIRST_BANK
    <3> QED
      BY <1>0, <3>1, <3>2, <3>3, Outside
  <2>2. CASE Main
    <3>1. pc = "main" /\ pc' = "mount" /\ rambank' = rambank /\ fs_bank_enter
      BY <2>2 DEF Main
    <3>2. frames = <<>> /\ rambank = SDRAMBANK /\ pc' \in FsStates
      BY <3>1 DEF BankInv, FsStates, ReadsCard, Unknown, Starting
    <3> QED
      BY <1>0, <3>1, <3>2, Entered, Within
  <2>3. CASE Mounted
    <3>1. pc' \in {"prompt", "halted"} /\ rambank' = rambank /\ fs_bank_exit /\ Len(frames) = 1
      BY <2>3 DEF Mounted, InCall
    <3> QED
      BY <1>0, <3>1, Left, Outside DEF FsStates, ReadsCard, Unknown
  <2> QED
    BY <1>1, <2>1, <2>2, <2>3 DEF Booting
<1>2. CASE SectorCall(ReadsCard)
  <2>1. /\ pc \in ReadsCard /\ pc \in FsStates /\ pc' = pc /\ Len(frames) = 1 /\ fs_bank_enter
        /\ rambank' = SDRAMBANK \/ rambank' = rambank
    BY <1>2 DEF SectorCall, InCall, FsStates
  <2>2. rombank = SD_ROM_BANK /\ pc \notin Unknown /\ rambank' = SDRAMBANK
    BY <2>1 DEF BankInv, FsStates, ReadsCard, Unknown, Starting
  <2>3. /\ FramesOK' /\ rombank' = SD_ROM_BANK /\ Len(frames') = 2
        /\ frames'[2] = SD_ROM_BANK
    BY <1>0, <2>1, <2>2, Entered
  <2> QED
    BY <1>0, <2>1, <2>2, <2>3 DEF BankInv
<1>3. CASE SectorReturn
  <2>1. /\ Len(frames) = 2 /\ pc' = pc /\ rambank' = rambank /\ fs_bank_exit
    BY <1>3 DEF SectorReturn
  <2>2. Len(frames') = 1 /\ FramesOK' /\ (frames[2] = SD_ROM_BANK => rombank' = SD_ROM_BANK)
    BY <1>0, <2>1, Left
  <2>3. frames # <<>>
    BY <1>0, <2>1
  <2> QED
    BY <1>0, <2>1, <2>2, <2>3 DEF BankInv
<1>4. CASE Editing \/ Parsing \/ EmptyLine
  <2>1. /\ UNCHANGED banks /\ pc \in {"edit", "parse", "exec"}
        /\ pc' \in {"edit", "parse", "exec", "prompt"}
    BY <1>4 DEF Editing, Backspace, Enter, TypeChar, Parsing, NextWord, Parsed,
                TooManyWords, EmptyLine
  <2> QED
    BY <2>1 DEF BankInv, FramesOK, FsStates, ReadsCard, Unknown, Starting
<1>5. CASE Done
  <2>1. UNCHANGED banks /\ pc = "done" /\ pc' = "prompt"
    BY <1>5 DEF Done
  <2> QED
    BY <2>1 DEF BankInv, FramesOK, FsStates, ReadsCard, Unknown, Starting
<1>6. ASSUME NEW cmd \in Commands, BuiltIn(cmd) PROVE BankInv'
  <2>1. pc = "exec" /\ pc' = AfterCheck(cmd) /\ rambank' \in {rambank, SDRAMBANK}
        /\ (AfterCheck(cmd) = "done" => UNCHANGED rom)
        /\ (AfterCheck(cmd) # "done" => fs_bank_enter)
    BY <1>6 DEF BuiltIn
  <2>2. rambank' = SDRAMBANK /\ frames = <<>>
    BY <2>1 DEF BankInv, FsStates, ReadsCard, Unknown, Starting
  <2>3. CASE AfterCheck(cmd) = "done"
    BY <1>0, <2>1, <2>2, <2>3, Outside DEF FramesOK, FsStates, ReadsCard
  <2>4. CASE AfterCheck(cmd) # "done"
    <3>1. pc' \in FsStates
      BY <2>1, <2>4 DEF AfterCheck, FsStates, ReadsCard
    <3> QED
      BY <1>0, <2>1, <2>2, <2>4, <3>1, Entered, Within
  <2> QED
    BY <2>3, <2>4
<1>7. CASE TryCom \/ Prompt \/ HeaderValid
  <2>1. /\ pc \in {"exec", "prompt", "headed"} /\ pc' \in FsStates /\ fs_bank_enter
        /\ rambank' = SDRAMBANK
    BY <1>7 DEF TryCom, Prompt, HeaderValid, BankInv, FsStates, ReadsCard, Unknown, Starting
  <2>2. frames = <<>>
    BY <2>1 DEF BankInv, FsStates, ReadsCard
  <2> QED
    BY <1>0, <2>1, <2>2, Entered, Within
<1>8. ASSUME pc \in FsStates, InCall, fs_bank_exit, rambank' = rambank,
             pc' \in {"done", "edit", "check", "headed"}
      PROVE  BankInv'
  <2>1. Len(frames') = 0 /\ FramesOK' /\ rambank' = SDRAMBANK /\ pc' \notin FsStates
    BY <1>0, <1>8, Left DEF InCall, BankInv, FsStates, ReadsCard, Unknown, Starting
  <2> QED
    BY <1>0, <2>1, Outside
<1>9. ASSUME pc \in FsStates, UNCHANGED banks, pc' = "lost" PROVE BankInv'
  BY <1>0, <1>9, Outside DEF FramesOK, FsStates, ReadsCard, Unknown
<1>10. CASE FsReturns \/ Refused \/ More \/ Load
  <2>1. pc \in FsStates /\ InCall /\ rambank' = rambank
    BY <1>10 DEF FsReturns, Refused, More, Load, FsStates, ReadsCard
  <2>2. \/ fs_bank_exit /\ pc' \in {"done", "check"}
        \/ UNCHANGED rom /\ pc' = "lost"
    BY <1>10 DEF FsReturns, Refused, More, Load, LoadFile, Back
  <2> QED
    BY <1>8, <1>9, <2>1, <2>2
<1>11. CASE Prompted
  <2>1. pc = "getcwd" /\ pc' = "edit" /\ rambank' = rambank /\ fs_bank_exit
    BY <1>11 DEF Prompted
  <2>2. rambank' = SDRAMBANK /\ Len(frames) = 1
    BY <2>1 DEF BankInv, FsStates, ReadsCard, Unknown, Starting
  <2> QED
    BY <1>0, <2>1, <2>2, Left, Outside DEF FsStates, ReadsCard
<1>12. CASE Open \/ HeaderShort \/ ReadHeader
  <2>1. /\ pc \in FsStates /\ InCall /\ rambank' = rambank
        /\ \/ fs_bank_exit_enter /\ pc' = "header"
           \/ fs_bank_exit /\ pc' \in {"done", "headed"}
    BY <1>12 DEF Open, HeaderShort, ReadHeader, FsStates, ReadsCard
  <2>2. CASE fs_bank_exit_enter /\ pc' = "header"
    <3>1. rambank' = SDRAMBANK /\ pc' \in FsStates
      BY <2>1, <2>2 DEF BankInv, FsStates, ReadsCard, Unknown, Starting
    <3> QED
      BY <1>0, <2>2, <3>1, LeftAndEntered, Within
  <2> QED
    BY <1>8, <2>1, <2>2
<1>18. CASE HeaderInvalid
  <2>1. UNCHANGED banks /\ pc = "headed" /\ pc' = "done"
    BY <1>18 DEF HeaderInvalid
  <2> QED
    BY <2>1 DEF BankInv, FramesOK, FsStates, ReadsCard, Unknown, Starting
<1>13. CASE Check \/ StoreArg \/ AllStored
  <2>1. /\ UNCHANGED banks /\ pc \in {"check", "store"} /\ pc' \in {"store", "run", "done"}
    BY <1>13 DEF Check, StoreArg, AllStored
  <2> QED
    BY <2>1 DEF BankInv, FramesOK, FsStates, ReadsCard, Unknown, Starting
<1>14. CASE ProgramReturns
  <2>1. PICK b \in Banks, c \in RomBanks : rambank' = Masked(b) /\ rombank' = Masked(c)
    BY <1>14 DEF ProgramReturns
  <2>2. rambank' \in 0..255 /\ rombank' \in 0..255
    BY <2>1, ShellAssumption, MaskedByte
  <2>3. pc = "run" /\ pc' = "done" /\ frames' = frames
    BY <1>14 DEF ProgramReturns
  <2>4. frames = <<>>
    BY <2>3 DEF BankInv, FsStates, ReadsCard
  <2> QED
    BY <1>0, <2>2, <2>3, <2>4, Outside DEF FramesOK, FsStates, ReadsCard, Unknown
<1>15. CASE Reset
  <2>1. pc' = "crt0" /\ rambank' \in 0..255 /\ rombank' \in 0..255 /\ frames' = <<>>
    BY <1>15, BootAssumption DEF Reset, PowerUp
  <2> QED
    BY <1>0, <2>1, Outside DEF FramesOK, FsStates, ReadsCard, Unknown, Starting
<1>16. CASE UNCHANGED vars
  BY <1>16 DEF vars, BankInv, FramesOK
<1>17. CASE Prompting
  BY <1>7, <1>11, <1>17 DEF Prompting
<1> QED
  BY <1>1, <1>2, <1>3, <1>4, <1>5, <1>6, <1>7, <1>10, <1>12, <1>13, <1>14, <1>15, <1>16,
     <1>17, <1>18 DEF Next, Machine, Executing, Loading

(* The chips of the I/O page do not answer in the windows.                    *)
LEMMA AboveIO ==
  ASSUME NEW addr \in Nat, addr >= 32768
  PROVE  /\ ~Responds(addr, ACIA_MASK) /\ ~Responds(addr, VIA_MASK)
         /\ ~Responds(addr, ROMBANK_PATTERN) /\ ~Responds(addr, RAMBANK_PATTERN)
<1>1. addr % 64 \in Nat /\ addr % 64 < 64
  OBVIOUS
<1> QED
  BY <1>1 DEF Responds, ACIA_MASK, VIA_MASK, ROMBANK_PATTERN, RAMBANK_PATTERN

(* FsInItsBank: every filesystem call of the shell finds its lists in RAM     *)
(* bank 63 and its code in the ROM window, and so after every nested call of  *)
(* the card's routines.                                                       *)
THEOREM BankCorrect == Spec => []FsInItsBank
<1>1. BankInv => FsInItsBank
  <2> SUFFICES ASSUME BankInv, pc \in FsStates, NEW o \in {0, B2_SIZE - 1}
               PROVE  /\ rambank = SDRAMBANK
                      /\ read(ROM_WINDOW + o, rambank, rombank) = Cell("rom", B2_IMAGE + o)
    BY DEF FsInItsBank
  <2>1. rambank = SDRAMBANK /\ rombank = 2
    BY DEF BankInv, FsStates, ReadsCard, Unknown, Starting, SD_ROM_BANK
  <2>2. o \in Nat /\ o < 8192
    BY DEF B2_SIZE
  <2>3. InBank((40960 + o) - 40960, 2) = 16384 + o
    BY <2>2 DEF InBank, BANK_SIZE
  <2>4. /\ ~(40960 + o >= 49152) /\ ~(40960 + o < 32512)
        /\ ~InRamWindow(40960 + o) /\ InRomWindow(40960 + o)
    BY <2>2 DEF InRamWindow, InRomWindow, RAM_WINDOW, ROM_WINDOW, ROM_TOP
  <2>5. read(40960 + o, rambank, 2) = Cell("rom", InBank((40960 + o) - 40960, 2))
    <3>1. 40960 + o \in Nat /\ 40960 + o >= 32768
      BY <2>2
    <3> QED
      BY <2>4, <3>1, AboveIO DEF read, ROM_WINDOW, ROM_TOP, IO_PAGE
  <2> QED
    BY <2>1, <2>3, <2>5 DEF ROM_WINDOW, B2_IMAGE
<1> QED
  BY <1>1, InitBanks, NextBanks, PTL DEF Spec

----------------------------------------------------------------------------
(* The memory: what each step of the start leaves behind for the later ones.  *)
Bits == {"junk", "zero", "set", "fill", "key"}
MemInv ==
  /\ mem \in [Watched -> Bits] /\ irq \in BOOLEAN
  /\ pc # "crt0" => mem[SOFT_SP] = "set"
  /\ pc \notin {"crt0", "clear"} => mem[OS_BSS] = "zero"
  /\ pc \notin {"crt0", "clear", "copy"} => mem[OS_RAM] = "set"
  /\ pc \notin {"crt0", "clear", "copy", "init"} => mem[TBPR] # "junk" /\ mem[TBPL] # "junk"
  /\ pc \notin Starting => \A c \in TableCells : mem[c] = "set"
  /\ pc = "mount" => \A c \in UserCells : mem[c] = "fill"
  /\ pc \notin Starting => irq

(* The tables are the last half of the last bank.                             *)
LEMMA TableAddresses ==
  CellOf(CRCLO, SDRAMBANK) = 523776 /\ CellOf(CRC_END, SDRAMBANK) = 524287
<1>1. ASSUME NEW addr \in {40448, 40959} PROVE CellOf(addr, 63) = addr - 32768 + 516096
  <2>1. addr \in Nat /\ addr >= 32768 /\ addr < 40960
    OBVIOUS
  <2>2. ~(addr < 32512) /\ InRamWindow(addr) /\ ~InRomWindow(addr) /\ ~(addr >= 49152)
    BY <2>1 DEF InRamWindow, InRomWindow, RAM_WINDOW, ROM_WINDOW, ROM_TOP
  <2>3. write(addr, 63, 0) = [chip |-> "ram", cell |-> InBank(addr - 32768, 63)]
    BY <2>1, <2>2, AboveIO DEF write, Cell, IO_PAGE, RAM_WINDOW, ROM_TOP
  <2>4. CellOf(addr, 63) = InBank(addr - 32768, 63)
    BY <2>3 DEF CellOf
  <2> QED
    BY <2>1, <2>4 DEF InBank, BANK_SIZE
<1>2. CellOf(40448, 63) = 523776 /\ CellOf(40959, 63) = 524287
  BY <1>1
<1> QED
  BY <1>2 DEF CRCLO, CRC_END, SDRAMBANK

LEMMA WatchedCells ==
  /\ TableCells = {523776, 524287}
  /\ Watched = {0, 1, 32, 512, 767, 768, 1536, 2048, 32511, 523776, 524287}
<1>1. TableCells = {523776, 524287}
  BY TableAddresses DEF TableCells
<1> QED
  BY <1>1 DEF Watched, RingCells, UserCells, TBPR, TBPL, TB, USER_START, IO_PAGE, SOFT_SP,
       OS_RAM, OS_BSS

LEMMA Filled ==
  ASSUME mem \in [Watched -> Bits], NEW a \in Nat, NEW b \in Nat, NEW v \in Bits,
         Fill(a, b, v)
  PROVE  /\ mem' \in [Watched -> Bits]
         /\ \A c \in Watched : a <= c /\ c <= b => mem'[c] = v
         /\ \A c \in Watched : ~(a <= c /\ c <= b) => mem'[c] = mem[c]
BY DEF Fill

LEMMA InitMem == Init => MemInv
BY DEF Init, BootInit, MemInv, Bits, Starting

LEMMA PoweredUp ==
  ASSUME pc' = "crt0", irq' \in BOOLEAN, mem' \in [Watched -> Bits] PROVE MemInv'
<1>1. pc' \notin {"clear", "copy", "init", "ring", "tables", "mount"} /\ pc' \in Starting
  BY DEF Starting
<1> QED
  BY <1>1 DEF MemInv

LEMMA NextMem == MemInv /\ [Next]_vars => MemInv'
<1> SUFFICES ASSUME MemInv, [Next]_vars PROVE MemInv'
  OBVIOUS
<1> USE DEF Goto
<1>0. /\ mem \in [Watched -> Bits] /\ {"zero", "set", "fill"} \subseteq Bits
      /\ Watched = {0, 1, 32, 512, 767, 768, 1536, 2048, 32511, 523776, 524287}
      /\ TableCells = {523776, 524287} /\ UserCells = {2048, 32511}
  BY WatchedCells DEF MemInv, Bits, UserCells, USER_START, IO_PAGE
<1> USE DEF TBPR, TBPL, SOFT_SP, TB, OS_RAM, OS_BSS, USER_START, IO_PAGE
<1>1. CASE Crt0
  <2>1. pc = "crt0" /\ pc' = "clear" /\ irq' = irq /\ Fill(32, 33, "set")
    BY <1>1 DEF Crt0
  <2>2. mem' \in [Watched -> Bits] /\ mem'[32] = "set"
    BY <1>0, <2>1, Filled DEF MemInv, Starting
  <2> QED
    BY <2>1, <2>2 DEF MemInv, Starting
<1>2. CASE ClearMem
  <2>1. pc = "clear" /\ pc' = "copy" /\ irq' = irq /\ Fill(512, 2047, "zero")
    BY <1>2 DEF ClearMem
  <2>2. /\ mem' \in [Watched -> Bits] /\ mem'[32] = mem[32]
        /\ mem'[1536] = "zero"
    BY <1>0, <2>1, Filled DEF MemInv, Starting
  <2> QED
    BY <2>1, <2>2 DEF MemInv, Starting
<1>3. CASE CopyData
  <2>1. pc = "copy" /\ pc' = "init" /\ irq' = irq /\ Fill(768, 768, "set")
    BY <1>3 DEF CopyData
  <2>2. /\ mem' \in [Watched -> Bits] /\ mem'[32] = mem[32] /\ mem'[768] = "set"
        /\ mem'[1536] = mem[1536]
    BY <1>0, <2>1, Filled DEF MemInv, Starting
  <2> QED
    BY <2>1, <2>2 DEF MemInv, Starting
<1>4. CASE ClearZp
  <2>1. pc = "init" /\ pc' = "ring" /\ irq' = irq /\ Fill(0, 31, "zero")
    BY <1>4 DEF ClearZp
  <2>2. /\ mem' \in [Watched -> Bits] /\ mem'[0] = "zero" /\ mem'[1] = "zero"
        /\ mem'[32] = mem[32] /\ mem'[768] = mem[768] /\ mem'[1536] = mem[1536]
    BY <1>0, <2>1, Filled DEF MemInv, Starting
  <2> QED
    BY <2>1, <2>2 DEF MemInv, Starting
<1>14. CASE ClearRing
  <2>1. /\ pc = "ring" /\ pc' = "tables" /\ irq' = irq
        /\ mem' = [mem EXCEPT ![1] = "zero", ![0] = "zero"]
    BY <1>14 DEF ClearRing
  <2>2. /\ mem' \in [Watched -> Bits] /\ mem'[0] = "zero" /\ mem'[1] = "zero"
        /\ mem'[32] = mem[32] /\ mem'[768] = mem[768] /\ mem'[1536] = mem[1536]
    BY <1>0, <2>1
  <2> QED
    BY <2>1, <2>2 DEF MemInv, Starting
<1>15. CASE isr
  <2>1. PICK x \in 0..255, full \in BOOLEAN :
          mem' = [c \in Watched |->
                    CASE c = TB + x          -> "key"
                      [] c = TBPR            -> Moved(mem[c])
                      [] c = TBPL /\ full    -> Moved(mem[c])
                      [] OTHER               -> mem[c]]
    BY <1>15 DEF isr
  <2>2. /\ pc \in Starting /\ pc' = pc /\ irq' = irq /\ pc # "mount"
        /\ 512 + x # 32 /\ 512 + x # 768 /\ 512 + x # 1536 /\ 512 + x # 0 /\ 512 + x # 1
    BY <1>15 DEF isr, Starting
  <2>3. \A v \in Bits : Moved(v) \in Bits /\ (v # "junk" => Moved(v) # "junk")
    BY DEF Moved, Bits
  <2>4. ASSUME NEW c \in Watched PROVE mem'[c] \in Bits
    <3>1. mem[c] \in Bits /\ Moved(mem[c]) \in Bits /\ "key" \in Bits
      BY <1>0, <2>3 DEF Bits
    <3> QED
      BY <2>1, <3>1
  <2>5. mem' \in [Watched -> Bits]
    BY <2>1, <2>4
  <2>6. /\ mem'[32] = mem[32] /\ mem'[768] = mem[768] /\ mem'[1536] = mem[1536]
        /\ mem'[0] = Moved(mem[0]) /\ mem'[1] \in {mem[1], Moved(mem[1])}
        /\ mem[0] \in Bits /\ mem[1] \in Bits
    BY <1>0, <2>1, <2>2
  <2> QED
    BY <2>2, <2>3, <2>5, <2>6 DEF MemInv
<1>5. CASE makecrctable
  <2>1. pc = "tables" /\ pc' = "main" /\ irq' = TRUE /\ Fill(523776, 524287, "set")
    BY <1>5, TableAddresses DEF makecrctable
  <2>2. /\ mem' \in [Watched -> Bits] /\ mem'[523776] = "set" /\ mem'[524287] = "set"
        /\ \A c \in Watched : c < 523776 => mem'[c] = mem[c]
    BY <1>0, <2>1, Filled
  <2>3. /\ mem'[0] = mem[0] /\ mem'[1] = mem[1] /\ mem'[32] = mem[32] /\ mem'[768] = mem[768]
        /\ mem'[1536] = mem[1536]
    BY <1>0, <2>2
  <2> QED
    BY <1>0, <2>1, <2>2, <2>3 DEF MemInv, Starting
<1>6. CASE Main
  <2>1. pc = "main" /\ pc' = "mount" /\ irq' = irq /\ Fill(2048, 32511, "fill")
    BY <1>6 DEF Main
  <2>2. /\ mem' \in [Watched -> Bits] /\ mem'[2048] = "fill" /\ mem'[32511] = "fill"
        /\ mem'[0] = mem[0] /\ mem'[1] = mem[1] /\ mem'[32] = mem[32] /\ mem'[768] = mem[768]
        /\ mem'[1536] = mem[1536]
        /\ mem'[523776] = mem[523776] /\ mem'[524287] = mem[524287]
    BY <1>0, <2>1, Filled
  <2> QED
    BY <1>0, <2>1, <2>2 DEF MemInv, Starting
<1>7. ASSUME UNCHANGED machine, pc' = pc \/ pc \notin Starting, pc' \notin Starting \/ pc' = pc,
             pc' = "mount" => pc = "mount"
      PROVE  MemInv'
  BY <1>7 DEF MemInv, Starting
<1>8. CASE Mounted \/ SectorCall(ReadsCard) \/ SectorReturn
  <2>1. UNCHANGED machine /\ (pc' = pc \/ (pc = "mount" /\ pc' \in {"prompt", "halted"}))
    BY <1>8 DEF Mounted, SectorCall, SectorReturn
  <2> QED
    BY <1>7, <2>1 DEF Starting
<1>9. CASE Editing \/ Parsing \/ Prompting
  <2>1. /\ UNCHANGED machine /\ pc \in {"edit", "parse", "prompt", "getcwd"}
        /\ pc' \in {"edit", "parse", "exec", "prompt", "getcwd"}
    BY <1>9 DEF Editing, Backspace, Enter, TypeChar, Parsing, NextWord, Parsed,
                TooManyWords, Prompting, Prompt, Prompted
  <2> QED
    BY <1>7, <2>1 DEF Starting
<1>10. CASE Executing
  <2>1. /\ UNCHANGED machine /\ pc \in {"exec", "fs", "more", "open", "load", "done"}
        /\ pc' \in {"prompt", "open", "done", "more", "fs", "lost"}
    BY <1>10 DEF Executing, EmptyLine, TryCom, FsReturns, More, Refused, Done, BuiltIn,
         AfterCheck, LoadFile
  <2> QED
    BY <1>7, <2>1 DEF Starting
<1>11. CASE Loading
  <2>1. /\ UNCHANGED machine
        /\ pc \in {"open", "header", "headed", "load", "check", "store", "run"}
        /\ pc' \in {"header", "headed", "load", "check", "lost", "store", "run", "done"}
    <3>1. CASE StoreArg
      BY <3>1 DEF StoreArg
    <3>2. CASE Load
      BY <3>2 DEF Load, LoadFile
    <3> QED
      BY <1>11, <3>1, <3>2 DEF Loading, Open, HeaderShort, ReadHeader, HeaderInvalid,
         HeaderValid, Check, AllStored, ProgramReturns
  <2> QED
    BY <1>7, <2>1 DEF Starting
<1>12. CASE Reset
  <2>1. pc' = "crt0" /\ irq' \in BOOLEAN /\ mem' \in [Watched -> Bits]
    BY <1>12 DEF Reset, PowerUp, Bits
  <2> QED
    BY <2>1, PoweredUp
<1>13. CASE UNCHANGED vars
  BY <1>7, <1>13 DEF vars
<1> QED
  BY <1>1, <1>2, <1>3, <1>4, <1>5, <1>6, <1>8, <1>9, <1>10, <1>11, <1>12, <1>13,
     <1>14, <1>15 DEF Next, Machine, Booting

(* BootInOrder: interrupts, C code and the card each find what the start has  *)
(* to set up for them, whatever the memory and the registers held before and  *)
(* whenever keys come, also when interrupts were enabled from its first step. *)
THEOREM BootCorrect == Spec => []BootInOrder
<1>1. MemInv => BootInOrder
  BY DEF MemInv, BootInOrder, Starting
<1> QED
  BY <1>1, InitMem, NextMem, PTL DEF Spec

----------------------------------------------------------------------------
(* The steps that are Boot's leave the line and the loader alone: those of    *)
(* the start, and the calls of the card's routines.                           *)
BootPcs == Starting \union {"main", "mount", "halted"}

LEMMA MachineSteps ==
  ASSUME Machine
  PROVE  /\ UNCHANGED <<line, shown, argv, at, fd, file, hdr, image, argc, table, str, next, strptr>>
         /\ pc' = pc \/ (pc \in BootPcs /\ pc' \in BootPcs \union {"prompt"})
<1>1. UNCHANGED <<line, shown, argv, at, fd, file, hdr, image, argc, table, str, next, strptr>>
  BY DEF Machine, block
<1>2. CASE Booting
  BY <1>1, <1>2 DEF Booting, Crt0, ClearMem, CopyData, ClearZp, ClearRing, makecrctable, isr, Main,
              Mounted, Goto, BootPcs, Starting
<1>3. CASE SectorCall(ReadsCard) \/ SectorReturn
  BY <1>1, <1>3 DEF SectorCall, SectorReturn
<1> QED
  BY <1>1, <1>2, <1>3 DEF Machine

----------------------------------------------------------------------------
(* NoHandleLeft is inductive: open is the only way into the state in which a  *)
(* file is open, and both ways out of it close it.                            *)
THEOREM HandleCorrect == Spec => []NoHandleLeft
<1>1. Init => NoHandleLeft
  BY DEF Init, NoHandleLeft
<1>2. NoHandleLeft /\ [Next]_vars => NoHandleLeft'
  <2> SUFFICES ASSUME NoHandleLeft, [Next]_vars PROVE NoHandleLeft'
    OBVIOUS
  <2> USE DEF NoHandleLeft, Goto
  <2>1. CASE Editing \/ Parsing \/ Prompting
    BY <2>1 DEF Editing, Backspace, Enter, TypeChar, Parsing, NextWord, Parsed,
                TooManyWords, Prompting, Prompt, Prompted
  <2>2. CASE Executing
    BY <2>2 DEF Executing, EmptyLine, TryCom, FsReturns, Refused, Done, BuiltIn, More
  <2>3. CASE Loading
    BY <2>3 DEF Loading, Open, HeaderShort, ReadHeader, HeaderInvalid, HeaderValid, Load,
              LoadFile, Check, StoreArg, AllStored, ProgramReturns, loader
  <2>4. CASE Reset \/ UNCHANGED vars
    BY <2>4 DEF Reset, vars
  <2>5. CASE Machine
    BY <2>5, MachineSteps DEF BootPcs, Starting
  <2> QED
    BY <2>1, <2>2, <2>3, <2>4, <2>5 DEF Next
<1> QED
  BY <1>1, <1>2, PTL DEF Spec

----------------------------------------------------------------------------
(* What the loader knows of its file: past the header check the header is     *)
(* fine, and past the last check so is the rest.                              *)
HeaderFine == hdr \in Header /\ ~AddressInvalid /\ hdr.len # 0
LoaderKnows ==
  /\ pc \in {"header", "headed", "load", "check", "store", "run"} => file \in Files
  /\ pc = "headed" => hdr \in Header
  /\ pc \in {"load", "check", "store", "run"} => HeaderFine
  /\ pc \in {"store", "run"} => Runs

LEMMA HeaderTypes ==
  /\ \A f \in Files : HeaderOf(f) \in Header
  /\ \A h \in Header : h.load \in Nat /\ h.len \in Nat /\ h.load \in Word16
<1>1. ASSUME NEW f \in Files PROVE HeaderOf(f) \in Header
  <2>1. f \in File
    BY ShellAssumption
  <2>2. f.load \in Word16 /\ f.len \in Word16 /\ f.abi \in BOOLEAN
    BY <2>1 DEF File
  <2> QED
    BY <2>2 DEF HeaderOf, Header
<1>2. ASSUME NEW h \in Header PROVE h.load \in Nat /\ h.len \in Nat /\ h.load \in Word16
  <2>1. h.load \in Word16 /\ h.len \in Word16
    BY DEF Header
  <2> QED
    BY <2>1 DEF Word16
<1> QED
  BY <1>1, <1>2

LEMMA FileFields ==
  ASSUME NEW f \in Files PROVE f.size \in Nat /\ f.load \in Nat /\ f.len \in Nat
<1>1. f \in File
  BY ShellAssumption
<1>2. f.size \in Nat /\ f.load \in Word16 /\ f.len \in Word16
  BY <1>1 DEF File
<1> QED
  BY <1>2 DEF Word16

(* Within user space, lengths that agree modulo 2^16 agree.                   *)
LEMMA WordFits == ASSUME NEW n \in Int, n >= 0, n < 65536 PROVE n % 65536 = n
BY SMT

LEMMA LengthExact ==
  ASSUME NEW size \in Nat, NEW load \in Nat, NEW len \in Nat,
         size >= 8, load + size < 32512, len # 0, len = (size - 8) % 65536
  PROVE  len > 0 /\ size = 8 + len
<1> DEFINE n == size - 8
<1>1. n \in Int /\ n >= 0 /\ n < 65536
  OBVIOUS
<1>2. len = n % 65536
  OBVIOUS
<1> HIDE DEF n
<1>3. len = n
  BY <1>1, <1>2, WordFits
<1> QED
  BY <1>3 DEF n

LEMMA NextLoader == LoaderKnows /\ [Next]_vars => LoaderKnows'
<1> SUFFICES ASSUME LoaderKnows, [Next]_vars PROVE LoaderKnows'
  OBVIOUS
<1> USE DEF LoaderKnows, Goto
<1>1. CASE Editing \/ Parsing \/ Prompting
  BY <1>1 DEF Editing, Backspace, Enter, TypeChar, Parsing, NextWord, Parsed,
              TooManyWords, Prompting, Prompt, Prompted
<1>2. CASE Executing
  <2>1. CASE \E cmd \in Commands : BuiltIn(cmd)
    BY <2>1 DEF BuiltIn, AfterCheck
  <2>2. CASE More
    BY <2>2 DEF More, LoadFile
  <2> QED
    BY <1>2, <2>1, <2>2 DEF Executing, EmptyLine, TryCom, FsReturns, Refused, Done
<1>3. CASE Loading
  <2>1. CASE Open \/ HeaderShort
    BY <2>1 DEF Open, HeaderShort
  <2>2. CASE ReadHeader
    <3>1. hdr' \in {HeaderOf(file)} \union Headers /\ pc = "header" /\ pc' = "headed" /\ file' = file
      BY <2>2 DEF ReadHeader
    <3>2. hdr' \in Header
      BY <3>1, HeaderTypes, ShellAssumption
    <3> QED
      BY <3>1, <3>2
  <2>3. CASE HeaderInvalid \/ HeaderValid
    BY <2>3 DEF HeaderInvalid, HeaderValid, loader, HeaderFine, AddressInvalid
  <2>4. CASE Load
    BY <2>4 DEF Load, LoadFile, HeaderFine, AddressInvalid
  <2>5. CASE Check \/ AllStored
    BY <2>5 DEF Check, AllStored, HeaderFine, AddressInvalid, Runs, PayloadSize, ChecksumHolds
  <2>6. CASE StoreArg
    BY <2>6 DEF StoreArg, HeaderFine, AddressInvalid, Runs, PayloadSize, ChecksumHolds
  <2>7. CASE ProgramReturns
    BY <2>7 DEF ProgramReturns
  <2> QED
    BY <1>3, <2>1, <2>2, <2>3, <2>4, <2>5, <2>6, <2>7 DEF Loading
<1>4. CASE Reset
  BY <1>4 DEF Reset, PowerUp
<1>5. CASE Machine \/ UNCHANGED vars
  <2>1. /\ UNCHANGED <<file, hdr, image>>
        /\ pc' = pc \/ (pc \in BootPcs /\ pc' \in BootPcs \union {"prompt"})
    BY <1>5, MachineSteps DEF vars
  <2>2. pc' # pc => pc' \notin {"header", "headed", "load", "check", "store", "run"}
    BY <2>1 DEF BootPcs, Starting
  <2> QED
    BY <2>1, <2>2 DEF HeaderFine, AddressInvalid, Runs, PayloadSize, ChecksumHolds
<1> QED
  BY <1>1, <1>2, <1>3, <1>4, <1>5 DEF Next

(* ProgramWhole: the checks together leave only programs whose payload is in  *)
(* memory as on the card, inside user space; the comparison of lengths modulo *)
(* 2^16 is one of the lengths because the bound on the end comes with it.     *)
THEOREM ProgramCorrect == Spec => []ProgramWhole
<1>1. Init => LoaderKnows
  BY DEF Init, BootInit, LoaderKnows
<1>2. LoaderKnows => ProgramWhole
  <2> SUFFICES ASSUME LoaderKnows, pc \in {"store", "run"}
               PROVE  ProgramWhole
    BY DEF ProgramWhole
  <2>1. file.size \in Nat /\ hdr.load \in Nat /\ hdr.len \in Nat
    <3>1. file \in Files /\ hdr \in Header
      BY DEF LoaderKnows, HeaderFine
    <3> QED
      BY <3>1, FileFields, HeaderTypes
  <2>2. /\ hdr.load >= 2048 /\ hdr.len # 0
        /\ file.size >= 8 /\ hdr.load + file.size < 32512
        /\ hdr.len = (file.size - 8) % 65536
    BY <2>1 DEF LoaderKnows, HeaderFine, AddressInvalid, Runs, PayloadSize, USER_START,
                USER_END, COM_HEADER_SIZE
  <2>3. image = [file |-> file, at |-> hdr.load, whole |-> TRUE] /\ hdr.payload = file
    BY DEF LoaderKnows, Runs, ChecksumHolds
  <2>4. hdr.len > 0 /\ file.size = 8 + hdr.len
    BY <2>1, <2>2, LengthExact
  <2> QED
    BY <2>2, <2>3, <2>4 DEF ProgramWhole, USER_START, USER_END, COM_HEADER_SIZE
<1> QED
  BY <1>1, <1>2, NextLoader, PTL DEF Spec

----------------------------------------------------------------------------
(* The line: it stays in its buffer, what it holds is what is shown but for   *)
(* blanks in front, and a line without words consists of blanks.              *)
AllBlank == \A p \in 1..Len(line) : line[p] = Blank
LineInv ==
  /\ line \in Seq(Chars) /\ Len(line) <= LINE - 1
  /\ shown \in Seq(Chars) /\ Len(shown) <= LINE - 1
  /\ LineIsShown
  /\ pc = "parse" /\ argv = <<>> => at = 1
  /\ pc = "exec" /\ argv = <<>> => AllBlank
  /\ pc \in {"prompt", "getcwd"} \union BootPcs => AllBlank

LEMMA TypedChar ==
  ASSUME LineInv, NEW c \in Chars, TypeChar(c) PROVE LineInv'
<1> DEFINE n == Len(line)  m == Len(shown)
<1>1. /\ line \in Seq(Chars) /\ shown \in Seq(Chars) /\ n \in Nat /\ m \in Nat
      /\ n - m >= 0 /\ \A r \in 1..n - m : line[r] = Blank
      /\ \A r \in 1..m : shown[r] = line[n - m + r]
  <2>1. pc = "edit"
    BY DEF TypeChar
  <2> QED
    BY <2>1 DEF LineInv, LineIsShown
<1>2. line' = Append(line, c) /\ shown' = Append(shown, c) /\ n < LINE - 1 /\ pc' = "edit"
  BY DEF TypeChar
<1>3. /\ line' \in Seq(Chars) /\ Len(line') = n + 1 /\ line'[n + 1] = c
      /\ \A r \in 1..n : line'[r] = line[r]
  BY <1>1, <1>2, AppendFacts
<1>4. /\ shown' \in Seq(Chars) /\ Len(shown') = m + 1 /\ shown'[m + 1] = c
      /\ \A r \in 1..m : shown'[r] = shown[r]
  BY <1>1, <1>2, AppendFacts
<1> HIDE DEF n, m
<1>5. \A r \in 1..n - m : line'[r] = Blank
  BY <1>1, <1>3
<1>6. ASSUME NEW r \in 1..m + 1 PROVE shown'[r] = line'[n - m + r]
  <2>1. CASE r = m + 1
    <3>1. n - m + r = n + 1
      BY <1>1, <2>1
    <3> QED
      BY <1>3, <1>4, <2>1, <3>1
  <2>2. CASE r # m + 1
    <3>1. r \in 1..m /\ n - m + r \in 1..n
      BY <1>1, <2>2
    <3> QED
      BY <1>1, <1>3, <1>4, <3>1
  <2> QED
    BY <2>1, <2>2
<1>7. Len(line') <= LINE - 1 /\ Len(shown') <= LINE - 1
  BY <1>1, <1>2, <1>3, <1>4, ShellAssumption
<1>8. Len(line') - Len(shown') = n - m
  BY <1>1, <1>3, <1>4
<1>9. LineIsShown'
  BY <1>1, <1>4, <1>5, <1>6, <1>8 DEF LineIsShown
<1> QED
  BY <1>2, <1>3, <1>4, <1>7, <1>9 DEF LineInv, BootPcs, Starting

LEMMA ErasedChar ==
  ASSUME LineInv, Backspace PROVE LineInv'
<1> DEFINE n == Len(line)  m == Len(shown)
<1>1. /\ line \in Seq(Chars) /\ shown \in Seq(Chars) /\ n \in Nat /\ m \in Nat
      /\ n - m >= 0 /\ \A r \in 1..n - m : line[r] = Blank
      /\ \A r \in 1..m : shown[r] = line[n - m + r]
  BY DEF LineInv, LineIsShown, Backspace
<1>2. /\ line # <<>> /\ line' = Front(line) /\ pc' = "edit"
      /\ shown' = IF shown = <<>> THEN <<>> ELSE Front(shown)
      /\ n <= LINE - 1 /\ m <= LINE - 1
  BY DEF Backspace, LineInv
<1>3. /\ line' \in Seq(Chars) /\ Len(line') = n - 1 /\ n >= 1
      /\ \A r \in 1..n - 1 : line'[r] = line[r]
  BY <1>1, <1>2, FrontFacts
<1>4. CASE shown = <<>>
  <2>1. shown' = <<>> /\ m = 0
    BY <1>2, <1>4
  <2> HIDE DEF n, m
  <2>2. \A r \in 1..n - 1 : line'[r] = Blank
    BY <1>1, <1>3, <2>1
  <2>3. LineIsShown'
    BY <1>1, <1>3, <2>1, <2>2 DEF LineIsShown
  <2>4. Len(line') <= LINE - 1 /\ shown' \in Seq(Chars) /\ Len(shown') <= LINE - 1
    <3>1. shown' \in Seq(Chars) /\ Len(shown') = 0
      BY <2>1
    <3>2. LINE \in Nat /\ LINE >= 2
      BY ShellAssumption
    <3> QED
      BY <1>1, <1>2, <1>3, <3>1, <3>2
  <2> QED
    BY <1>2, <1>3, <2>3, <2>4 DEF LineInv, BootPcs, Starting
<1>5. CASE shown # <<>>
  <2>1. /\ shown' \in Seq(Chars) /\ Len(shown') = m - 1 /\ m >= 1
        /\ \A r \in 1..m - 1 : shown'[r] = shown[r]
    BY <1>1, <1>2, <1>5, FrontFacts
  <2> HIDE DEF n, m
  <2>2. \A r \in 1..n - m : line'[r] = Blank
    BY <1>1, <1>3, <2>1
  <2>3. \A r \in 1..m - 1 : shown'[r] = line'[n - m + r]
    BY <1>1, <1>3, <2>1
  <2>4. LineIsShown'
    <3>1. Len(line') - Len(shown') = n - m
      BY <1>1, <1>3, <2>1
    <3> QED
      BY <1>1, <2>1, <2>2, <2>3, <3>1 DEF LineIsShown
  <2> QED
    BY <1>1, <1>2, <1>3, <2>1, <2>4, ShellAssumption DEF LineInv, BootPcs, Starting
<1> QED
  BY <1>4, <1>5

LEMMA InitLine == Init => LineInv
<1> SUFFICES ASSUME Init PROVE LineInv
  OBVIOUS
<1>1. line = <<>> /\ shown = <<>> /\ pc = "crt0" /\ LINE - 1 >= 0
  BY ShellAssumption DEF Init, BootInit
<1> QED
  BY <1>1 DEF LineInv, LineIsShown, AllBlank

LEMMA NextLine == LineInv /\ [Next]_vars => LineInv'
<1> SUFFICES ASSUME LineInv, [Next]_vars PROVE LineInv'
  OBVIOUS
<1>1. CASE \E c \in Chars : TypeChar(c)
  BY <1>1, TypedChar
<1>2. CASE Backspace
  BY <1>2, ErasedChar
<1> USE DEF LineInv, Goto
<1>3. CASE Enter
  BY <1>3 DEF Enter, LineIsShown, BootPcs, Starting
<1>4. CASE NextWord
  <2>1. argv' # <<>>
    BY <1>4 DEF NextWord
  <2> QED
    BY <1>4, <2>1 DEF NextWord, LineIsShown, BootPcs, Starting
<1>5. CASE Parsed
  BY <1>5 DEF Parsed, LineIsShown, NoMoreWords, AllBlank, BootPcs, Starting
<1>6. CASE EmptyLine
  BY <1>6 DEF EmptyLine, LineIsShown, AllBlank
<1>7. CASE TooManyWords \/ Done \/ Reset
  <2>1. /\ line' = <<>> /\ shown' \in Seq(Chars) /\ Len(shown') <= LINE - 1
        /\ pc' \in {"prompt", "crt0"}
    <3>1. <<>> \in Seq(Chars) /\ Len(<<>>) <= LINE - 1
      BY ShellAssumption
    <3>2. line' = <<>> /\ shown' \in {shown, <<>>} /\ pc' \in {"prompt", "crt0"}
      BY <1>7 DEF TooManyWords, Done, Reset, ResetLine, PowerUp
    <3> QED
      BY <3>1, <3>2
  <2> QED
    BY <2>1, ShellAssumption DEF LineIsShown, AllBlank
<1>8. CASE Prompt
  BY <1>8 DEF Prompt, LineIsShown, AllBlank
<1>9. CASE Prompted
  <2>1. line' = line /\ shown' = <<>> /\ pc' = "edit" /\ AllBlank
    BY <1>9 DEF Prompted
  <2> QED
    BY <2>1, ShellAssumption DEF LineIsShown, AllBlank
<1>10. ASSUME UNCHANGED <<line, shown>>,
              pc' \notin {"edit", "parse", "exec", "prompt", "getcwd"} \union BootPcs
       PROVE  LineInv'
  BY <1>10 DEF LineIsShown
<1>11. CASE TryCom \/ FsReturns \/ More \/ Refused
  <2>1. UNCHANGED <<line, shown>> /\ pc' \in {"open", "done", "lost"}
    BY <1>11 DEF TryCom, FsReturns, More, LoadFile, Refused
  <2> QED
    BY <2>1, <1>10 DEF BootPcs, Starting
<1>12. CASE \E cmd \in Commands : BuiltIn(cmd)
  <2>1. UNCHANGED <<line, shown>> /\ pc' \in {"done", "more", "fs"}
    BY <1>12 DEF BuiltIn, AfterCheck
  <2> QED
    BY <2>1, <1>10 DEF BootPcs, Starting
<1>13. CASE Loading
  <2>1. UNCHANGED <<line, shown>>
        /\ pc' \in {"header", "headed", "load", "check", "lost", "store", "run", "done"}
    <3>1. CASE StoreArg
      BY <3>1 DEF StoreArg
    <3>2. CASE Load
      BY <3>2 DEF Load, LoadFile
    <3> QED
      BY <1>13, <3>1, <3>2 DEF Loading, Open, HeaderShort, ReadHeader, HeaderInvalid,
         HeaderValid, Check, AllStored, ProgramReturns
  <2> QED
    BY <2>1, <1>10 DEF BootPcs, Starting
<1>14. CASE Machine \/ UNCHANGED vars
  <2>1. /\ UNCHANGED <<line, shown, argv, at>>
        /\ pc' = pc \/ (pc \in BootPcs /\ pc' \in BootPcs \union {"prompt"})
    BY <1>14, MachineSteps DEF vars
  <2>2. CASE pc' = pc
    BY <2>1, <2>2 DEF LineIsShown, AllBlank
  <2>3. CASE pc \in BootPcs /\ pc' \in BootPcs \union {"prompt"}
    <3>1. AllBlank /\ pc' \notin {"edit", "parse", "exec", "getcwd"}
      BY <2>3 DEF BootPcs, Starting
    <3> QED
      BY <2>1, <3>1 DEF LineIsShown, AllBlank
  <2> QED
    BY <2>1, <2>2, <2>3
<1> QED
  BY <1>1, <1>2, <1>3, <1>4, <1>5, <1>6, <1>7, <1>8, <1>9, <1>11, <1>12, <1>13, <1>14
     DEF Next, Editing, Parsing, Executing, Prompting

(* LineIsShown: what Enter takes is the line on the screen; blanks that an    *)
(* empty line has left in front of it make no word.                           *)
THEOREM LineCorrect == Spec => []LineIsShown
<1>1. LineInv => LineIsShown
  BY DEF LineInv
<1> QED
  BY <1>1, InitLine, NextLine, PTL DEF Spec

----------------------------------------------------------------------------
(* The words: they lie in the line one behind the other, before strtok's      *)
(* position; up to there, what is not blank belongs to one of them.           *)
Word == [from : 1..LINE, len : 1..LINE]
Idle == BootPcs \union {"edit", "prompt", "getcwd"}
InWord(p) ==
  \E j \in 1..Len(argv) : p >= argv[j].from /\ p < argv[j].from + argv[j].len
WordsInv ==
  /\ argv \in Seq(Word) /\ Len(argv) <= ARGV - 1 /\ at \in 1..LINE + 1
  /\ \A j \in 1..Len(argv) :
       argv[j].from + argv[j].len < at /\ argv[j].from + argv[j].len - 1 <= Len(line)
  /\ \A i, j \in 1..Len(argv) : i < j => argv[i].from + argv[i].len < argv[j].from
  /\ pc \in Idle => argv = <<>>
  /\ pc \notin Idle =>
       \A p \in 1..Len(line) : p < at => (line[p] # Blank <=> InWord(p))
  /\ pc \notin Idle \union {"parse"} => NoMoreWords

LEMMA WordFields ==
  ASSUME NEW w \in Word
  PROVE  w.from \in Nat /\ w.from >= 1 /\ w.len \in Nat /\ w.len >= 1
BY ShellAssumption DEF Word

LEMMA AnotherWord ==
  ASSUME LineInv, WordsInv, NextWord PROVE WordsInv'
<1>1. /\ pc = "parse" /\ pc' = "parse" /\ line' = line /\ Len(argv) < ARGV - 1
      /\ line \in Seq(Chars) /\ Len(line) \in Nat /\ Len(line) <= LINE - 1
  BY DEF NextWord, LineInv
<1>2. PICK p \in 1..Len(line), e \in 1..Len(line) :
        /\ IsStart(p) /\ EndsAt(p, e)
        /\ argv' = Append(argv, [from |-> p, len |-> e - p + 1]) /\ at' = e + 2
  BY DEF NextWord
<1> DEFINE w == [from |-> p, len |-> e - p + 1]  n == Len(argv)
<1>3. /\ p >= at /\ p <= e /\ e <= Len(line)
      /\ \A r \in at..p - 1 : line[r] = Blank
      /\ \A r \in p..e : line[r] # Blank
      /\ e < Len(line) => line[e + 1] = Blank
  BY <1>1, <1>2 DEF IsStart, EndsAt, WordsInv
<1>4. argv \in Seq(Word) /\ n \in Nat /\ at \in 1..LINE + 1 /\ LINE \in Nat
  BY ShellAssumption DEF WordsInv
<1>5. w \in Word
  BY <1>1, <1>2, <1>3, <1>4 DEF Word
<1>6. /\ argv' \in Seq(Word) /\ Len(argv') = n + 1
      /\ argv'[n + 1].from = p /\ argv'[n + 1].len = e - p + 1
      /\ \A j \in 1..n : argv'[j] = argv[j]
  <2>1. argv' = Append(argv, w)
    BY <1>2
  <2> HIDE DEF w
  <2>2. /\ argv' \in Seq(Word) /\ Len(argv') = n + 1 /\ argv'[n + 1] = w
        /\ \A j \in 1..n : argv'[j] = argv[j]
    BY <1>4, <1>5, <2>1, AppendFacts
  <2> QED
    BY <2>2 DEF w
<1>7. \A j \in 1..n : argv[j].from \in Nat /\ argv[j].len \in Nat
                      /\ argv[j].from + argv[j].len < at
                      /\ argv[j].from + argv[j].len - 1 <= Len(line)
  <2> TAKE j \in 1..n
  <2>1. argv[j] \in Word
    BY <1>4
  <2> QED
    BY <1>4, <2>1, WordFields DEF WordsInv
<1> HIDE DEF n, w
<1>8. ASSUME NEW j \in 1..n + 1
      PROVE  /\ argv'[j].from + argv'[j].len < at'
             /\ argv'[j].from + argv'[j].len - 1 <= Len(line')
  <2>1. CASE j = n + 1
    BY <1>1, <1>2, <1>3, <1>6, <2>1
  <2>2. CASE j # n + 1
    <3>1. j \in 1..n /\ argv'[j] = argv[j]
      BY <1>4, <1>6, <2>2
    <3>2. at < at' /\ at \in Nat /\ at' \in Nat
      BY <1>2, <1>3, <1>4
    <3>3. /\ argv[j].from \in Nat /\ argv[j].len \in Nat
          /\ argv[j].from + argv[j].len < at
          /\ argv[j].from + argv[j].len - 1 <= Len(line)
      BY <1>7, <3>1
    <3>4. argv[j].from + argv[j].len < at'
      BY <3>2, <3>3
    <3> QED
      BY <1>1, <3>1, <3>3, <3>4
  <2> QED
    BY <2>1, <2>2
<1>9. ASSUME NEW i \in 1..n + 1, NEW j \in 1..n + 1, i < j
      PROVE  argv'[i].from + argv'[i].len < argv'[j].from
  <2>1. i \in 1..n /\ argv'[i] = argv[i]
    BY <1>4, <1>6, <1>9
  <2>2. CASE j = n + 1
    <3>1. argv'[j].from = p
      BY <1>6, <2>2
    <3>2. /\ argv[i].from \in Nat /\ argv[i].len \in Nat
          /\ argv[i].from + argv[i].len < at
      BY <1>7, <2>1
    <3>3. at <= p /\ at \in Nat /\ p \in Nat
      BY <1>3, <1>4
    <3>4. argv[i].from + argv[i].len < p
      BY <3>2, <3>3
    <3> QED
      BY <2>1, <3>1, <3>4
  <2>3. CASE j # n + 1
    <3>1. j \in 1..n /\ argv'[j] = argv[j]
      BY <1>4, <1>6, <2>3
    <3> QED
      BY <1>9, <2>1, <3>1 DEF WordsInv, n
  <2> QED
    BY <2>2, <2>3
<1>10. ASSUME NEW q \in 1..Len(line) PROVE InWord(q)' <=> InWord(q) \/ q \in p..e
  <2>1. InWord(q)' <=> \E j \in 1..n + 1 :
                         q >= argv'[j].from /\ q < argv'[j].from + argv'[j].len
    BY <1>6 DEF InWord
  <2>2. InWord(q) <=> \E j \in 1..n : q >= argv[j].from /\ q < argv[j].from + argv[j].len
    BY DEF InWord, n
  <2>3. (q >= argv'[n + 1].from /\ q < argv'[n + 1].from + argv'[n + 1].len) <=> q \in p..e
    BY <1>2, <1>6
  <2>4. \A j \in 1..n + 1 : j \in 1..n \/ j = n + 1
    BY <1>4
  <2>5. n + 1 \in 1..n + 1 /\ \A j \in 1..n : j \in 1..n + 1
    BY <1>4
  <2> QED
    BY <1>6, <2>1, <2>2, <2>3, <2>4, <2>5
<1>11. ASSUME NEW q \in 1..Len(line), q < at' PROVE line[q] # Blank <=> InWord(q)'
  <2>1. q >= at => ~InWord(q)
    BY <1>4, <1>7 DEF InWord, n
  <2>2. q < at => (line[q] # Blank <=> InWord(q))
    BY <1>1 DEF WordsInv, Idle, BootPcs, Starting
  <2>3. q < at \/ q \in at..p - 1 \/ q \in p..e \/ (q = e + 1 /\ e < Len(line))
    BY <1>1, <1>2, <1>3, <1>4, <1>11
  <2>4. q < at => q \notin p..e
    BY <1>2, <1>3, <1>4
  <2>5. q \in at..p - 1 => q \notin p..e /\ q >= at
    BY <1>2, <1>3, <1>4
  <2>6. q = e + 1 => q \notin p..e /\ q >= at
    BY <1>2, <1>3, <1>4
  <2>7. q \in p..e => line[q] # Blank
    BY <1>3
  <2> QED
    BY <1>3, <1>10, <2>1, <2>2, <2>3, <2>4, <2>5, <2>6, <2>7
<1>12. at' \in 1..LINE + 1 /\ n + 1 <= ARGV - 1
  BY <1>1, <1>2, <1>4, ShellAssumption DEF n
<1> QED
  BY <1>1, <1>6, <1>8, <1>9, <1>11, <1>12 DEF WordsInv, Idle, BootPcs, Starting

LEMMA NoWords ==
  ASSUME argv' = <<>>, at' \in 1..LINE + 1, pc' = "parse" => at' = 1,
         pc' \in Idle \union {"parse"}
  PROVE  WordsInv'
<1>1. LINE \in Nat /\ LINE >= 2 /\ ARGV \in Nat /\ ARGV >= 2
  BY ShellAssumption
<1>2. argv' \in Seq(Word) /\ Len(argv') = 0 /\ Len(argv') <= ARGV - 1
  BY <1>1
<1> QED
  BY <1>1, <1>2 DEF WordsInv, InWord

(* Every step but typing, parsing and resetting leaves the words alone.       *)
LEMMA WordsStay ==
  ASSUME WordsInv, UNCHANGED <<line, argv, at>>,
         pc \notin Idle, pc' \notin Idle \union {"parse"}, pc = "parse" => NoMoreWords
  PROVE  WordsInv'
<1>1. NoMoreWords /\ NoMoreWords'
  BY DEF WordsInv, NoMoreWords
<1>2. \A p : InWord(p)' <=> InWord(p)
  BY DEF InWord
<1> QED
  BY <1>1, <1>2 DEF WordsInv

LEMMA InitWords == Init => WordsInv
<1> SUFFICES ASSUME Init PROVE WordsInv
  OBVIOUS
<1>1. LINE \in Nat /\ LINE >= 2 /\ ARGV \in Nat /\ ARGV >= 2
  BY ShellAssumption
<1>2. argv = <<>> /\ at = 1 /\ pc = "crt0"
  BY DEF Init, BootInit
<1>3. argv \in Seq(Word) /\ Len(argv) = 0 /\ Len(argv) <= ARGV - 1
  BY <1>1, <1>2
<1> QED
  BY <1>1, <1>2, <1>3 DEF WordsInv, Idle, BootPcs, Starting

LEMMA NextWords == LineInv /\ WordsInv /\ [Next]_vars => WordsInv'
<1> SUFFICES ASSUME LineInv, WordsInv, [Next]_vars PROVE WordsInv'
  OBVIOUS
<1> USE DEF Goto
<1>1. CASE NextWord
  BY <1>1, AnotherWord
<1>2. CASE Editing
  <2>1. at \in 1..LINE + 1 /\ 1 \in 1..LINE + 1 /\ (pc = "edit" => argv = <<>>)
    BY ShellAssumption DEF WordsInv, Idle
  <2>2. /\ argv' = <<>> /\ at' \in 1..LINE + 1 /\ (pc' = "parse" => at' = 1)
        /\ pc' \in {"edit", "parse", "prompt", "getcwd"}
    BY <1>2, <2>1 DEF Editing, Backspace, Enter, TypeChar
  <2> QED
    BY <2>2, NoWords DEF Idle
<1>3. CASE TooManyWords \/ Done \/ Reset
  <2>1. argv' = <<>> /\ at' = 1 /\ pc' \in {"prompt", "crt0"} /\ at' \in 1..LINE + 1
    BY <1>3, ShellAssumption DEF TooManyWords, Done, Reset, ResetLine, PowerUp
  <2> QED
    BY <2>1, NoWords DEF Idle, BootPcs, Starting
<1>4. CASE EmptyLine \/ Prompting
  <2>1. /\ argv' = <<>> /\ at' \in 1..LINE + 1 /\ pc' \in {"prompt", "getcwd", "edit"}
    BY <1>4 DEF EmptyLine, Prompting, Prompt, Prompted, WordsInv, Idle
  <2> QED
    BY <2>1, NoWords DEF Idle, BootPcs, Starting
<1>5. CASE Parsed
  <2>1. /\ UNCHANGED <<line, argv, at>> /\ pc = "parse" /\ NoMoreWords /\ pc' = "exec"
    BY <1>5 DEF Parsed
  <2> QED
    BY <2>1, WordsStay DEF Idle, BootPcs, Starting
<1>6. CASE TryCom \/ FsReturns \/ More \/ Refused \/ \E cmd \in Commands : BuiltIn(cmd)
  <2>1. /\ UNCHANGED <<line, argv, at>> /\ pc \in {"exec", "fs", "more", "open", "load"}
        /\ pc' \in {"open", "fs", "done", "more", "lost"}
    BY <1>6 DEF TryCom, FsReturns, More, LoadFile, Refused, BuiltIn, AfterCheck
  <2> QED
    BY <2>1, WordsStay DEF Idle, BootPcs, Starting
<1>7. CASE Loading
  <2>1. /\ UNCHANGED <<line, argv, at>>
        /\ pc \in {"open", "header", "headed", "load", "check", "store", "run"}
        /\ pc' \in {"header", "headed", "load", "check", "lost", "store", "run", "done"}
    <3>1. CASE StoreArg
      BY <3>1 DEF StoreArg
    <3>2. CASE Load
      BY <3>2 DEF Load, LoadFile
    <3> QED
      BY <1>7, <3>1, <3>2 DEF Loading, Open, HeaderShort, ReadHeader, HeaderInvalid,
         HeaderValid, Check, AllStored, ProgramReturns
  <2> QED
    BY <2>1, WordsStay DEF Idle, BootPcs, Starting
<1>8. CASE Machine \/ UNCHANGED vars
  <2>1. /\ UNCHANGED <<line, argv, at>>
        /\ pc' = pc \/ (pc \in BootPcs /\ pc' \in BootPcs \union {"prompt"})
    BY <1>8, MachineSteps DEF vars
  <2>2. CASE pc' = pc
    <3>1. \A p : InWord(p)' <=> InWord(p)
      BY <2>1 DEF InWord
    <3> QED
      BY <2>1, <2>2, <3>1 DEF WordsInv, NoMoreWords
  <2>3. CASE pc \in BootPcs /\ pc' \in BootPcs \union {"prompt"}
    <3>1. pc \in Idle /\ pc' \in Idle /\ pc' # "parse"
      BY <2>3 DEF Idle, BootPcs, Starting
    <3>2. argv' = <<>> /\ at' \in 1..LINE + 1
      BY <2>1, <3>1 DEF WordsInv
    <3> QED
      BY <3>1, <3>2, NoWords
  <2> QED
    BY <2>1, <2>2, <2>3
<1> QED
  BY <1>1, <1>2, <1>3, <1>4, <1>5, <1>6, <1>7, <1>8
     DEF Next, Parsing, Executing

----------------------------------------------------------------------------
(* The argument block: the words lie in the line with a blank between them,   *)
(* their strings with a zero byte between them, so a string never starts      *)
(* behind its word, and a line that fits its buffer fits the block.           *)
BlockTypes ==
  /\ argc \in Nat \union {Unset} /\ next \in Nat /\ strptr \in Nat
  /\ DOMAIN table = 0..ARGV - 1 /\ str \in [Offsets -> Chars \union {NUL, Unset}]
Stored(j) ==
  /\ table[j - 1] \in Nat /\ table[j - 1] + argv[j].len < strptr
  /\ str[table[j - 1] + argv[j].len] = NUL
  /\ \A i \in 1..argv[j].len : str[table[j - 1] + i - 1] = line[argv[j].from + i - 1]
BlockInv ==
  /\ BlockTypes
  /\ pc = "store" =>
       /\ argc = Len(argv) /\ next <= Len(argv) /\ strptr <= LINE
       /\ next < Len(argv) => strptr < argv[next + 1].from
       /\ \A j \in 1..next : Stored(j)
  /\ pc = "run" =>
       /\ argc = Len(argv) /\ table[argc] = NUL /\ strptr <= LINE
       /\ \A j \in 1..Len(argv) : Stored(j)

LEMMA SubText ==
  ASSUME NEW S, NEW s, NEW f \in Nat, NEW l \in Nat, l >= 1,
         \A r \in f..f + l - 1 : s[r] \in S
  PROVE  /\ Len(SubSeq(s, f, f + l - 1)) = l
         /\ \A i \in 1..l : SubSeq(s, f, f + l - 1)[i] = s[f + i - 1]
<1> DEFINE m == f + l - 1
<1>1. f \in Int /\ m \in Int /\ f <= m /\ m - f + 1 = l
  OBVIOUS
<1> HIDE DEF m
<1>2. \A r \in f..m : s[r] \in S
  BY DEF m
<1>3. /\ Len(SubSeq(s, f, m)) = m - f + 1
      /\ \A i \in 1..m - f + 1 : SubSeq(s, f, m)[i] = s[f + i - 1]
  BY <1>1, <1>2, SubSeqProperties
<1> QED
  BY <1>1, <1>3 DEF m

(* What a word's text is, by its place in the line.                           *)
LEMMA TextFacts ==
  ASSUME LineInv, WordsInv, NEW j \in 1..Len(argv)
  PROVE  /\ argv[j].from \in Nat /\ argv[j].from >= 1
         /\ argv[j].len \in Nat /\ argv[j].len >= 1
         /\ argv[j].from + argv[j].len - 1 <= Len(line)
         /\ Len(TextOf(argv[j])) = argv[j].len
         /\ \A i \in 1..argv[j].len :
              TextOf(argv[j])[i] = line[argv[j].from + i - 1]
              /\ line[argv[j].from + i - 1] \in Chars
<1> DEFINE f == argv[j].from  l == argv[j].len
<1>1. argv[j] \in Word /\ line \in Seq(Chars) /\ Len(line) \in Nat
  BY DEF WordsInv, LineInv
<1>2. f \in Nat /\ f >= 1 /\ l \in Nat /\ l >= 1 /\ f + l - 1 <= Len(line)
  BY <1>1, WordFields DEF WordsInv
<1>3. TextOf(argv[j]) = SubSeq(line, f, f + l - 1)
  BY DEF TextOf
<1> HIDE DEF f, l
<1>4. \A r \in f..f + l - 1 : line[r] \in Chars
  BY <1>1, <1>2
<1>6. /\ Len(TextOf(argv[j])) = l
      /\ \A i \in 1..l : TextOf(argv[j])[i] = line[f + i - 1]
  BY <1>2, <1>3, <1>4, SubText
<1>7. \A i \in 1..l : line[f + i - 1] \in Chars
  BY <1>2, <1>4
<1> QED
  BY <1>2, <1>6, <1>7 DEF f, l

(* A string fits, and goes to its place.                                      *)
LEMMA StringFits ==
  ASSUME LineInv, WordsInv, BlockInv, pc = "store", next < Len(argv)
  PROVE  /\ next \in Nat /\ next + 1 \in 1..Len(argv)
         /\ strptr + argv[next + 1].len < LINE
         /\ Len(TextOf(argv[next + 1])) < ARGSTR - strptr
<1>1. /\ next \in Nat /\ strptr \in Nat /\ strptr < argv[next + 1].from
      /\ Len(argv) \in Nat /\ Len(line) \in Nat /\ Len(line) <= LINE - 1
  BY DEF BlockInv, BlockTypes, WordsInv, LineInv
<1>2. next + 1 \in 1..Len(argv)
  BY <1>1
<1>3. /\ argv[next + 1].from \in Nat /\ argv[next + 1].len \in Nat
      /\ argv[next + 1].from + argv[next + 1].len - 1 <= Len(line)
      /\ Len(TextOf(argv[next + 1])) = argv[next + 1].len
  BY <1>2, TextFacts
<1>4. LINE \in Nat /\ ARGSTR \in Nat /\ ARGSTR >= LINE
  BY ShellAssumption
<1>5. strptr + argv[next + 1].len < LINE
  BY <1>1, <1>3, <1>4
<1> QED
  BY <1>1, <1>2, <1>3, <1>4, <1>5

LEMMA StoredArg ==
  ASSUME LineInv, WordsInv, BlockInv, StoreArg PROVE BlockInv'
<1> DEFINE w == TextOf(argv[next + 1])  l == argv[next + 1].len
           f == argv[next + 1].from  p == strptr
<1>1. pc = "store" /\ next < Len(argv) /\ UNCHANGED <<line, argv>>
  BY DEF StoreArg
<1>2. /\ next \in Nat /\ next + 1 \in 1..Len(argv) /\ p + l < LINE
      /\ Len(w) < ARGSTR - p
  BY <1>1, StringFits
<1>3. /\ f \in Nat /\ l \in Nat /\ l >= 1 /\ Len(w) = l
      /\ \A i \in 1..l : w[i] = line[f + i - 1] /\ line[f + i - 1] \in Chars
  BY <1>2, TextFacts
<1>4. /\ argc = Len(argv) /\ p \in Nat /\ p < f
      /\ \A j \in 1..next : Stored(j)
      /\ DOMAIN table = 0..ARGV - 1 /\ str \in [Offsets -> Chars \union {NUL, Unset}]
  BY <1>1 DEF BlockInv, BlockTypes
<1>5. LINE \in Nat /\ ARGSTR \in Nat /\ ARGSTR >= LINE /\ ARGV \in Nat /\ Len(argv) <= ARGV - 1
      /\ Len(argv) \in Nat
  BY ShellAssumption DEF WordsInv
<1>6. Fits(w) = l /\ ~(Len(w) > ARGSTR - p) /\ ~(Len(w) = ARGSTR - p)
  BY <1>2, <1>3, <1>4, <1>5 DEF Fits
<1>7. /\ str' = StrWith(w) /\ strptr' = p + l + 1 /\ next' = next + 1
      /\ table' = [j \in DOMAIN table |-> IF j = next THEN p ELSE table[j]]
      /\ argc' = argc /\ pc' = "store"
  BY <1>6 DEF StoreArg, Goto
<1>8. /\ \A o \in Offsets : o \in p..p + l - 1 => str'[o] = w[o - p + 1]
      /\ \A o \in Offsets : o \notin p..p + l - 1 =>
                              str'[o] = IF o = p + l THEN NUL ELSE str[o]
      /\ str' = [o \in Offsets |-> str'[o]]
  <2> HIDE DEF w, l, p
  <2>1. str' = [o \in Offsets |-> CASE o \in p..p + l - 1 -> w[o - p + 1]
                                    [] o = p + l          -> NUL
                                    [] OTHER              -> str[o]]
    BY <1>6, <1>7 DEF StrWith, Offsets, p
  <2>2. p + l \notin p..p + l - 1
    BY <1>3, <1>4
  <2> QED
    BY <2>1, <2>2
<1> HIDE DEF w, l, f, p
<1>9. str'[p + l] = NUL /\ \A i \in 1..l : str'[p + i - 1] = line[f + i - 1]
  <2>1. p + l \in Offsets /\ p + l \notin p..p + l - 1
    BY <1>2, <1>3, <1>4, <1>5 DEF Offsets
  <2>2. ASSUME NEW i \in 1..l PROVE str'[p + i - 1] = line[f + i - 1]
    <3>1. /\ p + i - 1 \in Offsets /\ p + i - 1 \in p..p + l - 1
          /\ (p + i - 1) - p + 1 = i
      BY <1>2, <1>3, <1>4, <1>5 DEF Offsets
    <3>2. str'[p + i - 1] = w[(p + i - 1) - p + 1]
      BY <1>8, <3>1
    <3> QED
      BY <1>3, <3>1, <3>2
  <2> QED
    BY <1>8, <2>1, <2>2
<1>10. \A o \in Offsets : o < p => str'[o] = str[o]
  <2> SUFFICES ASSUME NEW o \in Offsets, o < p PROVE str'[o] = str[o]
    OBVIOUS
  <2>1. o \notin p..p + l - 1 /\ o # p + l
    BY <1>3, <1>4, <1>5 DEF Offsets
  <2> QED
    BY <1>8, <2>1
<1>11. str' \in [Offsets -> Chars \union {NUL, Unset}]
  <2> SUFFICES ASSUME NEW o \in Offsets PROVE str'[o] \in Chars \union {NUL, Unset}
    BY <1>8
  <2>1. CASE o \in p..p + l - 1
    <3>1. o - p + 1 \in 1..l
      BY <1>3, <1>4, <1>5, <2>1 DEF Offsets
    <3>2. str'[o] = w[o - p + 1]
      BY <1>8, <2>1
    <3> QED
      BY <1>3, <3>1, <3>2
  <2>2. CASE o = p + l
    BY <1>9, <2>2
  <2>3. CASE o \notin p..p + l - 1 /\ o # p + l
    BY <1>4, <1>8, <2>3
  <2> QED
    BY <2>1, <2>2, <2>3
<1>12. ASSUME NEW j \in 1..next' PROVE Stored(j)'
  <2>1. CASE j = next + 1
    <3>1. table'[j - 1] = p
      BY <1>2, <1>4, <1>5, <1>7, <2>1
    <3>2. argv'[j].len = l /\ argv'[j].from = f
      BY <1>1, <2>1 DEF l, f
    <3>3. p + l < strptr'
      BY <1>3, <1>4, <1>7
    <3> QED
      BY <1>1, <1>4, <1>9, <3>1, <3>2, <3>3 DEF Stored
  <2>2. CASE j # next + 1
    <3>1. j \in 1..next /\ j - 1 \in 0..ARGV - 1 /\ j - 1 # next /\ j \in 1..Len(argv)
      BY <1>2, <1>5, <1>7, <2>2
    <3>2. table'[j - 1] = table[j - 1] /\ argv'[j] = argv[j]
      BY <1>1, <1>4, <1>7, <3>1
    <3> DEFINE t == table[j - 1]  k == argv[j].len
    <3>3. /\ t \in Nat /\ t + k < p /\ str[t + k] = NUL
          /\ \A i \in 1..k : str[t + i - 1] = line[argv[j].from + i - 1]
      BY <1>4, <3>1 DEF Stored, p
    <3>4. k \in Nat
      BY <3>1, TextFacts
    <3> HIDE DEF t, k
    <3>5. t + k \in Offsets /\ \A i \in 1..k : t + i - 1 \in Offsets /\ t + i - 1 < p
      <4>1. t \in Nat /\ t + k < p /\ p \in Nat /\ p <= ARGSTR /\ ARGSTR \in Nat
        BY <1>2, <1>3, <1>4, <1>5, <3>3
      <4> QED
        BY <3>4, <4>1 DEF Offsets
    <3>6. str'[t + k] = NUL /\ \A i \in 1..k : str'[t + i - 1] = line[argv[j].from + i - 1]
      BY <1>10, <3>3, <3>5
    <3>7. t + k < strptr'
      BY <1>3, <1>4, <1>7, <3>3, <3>4
    <3> QED
      BY <1>1, <3>2, <3>3, <3>6, <3>7 DEF Stored, t, k
  <2> QED
    BY <2>1, <2>2
<1>13. next' < Len(argv) => strptr' < argv[next' + 1].from
  <2> SUFFICES ASSUME next + 1 < Len(argv) PROVE p + l + 1 < argv[next + 2].from
    BY <1>2, <1>7
  <2>1. next + 2 \in 1..Len(argv) /\ next + 1 < next + 2
    BY <1>2, <1>5
  <2>2. f + l < argv[next + 2].from
    BY <1>2, <2>1 DEF WordsInv, f, l
  <2>3. argv[next + 2].from \in Nat
    BY <2>1, TextFacts
  <2> QED
    BY <1>3, <1>4, <2>2, <2>3
<1>14. next' <= Len(argv) /\ strptr' <= LINE /\ next' \in Nat /\ strptr' \in Nat
  BY <1>2, <1>3, <1>4, <1>5, <1>7
<1>15. BlockTypes'
  BY <1>4, <1>5, <1>7, <1>11, <1>14 DEF BlockTypes
<1> QED
  BY <1>1, <1>4, <1>7, <1>12, <1>13, <1>14, <1>15 DEF BlockInv

LEMMA BlockForgotten ==
  ASSUME ForgetBlock, pc' \notin {"store", "run"} PROVE BlockInv'
<1>1. DOMAIN table' = 0..ARGV - 1 /\ str' \in [Offsets -> Chars \union {NUL, Unset}]
  BY DEF ForgetBlock, NoTable, NoStrings, Offsets
<1> QED
  BY <1>1 DEF BlockInv, BlockTypes, ForgetBlock

LEMMA InitBlock == Init => BlockInv
<1> SUFFICES ASSUME Init PROVE BlockInv
  OBVIOUS
<1>1. DOMAIN table = 0..ARGV - 1 /\ str \in [Offsets -> Chars \union {NUL, Unset}]
  BY DEF Init, NoTable, NoStrings, Offsets
<1> QED
  BY <1>1 DEF Init, BootInit, BlockInv, BlockTypes

(* Only the loader's last steps and the way out of a program touch the block. *)
LEMMA BlockStays ==
  ASSUME BlockInv, UNCHANGED block, pc' \notin {"store", "run"} PROVE BlockInv'
BY DEF BlockInv, BlockTypes, block

LEMMA NextBlock == LineInv /\ WordsInv /\ BlockInv /\ [Next]_vars => BlockInv'
<1> SUFFICES ASSUME LineInv, WordsInv, BlockInv, [Next]_vars PROVE BlockInv'
  OBVIOUS
<1> USE DEF Goto
<1>1. CASE StoreArg
  BY <1>1, StoredArg
<1>2. CASE Editing \/ Parsing \/ Executing \/ Prompting \/ Open \/ HeaderShort \/ ReadHeader
           \/ HeaderInvalid \/ HeaderValid \/ Load
  <2>1. CASE More
    BY <2>1, BlockStays DEF More, LoadFile
  <2>2. CASE Load
    BY <2>2, BlockStays DEF Load, LoadFile
  <2>3. CASE \E cmd \in Commands : BuiltIn(cmd)
    BY <2>3, BlockStays DEF BuiltIn, AfterCheck
  <2>4. CASE Editing \/ Parsing \/ Prompting
    BY <2>4, BlockStays DEF Editing, Backspace, Enter, TypeChar, Parsing, NextWord,
         Parsed, TooManyWords, Prompting, Prompt, Prompted
  <2>5. CASE EmptyLine \/ TryCom \/ FsReturns \/ Refused \/ Done \/ Open \/ HeaderShort
             \/ ReadHeader \/ HeaderInvalid \/ HeaderValid
    BY <2>5, BlockStays DEF EmptyLine, TryCom, FsReturns, Refused, Done, Open, HeaderShort,
         ReadHeader, HeaderInvalid, HeaderValid
  <2> QED
    BY <1>2, <2>1, <2>2, <2>3, <2>4, <2>5 DEF Executing
<1>3. CASE Check
  <2>1. /\ UNCHANGED <<line, argv, table, str>> /\ strptr' = 0 /\ next' = 0
        /\ \/ pc' = "store" /\ argc' = Len(argv)
           \/ pc' = "done" /\ argc' = argc
    BY <1>3 DEF Check
  <2>2. Len(argv) \in Nat /\ 0 <= LINE
    BY ShellAssumption DEF WordsInv
  <2>3. 0 < Len(argv) => 0 < argv[0 + 1].from
    <3>1. 0 < Len(argv) => 1 \in 1..Len(argv)
      BY <2>2
    <3> QED
      BY <3>1, TextFacts
  <2>4. BlockTypes'
    BY <2>1, <2>2 DEF BlockInv, BlockTypes
  <2>5. \A j \in 1..0 : FALSE
    OBVIOUS
  <2> QED
    BY <2>1, <2>2, <2>3, <2>4, <2>5 DEF BlockInv
<1>4. CASE AllStored
  <2>1. /\ UNCHANGED <<line, argv, argc, str, next, strptr>> /\ pc = "store" /\ pc' = "run"
        /\ next = Len(argv) /\ table' = [table EXCEPT ![argc] = NUL]
    BY <1>4 DEF AllStored
  <2>2. /\ argc = Len(argv) /\ argc \in 0..ARGV - 1 /\ DOMAIN table = 0..ARGV - 1
        /\ strptr <= LINE /\ Len(argv) \in Nat /\ \A j \in 1..Len(argv) : Stored(j)
    BY <2>1, ShellAssumption DEF BlockInv, BlockTypes, WordsInv
  <2>3. table'[argc] = NUL /\ \A k \in 0..ARGV - 1 : k # argc => table'[k] = table[k]
    BY <2>1, <2>2
  <2>4. ASSUME NEW j \in 1..Len(argv) PROVE Stored(j)'
    <3>1. j - 1 \in 0..ARGV - 1 /\ j - 1 # argc
      BY <2>2, ShellAssumption
    <3>2. table'[j - 1] = table[j - 1]
      BY <2>3, <3>1
    <3> QED
      BY <2>1, <2>2, <3>2 DEF Stored
  <2>5. BlockTypes'
    BY <2>1, <2>2 DEF BlockInv, BlockTypes
  <2> QED
    BY <2>1, <2>2, <2>3, <2>4, <2>5 DEF BlockInv
<1>5. CASE ProgramReturns \/ Reset
  BY <1>5, BlockForgotten DEF ProgramReturns, Reset, PowerUp
<1>6. CASE UNCHANGED vars
  BY <1>6 DEF vars, block, BlockInv, BlockTypes, Stored
<1>7. CASE Machine
  <2>1. /\ UNCHANGED <<line, argv, argc, table, str, next, strptr>>
        /\ pc' = pc \/ (pc \in BootPcs /\ pc' \in BootPcs \union {"prompt"})
    BY <1>7, MachineSteps
  <2>2. pc' # pc => pc' \notin {"store", "run"}
    BY <2>1 DEF BootPcs, Starting
  <2> QED
    BY <2>1, <2>2 DEF BlockInv, BlockTypes, Stored
<1> QED
  BY <1>1, <1>2, <1>3, <1>4, <1>5, <1>6, <1>7 DEF Next, Loading

(* ArgumentsInPlace: a program gets the words of its line, all of them, each  *)
(* ended by a zero byte, whatever the line and however long its words.        *)
THEOREM ArgumentsCorrect == Spec => []ArgumentsInPlace
<1>1. LineInv /\ WordsInv /\ BlockInv => ArgumentsInPlace
  <2> SUFFICES ASSUME LineInv, WordsInv, BlockInv, pc = "run"
               PROVE  /\ argc = Len(argv) /\ table[argc] = NUL /\ WordsOfLine
                      /\ \A j \in 1..argc : StringAt(table[j - 1], TextOf(argv[j]))
    BY DEF ArgumentsInPlace
  <2>1. /\ argc = Len(argv) /\ table[argc] = NUL /\ strptr <= LINE /\ strptr \in Nat
        /\ \A j \in 1..Len(argv) : Stored(j)
    BY DEF BlockInv, BlockTypes
  <2>2. ASSUME NEW j \in 1..Len(argv) PROVE StringAt(table[j - 1], TextOf(argv[j]))
    <3> DEFINE t == table[j - 1]  k == argv[j].len
    <3>1. /\ t \in Nat /\ t + k < strptr /\ str[t + k] = NUL
          /\ \A i \in 1..k : str[t + i - 1] = line[argv[j].from + i - 1]
      BY <2>1 DEF Stored
    <3>2. /\ k \in Nat /\ Len(TextOf(argv[j])) = k
          /\ \A i \in 1..k : TextOf(argv[j])[i] = line[argv[j].from + i - 1]
      BY TextFacts
    <3> HIDE DEF t, k
    <3>3. t \in Offsets /\ t + k \in Offsets
      BY <2>1, <3>1, <3>2, ShellAssumption DEF Offsets
    <3> QED
      BY <3>1, <3>2, <3>3 DEF StringAt, t
  <2>3. WordsOfLine
    <3>1. /\ \A p \in 1..Len(line) : p < at => (line[p] # Blank <=> InWord(p))
          /\ NoMoreWords /\ Len(line) \in Nat /\ at \in Nat /\ Len(argv) \in Nat
      BY DEF WordsInv, LineInv, Idle, BootPcs, Starting
    <3>2. ASSUME NEW p \in 1..Len(line)
          PROVE  InWord(p) <=> \E j \in 1..Len(argv) :
                                 p \in argv[j].from..argv[j].from + argv[j].len - 1
      <4>1. ASSUME NEW j \in 1..Len(argv)
            PROVE  p >= argv[j].from /\ p < argv[j].from + argv[j].len
                   <=> p \in argv[j].from..argv[j].from + argv[j].len - 1
        <5>1. argv[j].from \in Nat /\ argv[j].len \in Nat
          BY TextFacts
        <5> QED
          BY <5>1
      <4> QED
        BY <4>1 DEF InWord
    <3>3. ASSUME NEW p \in 1..Len(line), p >= at PROVE line[p] = Blank /\ ~InWord(p)
      <4>1. line[p] = Blank
        BY <3>1, <3>3 DEF NoMoreWords
      <4>2. ASSUME NEW j \in 1..Len(argv) PROVE ~(p < argv[j].from + argv[j].len)
        <5>1. /\ argv[j].from \in Nat /\ argv[j].len \in Nat
              /\ argv[j].from + argv[j].len < at
          BY TextFacts DEF WordsInv
        <5> QED
          BY <3>1, <3>3, <5>1
      <4> QED
        BY <4>1, <4>2 DEF InWord
    <3>4. ASSUME NEW j \in 1..Len(argv) - 1
          PROVE  argv[j].from + argv[j].len < argv[j + 1].from
      <4>1. j \in 1..Len(argv) /\ j + 1 \in 1..Len(argv) /\ j < j + 1
        BY <3>1
      <4> QED
        BY <4>1 DEF WordsInv
    <3>5. \A p \in 1..Len(line) : line[p] # Blank <=> InWord(p)
      BY <3>1, <3>3
    <3> QED
      BY <3>2, <3>4, <3>5 DEF WordsOfLine
  <2> QED
    BY <2>1, <2>2, <2>3
<1> QED
  BY <1>1, InitLine, NextLine, InitWords, NextWords, InitBlock, NextBlock, PTL DEF Spec

----------------------------------------------------------------------------
LEMMA InitLoaderType == Init => LoaderTypeOK
<1> SUFFICES ASSUME Init PROVE LoaderTypeOK
  OBVIOUS
<1>1. 0 \in Word16
  BY DEF Word16
<1> QED
  BY <1>1 DEF Init, LoaderTypeOK, NoImage

(* A copy goes to an address of 16 bits.                                      *)
LEMMA CopiedType ==
  ASSUME LoaderTypeOK, NEW f \in Files, NEW loc \in Word16, NEW ok, NEW fail,
         LoadFile(f, loc, ok, fail)
  PROVE  image' \in [file : Files \union {NoFile}, at : Word16, whole : BOOLEAN]
<1>1. PICK k \in 0..ToLoad(f), good \in BOOLEAN : Copied(f, loc, k, good)
  BY DEF LoadFile
<1>2. (good /\ k * SECTOR >= f.size) \in BOOLEAN
  OBVIOUS
<1> QED
  BY <1>1, <1>2 DEF Copied, LoaderTypeOK

LEMMA NextLoaderType == LoaderKnows /\ LoaderTypeOK /\ [Next]_vars => LoaderTypeOK'
<1> SUFFICES ASSUME LoaderKnows, LoaderTypeOK, [Next]_vars PROVE LoaderTypeOK'
  OBVIOUS
<1>1. CASE Editing \/ Parsing \/ Prompting \/ EmptyLine \/ TryCom \/ FsReturns
           \/ Refused \/ Done \/ \E cmd \in Commands : BuiltIn(cmd)
  BY <1>1 DEF LoaderTypeOK, Editing, Backspace, Enter, TypeChar, Parsing, NextWord,
       Parsed, TooManyWords, Prompting, Prompt, Prompted, EmptyLine, TryCom, FsReturns,
       Refused, Done, BuiltIn
<1>2. CASE More
  <2>1. MORE_ADDR \in Word16
    BY DEF MORE_ADDR, Word16
  <2>2. image' \in [file : Files \union {NoFile}, at : Word16, whole : BOOLEAN]
    BY <1>2, <2>1, CopiedType DEF More
  <2> QED
    BY <1>2, <2>2 DEF LoaderTypeOK, More
<1>3. CASE Load
  <2>1. PICK f \in Files : file' = f /\ LoadFile(f, hdr.load, "check", "done")
    BY <1>3 DEF Load
  <2>2. hdr.load \in Word16
    BY <1>3, HeaderTypes DEF Load, LoaderKnows, HeaderFine
  <2>3. image' \in [file : Files \union {NoFile}, at : Word16, whole : BOOLEAN]
    BY <2>1, <2>2, CopiedType
  <2> QED
    BY <1>3, <2>1, <2>3 DEF LoaderTypeOK, Load
<1>4. CASE Open \/ HeaderShort \/ HeaderInvalid \/ HeaderValid \/ Check \/ StoreArg \/ AllStored
  BY <1>4 DEF LoaderTypeOK, Open, HeaderShort, HeaderInvalid, HeaderValid, Check, StoreArg,
       AllStored
<1>7. CASE ReadHeader
  <2>1. file \in Files /\ hdr' \in {HeaderOf(file)} \union Headers
    BY <1>7 DEF ReadHeader, LoaderKnows
  <2>2. hdr' \in Header
    BY <2>1, HeaderTypes, ShellAssumption
  <2> QED
    BY <1>7, <2>2 DEF ReadHeader, LoaderTypeOK
<1>5. CASE ProgramReturns \/ Reset
  <2>1. NoImage \in [file : Files \union {NoFile}, at : Word16, whole : BOOLEAN]
    BY DEF NoImage, Word16
  <2> QED
    BY <1>5, <2>1 DEF LoaderTypeOK, ProgramReturns, Reset
<1>6. CASE Machine \/ UNCHANGED vars
  <2>1. UNCHANGED <<fd, file, hdr, image>>
    BY <1>6, MachineSteps DEF vars
  <2> QED
    BY <2>1 DEF LoaderTypeOK
<1> QED
  BY <1>1, <1>2, <1>3, <1>4, <1>5, <1>6, <1>7 DEF Next, Executing, Loading

LEMMA ForgottenType == ASSUME ForgetBlock PROVE BlockTypeOK'
<1>1. LINE \in Nat /\ ARGV \in Nat /\ ARGV >= 2 /\ ARGSTR \in Nat
  BY ShellAssumption
<1> QED
  BY <1>1 DEF ForgetBlock, BlockTypeOK, NoTable, NoStrings, Offsets

LEMMA InitBlockType == Init => BlockTypeOK
<1> SUFFICES ASSUME Init PROVE BlockTypeOK
  OBVIOUS
<1>1. LINE \in Nat /\ ARGV \in Nat /\ ARGV >= 2 /\ ARGSTR \in Nat
  BY ShellAssumption
<1> QED
  BY <1>1 DEF Init, BlockTypeOK, NoTable, NoStrings, Offsets

LEMMA StoredType ==
  ASSUME LineInv, WordsInv, BlockInv, BlockTypeOK, StoreArg PROVE BlockTypeOK'
<1>1. pc = "store" /\ next < Len(argv)
  BY DEF StoreArg
<1>2. /\ next \in Nat /\ next + 1 \in 1..Len(argv) /\ strptr \in Nat
      /\ strptr + argv[next + 1].len < LINE /\ argv[next + 1].len \in Nat
      /\ Len(TextOf(argv[next + 1])) = argv[next + 1].len
      /\ Len(TextOf(argv[next + 1])) < ARGSTR - strptr
  BY <1>1, StringFits, TextFacts DEF BlockInv, BlockTypes
<1>3. /\ LINE \in Nat /\ ARGSTR \in Nat /\ ARGSTR >= LINE /\ ARGV \in Nat
      /\ Len(argv) \in Nat /\ Len(argv) <= ARGV - 1
  BY ShellAssumption DEF WordsInv
<1> DEFINE w == TextOf(argv[next + 1])
<1>4. Fits(w) = Len(w) /\ ~(Len(w) > ARGSTR - strptr) /\ ~(Len(w) = ARGSTR - strptr)
  BY <1>2, <1>3 DEF Fits
<1>5. /\ strptr' = strptr + Len(w) + 1 /\ next' = next + 1 /\ argc' = argc
      /\ table' = [j \in DOMAIN table |-> IF j = next THEN strptr ELSE table[j]]
  BY <1>4 DEF StoreArg
<1>6. strptr \in Offsets /\ strptr' \in 0..ARGSTR + 1 /\ next' \in 0..ARGV - 1
  BY <1>2, <1>3, <1>5 DEF Offsets
<1>7. str' \in [Offsets -> Chars \union {NUL, Unset}]
  BY StoredArg DEF BlockInv, BlockTypes
<1> QED
  BY <1>5, <1>6, <1>7 DEF BlockTypeOK

LEMMA NextBlockType ==
  LineInv /\ WordsInv /\ BlockInv /\ BlockTypeOK /\ [Next]_vars => BlockTypeOK'
<1> SUFFICES ASSUME LineInv, WordsInv, BlockInv, BlockTypeOK, [Next]_vars
             PROVE  BlockTypeOK'
  OBVIOUS
<1>1. CASE StoreArg
  BY <1>1, StoredType
<1>2. CASE Editing \/ Parsing \/ Executing \/ Prompting \/ Open \/ HeaderShort \/ ReadHeader
           \/ HeaderInvalid \/ HeaderValid \/ Load
  <2>1. UNCHANGED block
    BY <1>2 DEF Editing, Backspace, Enter, TypeChar, Parsing, NextWord, Parsed,
         TooManyWords, Executing, EmptyLine, TryCom, FsReturns, More, Refused, Done,
         BuiltIn, Prompting, Prompt, Prompted, Open, HeaderShort, ReadHeader, HeaderInvalid,
         HeaderValid, Load
  <2> QED
    BY <2>1 DEF block, BlockTypeOK
<1>3. CASE Check
  <2>1. /\ UNCHANGED <<table, str>> /\ strptr' = 0 /\ next' = 0
        /\ argc' = Len(argv) \/ argc' = argc
    BY <1>3 DEF Check
  <2>2. Len(argv) \in 0..ARGV - 1 /\ 0 \in 0..ARGV - 1 /\ 0 \in 0..ARGSTR + 1
    BY ShellAssumption DEF WordsInv
  <2> QED
    BY <2>1, <2>2 DEF BlockTypeOK
<1>4. CASE AllStored
  BY <1>4 DEF AllStored, BlockTypeOK
<1>5. CASE ProgramReturns \/ Reset
  BY <1>5, ForgottenType DEF ProgramReturns, Reset
<1>6. CASE Machine \/ UNCHANGED vars
  <2>1. UNCHANGED <<argc, table, str, next, strptr>>
    BY <1>6, MachineSteps DEF vars, block
  <2> QED
    BY <2>1 DEF BlockTypeOK
<1> QED
  BY <1>1, <1>2, <1>3, <1>4, <1>5, <1>6 DEF Next, Loading

(* Where command_loop can stand.                                              *)
PcOK == pc \in {"crt0", "clear", "copy", "init", "ring", "tables", "main", "mount", "halted",
                "edit", "parse", "exec", "fs", "more", "open", "header", "headed", "load",
                "check", "store", "run", "done", "prompt", "getcwd", "lost"}
LEMMA NextPc == PcOK /\ [Next]_vars => PcOK'
<1> SUFFICES ASSUME PcOK, [Next]_vars PROVE PcOK'
  OBVIOUS
<1> USE DEF PcOK, Goto
<1>1. CASE Editing \/ Parsing \/ Prompting
  BY <1>1 DEF Editing, Backspace, Enter, TypeChar, Parsing, NextWord, Parsed,
       TooManyWords, Prompting, Prompt, Prompted
<1>2. CASE EmptyLine \/ TryCom \/ FsReturns \/ Refused \/ Done \/ Reset \/ UNCHANGED vars
  BY <1>2 DEF EmptyLine, TryCom, FsReturns, Refused, Done, Reset, PowerUp, vars
<1>3. CASE \E cmd \in Commands : BuiltIn(cmd)
  BY <1>3 DEF BuiltIn, AfterCheck
<1>4. CASE More \/ Load
  BY <1>4 DEF More, Load, LoadFile
<1>5. CASE StoreArg
  BY <1>5 DEF StoreArg
<1>6. CASE Open \/ HeaderShort \/ ReadHeader \/ HeaderInvalid \/ HeaderValid \/ Check
           \/ AllStored \/ ProgramReturns
  BY <1>6 DEF Open, HeaderShort, ReadHeader, HeaderInvalid, HeaderValid, Check, AllStored,
       ProgramReturns
<1>7. CASE Machine
  BY <1>7, MachineSteps DEF BootPcs, Starting
<1> QED
  BY <1>1, <1>2, <1>3, <1>4, <1>5, <1>6, <1>7 DEF Next, Executing, Loading

(* TypeOK: the line, the words and the argument block stay in their arrays.   *)
THEOREM TypeCorrect == Spec => []TypeOK
<1>1. Init => PcOK /\ LoaderKnows
  BY DEF Init, BootInit, PcOK, LoaderKnows
<1>2. BankInv /\ MemInv => BootTypeOK
  BY DEF BankInv, MemInv, FramesOK, Bits, BootTypeOK
<1>3. PcOK /\ BootTypeOK /\ LineInv /\ WordsInv /\ LoaderTypeOK /\ BlockTypeOK => TypeOK
  BY DEF PcOK, LineInv, WordsInv, Word, TypeOK, LineTypeOK
<1> QED
  BY <1>1, <1>2, <1>3, InitBanks, NextBanks, InitMem, NextMem, NextPc, InitLine, NextLine, InitWords, NextWords, InitBlock, NextBlock,
     NextLoader, InitLoaderType, NextLoaderType, InitBlockType, NextBlockType, PTL DEF Spec
=============================================================================
