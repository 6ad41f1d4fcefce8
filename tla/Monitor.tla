------------------------------ MODULE Monitor ------------------------------
(* The monitor program (monitor.s, and the loops of assembler.s and           *)
(* disassemble.s): its command line, read, write, run, assemble, disassemble. *)
EXTENDS Assembler, Board

CONSTANTS
  Scripts,      \* what the user may type, as sequences of keys
  MAXSCRIPTS,   \* bound: how much of it
  Cells,        \* the cells of free memory that are followed
  Image(_)      \* what is read at all other addresses, and what Cells held

RET == "RET"
DEL == "DEL"
Controls == {RET, DEL, "TAB"}
CLEARED == 10   \* the bytes that clearcmdbuf clears
ROW == 16
SCREEN == 16    \* lines, of a dump or of a disassembly
FREE == 8192    \* "MEMORY ABOVE $2000 is unallocated"
Word(n) == n % 65536
Word16 == {n \in Nat : n < 65536}

ASSUME MonitorAssumption ==
  /\ MAXSCRIPTS \in Nat
  /\ Cells \subseteq FREE..IO_PAGE - 1 /\ \A a \in Cells : Image(a) \in 0..255

VARIABLES
  where,              \* "loop", or the routine that waits for a key or works
  input, scripts,     \* the keys still to come, and how many scripts came
  CMDBUF, CMDLENGTH,
  START,              \* STARTADDR
  mem,
  stack,              \* what the routine has pushed (cmdwrite, disassemble)
  pair,               \* the first of two characters in write mode
  base, typed,        \* history: where writing began, and the bytes typed
  listed,             \* history: the instructions listed last
  row, lines, ask,    \* the next row of a dump, NRLINES, BUF2
  range               \* history: the addresses the dump is to show, [from, to]

keys == <<input, scripts>>
cmd  == <<CMDBUF, CMDLENGTH>>
wr   == <<pair, base, typed>>
dump == <<row, lines, ask, range>>
vars == <<where, keys, cmd, START, mem, stack, wr, listed, dump>>

Goto(w) == where' = w
Mem(m, a) == IF a \in Cells THEN m[a] ELSE Image(a)

(* The board ignores a write to ROM, whatever the banks.  What the monitor    *)
(* stores anywhere else (in its own memory, in that of the OS, in a register  *)
(* of a chip) may change everything that follows, and is not followed.        *)
IsRom(a) == write(a, 0, 0) = Nothing
Followed(at, n) == \A i \in 0..n - 1 : Word(at + i) \in Cells \/ IsRom(Word(at + i))

----------------------------------------------------------------------------
(* The user types; getch hands over one key at a time.                        *)
TypeScript ==
  /\ input = <<>> /\ scripts < MAXSCRIPTS /\ where \notin {"run", "astray"}
  /\ scripts' = scripts + 1 /\ \E s \in Scripts : input' = s
  /\ UNCHANGED <<where, cmd, START, mem, stack, wr, listed, dump>>
Pressed == IF input = <<>> THEN {} ELSE {Head(input)}
Key(c) ==
  /\ input # <<>> /\ c = Head(input) /\ input' = Tail(input) /\ UNCHANGED scripts

LowerCase == "abcdefghijklmnopqrstuvwxyz"
UpperCase == "ABCDEFGHIJKLMNOPQRSTUVWXYZ"
chartoupper(c) ==
  LET at == {i \in 1..26 : c = Char(LowerCase, i)}
  IN IF at = {} THEN c ELSE Char(UpperCase, Min(at))

(* clearcmdbuf leaves what lies behind its first bytes.                       *)
ClearCmdBuf ==
  /\ CMDBUF' = [i \in 0..CMDSIZE - 1 |-> IF i < CLEARED THEN NUL ELSE CMDBUF[i]]
  /\ CMDLENGTH' = 0
BackToLoop == Goto("loop") /\ ClearCmdBuf

Start ==   \* main, run by the shell
  /\ where = "shell" /\ BackToLoop
  /\ UNCHANGED <<keys, START, mem, stack, wr, listed, dump>>

----------------------------------------------------------------------------
(* loop, and the line of the assembler: the same buffer, the same bound.      *)
StoreChar(c) ==
  /\ CMDLENGTH < CMDSIZE
  /\ CMDBUF' = [CMDBUF EXCEPT ![CMDLENGTH] = chartoupper(c)]
  /\ CMDLENGTH' = CMDLENGTH + 1
Refused(c) ==
  CMDLENGTH = CMDSIZE \/ (where = "loop" /\ c \in Controls)   \* ischarvalid
TypeChar ==
  /\ where \in {"loop", "asm"}
  /\ \E c \in Pressed \ {RET, DEL} :
       /\ Key(c)
       /\ \/ ~Refused(c) /\ StoreChar(c)
          \/ Refused(c) /\ UNCHANGED cmd
  /\ UNCHANGED <<where, START, mem, stack, wr, listed, dump>>
(* The character stays in the buffer.                                         *)
Backspace_FromEmpty ==
  /\ where \in {"loop", "asm"} /\ Key(DEL)
  /\ CMDLENGTH' = CMDLENGTH - 1
  /\ UNCHANGED <<where, CMDBUF, START, mem, stack, wr, listed, dump>>
Backspace ==
  /\ where \in {"loop", "asm"} /\ Key(DEL)
  /\ CMDLENGTH' = IF CMDLENGTH = 0 THEN 0 ELSE CMDLENGTH - 1
  /\ UNCHANGED <<where, CMDBUF, START, mem, stack, wr, listed, dump>>

----------------------------------------------------------------------------
(* parsecmd looks at the first byte of the buffer, whatever CMDLENGTH says.   *)
Hex4(x) == \A i \in x..x + 3 : IsHex(CMDBUF[i])
Address(x) == 256 * char2num(CMDBUF[x], CMDBUF[x + 1])
              + char2num(CMDBUF[x + 2], CMDBUF[x + 3])
Exec(c) == where = "loop" /\ Key(RET) /\ CMDBUF[0] = c
Takes == {"R", "W", "D", "A"}    \* the commands that set STARTADDR

NoCommand ==
  /\ \E c \in {CMDBUF[0]} : /\ Exec(c) /\ c # "Q"
                            /\ c \in Takes \union {"G"} => ~Hex4(1)
  /\ BackToLoop
  /\ UNCHANGED <<START, mem, stack, wr, listed, dump>>
Quit ==
  /\ Exec("Q") /\ Goto(IF stack = <<>> THEN "shell" ELSE "astray")
  /\ UNCHANGED <<cmd, START, mem, stack, wr, listed, dump>>
Run ==
  /\ Exec("G") /\ Hex4(1) /\ Goto("run")
  /\ UNCHANGED <<cmd, START, mem, stack, wr, listed, dump>>
ProgramReturns ==
  /\ where = "run" /\ BackToLoop
  /\ UNCHANGED <<keys, START, mem, stack, wr, listed, dump>>
(* A crash, or a program that hangs; zero page and user memory stay.          *)
Reset ==
  /\ where \in {"run", "astray"} /\ Goto("shell") /\ stack' = <<>>
  /\ UNCHANGED <<keys, cmd, START, mem, wr, listed, dump>>

----------------------------------------------------------------------------
(* cmdwrite: pairs of digits, the offset of the next byte on the stack.       *)
Write ==
  /\ Exec("W") /\ Hex4(1) /\ Goto("write")
  /\ START' = Address(1) /\ stack' = Append(stack, 0)
  /\ pair' = NUL /\ base' = Address(1) /\ typed' = <<>>
  /\ UNCHANGED <<cmd, mem, listed, dump>>
Offset == stack[Len(stack)]
Pulled == Front(stack)
WriteFirst ==
  /\ where = "write" /\ pair = NUL
  /\ \E c \in Pressed \ {RET} : Key(c) /\ pair' = chartoupper(c)
  /\ UNCHANGED <<where, cmd, START, mem, stack, base, typed, listed, dump>>
WriteByte_SameRow(b) ==
  /\ mem' = [a \in Cells |-> IF a = Word(START + Offset) THEN b ELSE mem[a]]
  /\ \/ Offset + 1 < ROW /\ stack' = Append(Pulled, Offset + 1) /\ START' = START
     \/ Offset + 1 = ROW /\ stack' = Append(Pulled, 0) /\ START' = START
WriteByte(b) ==
  /\ mem' = [a \in Cells |-> IF a = Word(START + Offset) THEN b ELSE mem[a]]
  /\ \/ Offset + 1 < ROW /\ stack' = Append(Pulled, Offset + 1) /\ START' = START
     \/ Offset + 1 = ROW /\ stack' = Append(Pulled, 0) /\ START' = Word(START + ROW)
WriteSecond ==
  /\ where = "write" /\ pair # NUL
  /\ \E c \in Pressed \ {RET} :
       LET second == chartoupper(c)
       IN /\ Key(c) /\ IsHex(pair) /\ IsHex(second) /\ Followed(START + Offset, 1)
          /\ WriteByte(char2num(pair, second))
          /\ typed' = Append(typed, char2num(pair, second))
  /\ pair' = NUL /\ UNCHANGED <<where, cmd, base, listed, dump>>
WriteAstray ==
  /\ where = "write" /\ pair # NUL /\ ~Followed(START + Offset, 1)
  /\ \E c \in Pressed \ {RET} : Key(c) /\ IsHex(pair) /\ IsHex(chartoupper(c))
  /\ Goto("astray") /\ UNCHANGED <<cmd, START, mem, stack, wr, listed, dump>>
EndOfWrite_NoPull == Key(RET) /\ stack' = stack
EndOfWrite ==
  /\ \/ Key(RET)
     \/ pair # NUL /\ \E c \in Pressed \ {RET} :
                        Key(c) /\ ~(IsHex(pair) /\ IsHex(chartoupper(c)))
  /\ stack' = Pulled
WriteEnds ==
  /\ where = "write" /\ EndOfWrite /\ BackToLoop
  /\ UNCHANGED <<START, mem, wr, listed, dump>>

----------------------------------------------------------------------------
(* disassembleline of what memory m holds at a.                               *)
Listing(m, a) == [at |-> a, o |-> Mem(m, a),
                  b2 |-> Mem(m, Word(a + 1)), b3 |-> Mem(m, Word(a + 2))]
LengthOf(e) == Length(Mode(e.o))

(* assemble: the bytes are stored, then listed, and the address moves on by   *)
(* the length of the listed instruction.                                      *)
Asm ==
  /\ Exec("A") /\ Hex4(1) /\ Goto("asm") /\ START' = Address(1)
  /\ ClearCmdBuf /\ listed' = <<>>
  /\ UNCHANGED <<mem, stack, wr, dump>>
AsmLeave ==
  /\ where = "asm" /\ CMDLENGTH = 0 /\ Key(RET) /\ BackToLoop
  /\ UNCHANGED <<START, mem, stack, wr, listed, dump>>
AsmAstray ==
  /\ where = "asm" /\ CMDLENGTH > 0 /\ Key(RET) /\ Goto("astray")
  /\ \/ GoesAstray(CMDBUF, CMDLENGTH)
     \/ ~GoesAstray(CMDBUF, CMDLENGTH) /\ ~Followed(START, Len(Assemble(CMDBUF, CMDLENGTH)))
  /\ UNCHANGED <<cmd, START, mem, stack, wr, listed, dump>>
AsmLine_NextByte(bytes) ==
  /\ mem' = [a \in Cells |->
               IF Word(a - START) < Len(bytes) THEN bytes[Word(a - START) + 1] ELSE mem[a]]
  /\ listed' = Append(listed, Listing(mem', START))
  /\ START' = Word(START + Len(bytes) - 1)
AsmLine(bytes) ==
  /\ mem' = [a \in Cells |->
               IF Word(a - START) < Len(bytes) THEN bytes[Word(a - START) + 1] ELSE mem[a]]
  /\ LET e == Listing(mem', START)
     IN listed' = Append(listed, e) /\ START' = Word(START + LengthOf(e))
AsmEnter ==
  /\ where = "asm" /\ CMDLENGTH > 0 /\ ~GoesAstray(CMDBUF, CMDLENGTH)
  /\ Key(RET) /\ ClearCmdBuf
  /\ LET bytes == Assemble(CMDBUF, CMDLENGTH)
     IN \/ bytes # <<>> /\ Followed(START, Len(bytes)) /\ AsmLine(bytes)
        \/ bytes = <<>> /\ UNCHANGED <<mem, listed, START>>
  /\ UNCHANGED <<where, stack, wr, dump>>

(* disassemble: the number of lines so far is on the stack.                   *)
Disassemble ==
  /\ Exec("D") /\ Hex4(1) /\ Goto("dis") /\ START' = Address(1)
  /\ stack' = Append(stack, 0) /\ listed' = <<>>
  /\ UNCHANGED <<cmd, mem, wr, dump>>
DisLine ==
  /\ where = "dis"
  /\ LET e == Listing(mem, START)
     IN listed' = Append(listed, e) /\ START' = Word(START + LengthOf(e))
  /\ \/ Offset + 1 < SCREEN /\ stack' = Append(Pulled, Offset + 1) /\ UNCHANGED where
     \/ Offset + 1 = SCREEN /\ stack' = Pulled /\ Goto("disask")
  /\ UNCHANGED <<keys, cmd, mem, wr, dump>>
DisAsk ==
  /\ where = "disask"
  /\ \E c \in Pressed :
       /\ Key(c)
       /\ \/ c \in {"q", "Q"} /\ BackToLoop /\ UNCHANGED <<stack, listed>>
          \/ c \notin {"q", "Q"} /\ Goto("dis") /\ stack' = Append(stack, 0)
             /\ listed' = <<>> /\ UNCHANGED cmd
  /\ UNCHANGED <<START, mem, wr, dump>>

----------------------------------------------------------------------------
(* cmdread and hexdump: whole pages from the page of the address on, or, for  *)
(* R<XXXX>:<XXXX>, as many rows as there are between the two, less one.       *)
Ranged == CMDBUF[5] = ":" /\ CMDLENGTH = 10
RowsBetween_OneLess(a, b) == Word(b - a - 1) \div ROW
RowsBetween(a, b) == Word(b - a) \div ROW
Read ==
  /\ Exec("R") /\ Hex4(1) /\ START' = Address(1)
  /\ \/ CMDBUF[5] = ":" /\ ~Hex4(6) /\ BackToLoop /\ UNCHANGED dump
     \/ /\ CMDBUF[5] = ":" => Hex4(6)
        /\ Goto("dump") /\ UNCHANGED cmd
        /\ row' = 256 * (Address(1) \div 256)
        /\ ask' = ~Ranged
        /\ lines' = IF Ranged THEN RowsBetween(Address(1), Address(6)) ELSE SCREEN - 1
        /\ range' = [from |-> Address(1),
                     to |-> IF Ranged THEN Address(6) ELSE Word(row' + SCREEN * ROW - 1)]
  /\ UNCHANGED <<mem, stack, wr, listed>>
DumpRow ==
  /\ where = "dump" /\ row' = Word(row + ROW)
  /\ \/ lines > 0 /\ lines' = lines - 1 /\ UNCHANGED <<where, cmd>>
     \/ lines = 0 /\ ask /\ Goto("dumpask") /\ UNCHANGED <<lines, cmd>>
     \/ lines = 0 /\ ~ask /\ BackToLoop /\ UNCHANGED lines
  /\ UNCHANGED <<keys, START, mem, stack, wr, listed, ask, range>>
DumpAsk ==
  /\ where = "dumpask"
  /\ \E c \in Pressed :
       /\ Key(c)
       /\ \/ c \in {"q", "Q"} /\ BackToLoop /\ UNCHANGED <<lines, range>>
          \/ c \notin {"q", "Q"} /\ Goto("dump") /\ lines' = SCREEN - 1 /\ UNCHANGED cmd
             /\ range' = [from |-> row, to |-> Word(row + SCREEN * ROW - 1)]
  /\ UNCHANGED <<START, mem, stack, wr, listed, row, ask>>

----------------------------------------------------------------------------
Init ==
  /\ where = "shell" /\ input = <<>> /\ scripts = 0
  /\ CMDBUF = [i \in 0..CMDSIZE - 1 |-> NUL] /\ CMDLENGTH = 0
  /\ START = 0 /\ mem = [a \in Cells |-> Image(a)] /\ stack = <<>>
  /\ pair = NUL /\ base = 0 /\ typed = <<>> /\ listed = <<>>
  /\ row = 0 /\ lines = 0 /\ ask = FALSE /\ range = [from |-> 0, to |-> 0]

Editing == TypeChar \/ Backspace
Commands == NoCommand \/ Quit \/ Run \/ Write \/ Asm \/ Disassemble \/ Read
Writing == WriteFirst \/ WriteSecond \/ WriteAstray \/ WriteEnds
Assembling == AsmLeave \/ AsmAstray \/ AsmEnter
Showing == DisLine \/ DisAsk \/ DumpRow \/ DumpAsk
Next == TypeScript \/ Start \/ Editing \/ Commands \/ Writing \/ Assembling \/ Showing
        \/ ProgramReturns \/ Reset
Spec == Init /\ [][Next]_vars

----------------------------------------------------------------------------
(* TypeOK: the line stays in its buffer, everything else in its range.        *)
TypeOK ==
  /\ where \in {"shell", "loop", "run", "astray", "write", "asm", "dis", "disask",
                "dump", "dumpask"}
  /\ DOMAIN CMDBUF = 0..CMDSIZE - 1 /\ CMDLENGTH \in 0..CMDSIZE
  /\ START \in Word16 /\ mem \in [Cells -> 0..255]
  /\ row \in Word16 /\ lines \in Nat /\ lines < 4096 /\ ask \in BOOLEAN

(* StackBalanced: whatever a command has pushed is gone when the command line *)
(* waits again; Q, which returns to the shell over the stack, finds its way.  *)
StackBalanced ==
  /\ where \in {"shell", "loop", "asm", "disask", "dump", "dumpask", "run"} => stack = <<>>
  /\ where = "write" => Len(stack) = 1 /\ Offset < ROW
  /\ where = "dis"   => Len(stack) = 1 /\ Offset < SCREEN

(* WritesInOrder: the bytes typed in write mode lie in memory one behind the  *)
(* other, over the end of a line of sixteen and wherever the writing began,   *)
(* but for those that went to ROM; the next one goes behind them.             *)
WritesInOrder ==
  where = "write" =>
    /\ Word(START + Offset) = Word(base + Len(typed))
    /\ \A k \in 1..Len(typed) :
         LET a == base + k - 1
         IN (a \in Cells /\ mem[a] = typed[k]) \/ IsRom(a)

(* ListingIsMemory: what the assembler has listed in a session is what        *)
(* memory holds, instruction behind instruction, up to where the next one     *)
(* goes, also when a line stored more bytes than its instruction has, or none *)
(* because ROM is there.                                                      *)
InMemory(e) ==
  /\ Mem(mem, e.at) = e.o
  /\ LengthOf(e) > 1 => Mem(mem, Word(e.at + 1)) = e.b2
  /\ LengthOf(e) > 2 => Mem(mem, Word(e.at + 2)) = e.b3
After(e) == Word(e.at + LengthOf(e))
ListingIsMemory ==
  where = "asm" =>
    /\ \A k \in 1..Len(listed) : InMemory(listed[k])
    /\ \A k \in 2..Len(listed) : listed[k].at = After(listed[k - 1])
    /\ listed # <<>> => START = After(listed[Len(listed)])

(* TypesBack: the two tables agree: the assembler has every code that the     *)
(* disassembler shows under the same mnemonic and mode, and a line of the     *)
(* disassembler, typed into the assembler, gives the bytes it was made from,  *)
(* but for the modes that are printed like others, or that getmode does not   *)
(* know.                                                                      *)
OneWay == {"B", "C", "D", "E", "F"}
LineOf(text) ==
  [i \in 0..CMDSIZE - 1 |-> IF i < Len(text) THEN Char(text, i + 1) ELSE NUL]
BytesOf(e) == SubSeq(<<e.o, e.b2, e.b3>>, 1, LengthOf(e))
TypesBack ==
  listed # <<>> =>
    LET e == listed[Len(listed)]
        text == Text(e.o, e.b2, e.b3)
        line == LineOf(text)
    IN Mode(e.o) # "?" =>
         /\ [mode |-> Mode(e.o), code |-> e.o] \in Dataset(line)
         /\ Mode(e.o) \notin OneWay => Assemble(line, Len(text)) = BytesOf(e)

(* AssemblesTheLine: a line accepted for RAM is listed under its own mnemonic *)
(* and with its own digits if it has as many digits as its mode takes,        *)
(* provided nothing of an earlier line lies behind it.                        *)
Clean == \A i \in CMDLENGTH..CMDSIZE - 1 : CMDBUF[i] = NUL
Typed == SelectSeq([k \in 1..CMDLENGTH - 4 |-> CMDBUF[k + 3]], IsHex)
DigitsOf(e) == Chars(CASE LengthOf(e) = 2 -> Hex(e.b2)
                       [] LengthOf(e) = 3 -> Hex(e.b3) \o Hex(e.b2)
                       [] OTHER           -> "")
Accepted == where = "asm" /\ where' = "asm" /\ Len(listed') > Len(listed) /\ ~IsRom(START)
ListsTheLine(e) ==
  /\ Spells(CMDBUF, Mnemonic(e.o))
  /\ Len(Typed) = 2 * (LengthOf(e) - 1) => Typed = DigitsOf(e)
AssemblesTheLine ==
  [][Accepted /\ Clean => ListsTheLine(listed'[Len(listed')])]_vars

(* DumpShowsAll: a dump that is done has shown every address it was asked     *)
(* for, and a screen ends where the next begins; for a range that begins at   *)
(* the start of a page, which hexdump takes for granted.                      *)
DumpDone == where = "dump" /\ where' # "dump" /\ range.from <= range.to
DumpShowsAll ==
  [][DumpDone /\ range.from % 256 = 0 =>
       /\ Word(row' - 1 - range.from) >= range.to - range.from
       /\ Word(row' - 1 - range.from) < range.to - range.from + ROW]_vars
=============================================================================
