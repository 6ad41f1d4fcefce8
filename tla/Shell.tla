------------------------------- MODULE Shell -------------------------------
(* command.c: the line editor, the parser, the built-in commands as far as    *)
(* the shell is concerned, and the loader of .COM programs.  The filesystem   *)
(* (Fat32) is met as calls that succeed or fail; of the memory, only the      *)
(* argument block and what was loaded last are kept.  Boot has what is before *)
(* the first prompt, and what every call of the filesystem does to the banks. *)
EXTENDS Boot, FiniteSets

CONSTANTS
  Chars,    \* printable characters; Blank is one of them
  Blank,
  LINE,     \* sizeof(command_buffer), 40
  ARGV,     \* entries of command_argv, 20
  ARGSTR,   \* BCOS_ARGV_STR_END - BCOS_ARGV_STR_ADDR, 79
  Table,    \* the word that calls each of Commands
  Files,    \* what .COM and text files there may be
  Headers,  \* what a header may read as when its sector had a bad checksum
  Banks, RomBanks, \* what a program may leave in the bank registers
  NoFile, NoHeader,
  NUL,      \* a zero byte, a null pointer
  Unset     \* whatever memory held before

USER_END   == 32512    \* 0x7F00, the I/O page
MORE_ADDR  == 4096     \* 0x1000
LOAD_LIMIT == 29952    \* 0x7500
SECTOR     == 512
COM_HEADER_SIZE == 8
Word16 == {n \in Nat : n < 65536}

(* Commands that take any number of words, exactly two, one or two.           *)
AnyArity == {"LS", "SDINFO", "VERSION"}
TwoWords == {"MKDIR", "TOUCH", "MORE", "HEXDUMP"}
Commands == AnyArity \union TwoWords \union {"CD"}
Arity(cmd, n) == n = 2 \/ cmd \in AnyArity \/ (cmd = "CD" /\ n = 1)
SetsBank == {"LS", "CD", "MKDIR", "TOUCH", "MORE"}
CallsFs  == {"LS", "CD", "MKDIR", "TOUCH", "SDINFO"}

(* size: bytes; sectors: what its cluster chain holds; load, len, abi, crc:   *)
(* the header's address, payload length, whether the major version is ours,   *)
(* and whether the checksum is that of the payload; of a header as read,      *)
(* payload: the file whose payload has the checksum that it names.            *)
File == [size : Nat, sectors : Nat, load : Word16, len : Word16,
         abi : BOOLEAN, crc : BOOLEAN]
Header == [load : Word16, len : Word16, abi : BOOLEAN, payload : Files \union {NoFile}]
HeaderOf(f) ==
  [load |-> f.load, len |-> f.len, abi |-> f.abi, payload |-> IF f.crc THEN f ELSE NoFile]

ASSUME ShellAssumption ==
  /\ LINE \in Nat /\ LINE >= 2 /\ ARGV \in Nat /\ ARGV >= 2
  /\ ARGSTR \in Nat /\ ARGSTR >= LINE
  /\ Blank \in Chars /\ NUL \notin Chars /\ Unset \notin Chars \union {NUL}
  /\ Files \subseteq File /\ NoFile \notin File
  /\ Headers \subseteq Header /\ NoHeader \notin Header
  /\ Banks \subseteq 0..255 /\ RomBanks \subseteq 0..255
  /\ Table \in [Commands -> Seq(Chars)]

VARIABLES
  line,      \* command_buffer up to command_ptr
  shown,     \* the characters of the line that are on the screen
  argv, at,  \* command_argv as [from, len] in line, and strtok's position
  fd,        \* whether the loader's file is open
  file,      \* the .COM file being loaded, by its directory entry as last read
  hdr,       \* its header as read
  image,     \* the last file copied to memory, where, and whether its payload
             \* is there as on the card, all of it
  argc, table, str,  \* the argument block at 0x0600, 0x0601 and 0x0630
  next, strptr       \* the argument to store next, and where

block == <<argc, table, str, next, strptr>>
editor == <<line, shown, argv, at>>
loader == <<fd, file, hdr, image, block>>
vars == <<bootvars, editor, loader>>

NoImage == [file |-> NoFile, at |-> 0, whole |-> FALSE]

----------------------------------------------------------------------------
(* command_loop: a full line answers with a bell.                             *)
TypeChar_OneTooMany(c) ==
  /\ pc = "edit" /\ Len(line) < LINE
  /\ line' = Append(line, c) /\ shown' = Append(shown, c)
  /\ UNCHANGED <<pc, argv, at, machine, banks, loader>>
TypeChar(c) ==
  /\ pc = "edit" /\ Len(line) < LINE - 1
  /\ line' = Append(line, c) /\ shown' = Append(shown, c)
  /\ UNCHANGED <<pc, argv, at, machine, banks, loader>>

Backspace ==
  /\ pc = "edit" /\ line # <<>>
  /\ line' = Front(line) /\ shown' = IF shown = <<>> THEN <<>> ELSE Front(shown)
  /\ UNCHANGED <<pc, argv, at, machine, banks, loader>>

Enter ==
  /\ pc = "edit" /\ Goto("parse") /\ argv' = <<>> /\ at' = 1
  /\ UNCHANGED <<line, shown, machine, banks, loader>>

(* command_parse, one call of strtok after the other.                         *)
IsStart(p) == p \in at..Len(line) /\ line[p] # Blank
              /\ \A r \in at..p - 1 : line[r] = Blank
EndsAt(p, e) == e \in p..Len(line) /\ (\A r \in p..e : line[r] # Blank)
                /\ (e < Len(line) => line[e + 1] = Blank)
NoMoreWords == \A p \in at..Len(line) : line[p] = Blank
TextOf(a) == SubSeq(line, a.from, a.from + a.len - 1)

NextWord ==
  /\ pc = "parse" /\ Len(argv) < ARGV - 1
  /\ \E p, e \in 1..Len(line) :
       /\ IsStart(p) /\ EndsAt(p, e)
       /\ argv' = Append(argv, [from |-> p, len |-> e - p + 1]) /\ at' = e + 2
  /\ UNCHANGED <<pc, line, shown, machine, banks, loader>>

Parsed ==
  /\ pc = "parse" /\ NoMoreWords /\ Goto("exec")
  /\ UNCHANGED <<editor, machine, banks, loader>>

(* command_exec.  ResetLine is the memset at its end: what argv points to is  *)
(* gone with it.                                                              *)
ResetLine == line' = <<>> /\ argv' = <<>> /\ at' = 1
TooManyWords_KeepsLine ==
  /\ pc = "parse" /\ Len(argv) = ARGV - 1 /\ ~NoMoreWords
  /\ Goto("prompt")
  /\ UNCHANGED <<editor, machine, banks, loader>>
TooManyWords ==
  /\ pc = "parse" /\ Len(argv) = ARGV - 1 /\ ~NoMoreWords
  /\ ResetLine /\ Goto("prompt")
  /\ UNCHANGED <<shown, machine, banks, loader>>

EmptyLine ==
  /\ pc = "exec" /\ argv = <<>> /\ Goto("prompt")
  /\ UNCHANGED <<editor, machine, banks, loader>>

Command(cmd) == argv # <<>> /\ TextOf(argv[1]) = Table[cmd]
AfterCheck(cmd) ==
  CASE ~Arity(cmd, Len(argv)) -> "done"
    [] cmd = "MORE"           -> "more"
    [] cmd \in CallsFs        -> "fs"
    [] OTHER                  -> "done"
BuiltIn(cmd) ==
  /\ pc = "exec" /\ Command(cmd) /\ Goto(AfterCheck(cmd))
  /\ rambank' = IF cmd \in SetsBank THEN SDRAMBANK ELSE rambank
  /\ IF AfterCheck(cmd) = "done" THEN UNCHANGED rom ELSE fs_bank_enter
  /\ UNCHANGED <<editor, machine, loader>>

TryCom ==
  /\ pc = "exec" /\ argv # <<>> /\ \A cmd \in Commands : ~Command(cmd)
  /\ Goto("open") /\ rambank' = SDRAMBANK /\ fs_bank_enter
  /\ UNCHANGED <<editor, machine, loader>>

FsReturns ==
  /\ pc = "fs" /\ InCall /\ fs_bank_exit /\ Goto("done")
  /\ UNCHANGED <<editor, machine, rambank, loader>>

Done ==
  /\ pc = "done" /\ ResetLine /\ Goto("prompt") /\ file' = NoFile /\ hdr' = NoHeader
  /\ UNCHANGED <<shown, machine, banks, fd, image, block>>

(* command_pwdcmd; fs_getcwd reads the names of the folders in bank 63.       *)
Prompt_KeepsBank ==
  /\ pc = "prompt" /\ Goto("getcwd") /\ fs_bank_enter
  /\ UNCHANGED <<editor, machine, rambank, loader>>
Prompt ==
  /\ pc = "prompt" /\ Goto("getcwd") /\ rambank' = SDRAMBANK /\ fs_bank_enter
  /\ UNCHANGED <<editor, machine, loader>>
Prompted ==
  /\ pc = "getcwd" /\ fs_bank_exit /\ Goto("edit") /\ shown' = <<>>
  /\ UNCHANGED <<line, argv, at, machine, rambank, loader>>

----------------------------------------------------------------------------
(* fs_load_file: whole sectors go to memory until the size is reached, the    *)
(* chain ends or a read fails; a file of LOAD_LIMIT bytes or more is refused.  *)
SectorsOf(size) == (size + SECTOR - 1) \div SECTOR
ToLoad(f) ==
  IF f.sectors < SectorsOf(f.size) THEN f.sectors ELSE SectorsOf(f.size)

(* k sectors copied; good: none that the payload is in was let pass with a    *)
(* bad checksum.                                                              *)
Copied(f, loc, k, good) ==
  image' = IF k = 0 THEN image
           ELSE [file |-> f, at |-> loc, whole |-> good /\ k * SECTOR >= f.size]
EndOfCopy(loc, k) == loc + k * SECTOR
LoadFile(f, loc, success, failure) ==
  \E k \in 0..ToLoad(f), good \in BOOLEAN :
    /\ f.size < LOAD_LIMIT
    /\ Copied(f, loc, k, good)
    /\ \/ EndOfCopy(loc, k) > USER_END /\ k > 0 /\ Goto("lost")
       \/ EndOfCopy(loc, k) <= USER_END /\ k = ToLoad(f) /\ Goto(success)
       \/ EndOfCopy(loc, k) <= USER_END /\ k < ToLoad(f) /\ Goto(failure)

(* A copy that runs into the I/O page does not come back.                     *)
Back == IF pc' = "lost" THEN UNCHANGED rom ELSE fs_bank_exit

(* command_more; the paging asks for keys and changes nothing.                *)
More ==
  /\ pc = "more" /\ InCall
  /\ \E f \in Files : LoadFile(f, MORE_ADDR, "done", "done")
  /\ Back /\ UNCHANGED <<editor, machine, rambank, fd, file, hdr, block>>
(* There is no such file, or the call gives up before its first copy.         *)
Refused ==
  /\ pc \in {"more", "open", "load"} /\ InCall /\ fs_bank_exit /\ Goto("done")
  /\ UNCHANGED <<editor, machine, rambank, loader>>

(* command_try_com: open, read the header, close, then the checks.            *)
Open ==
  /\ pc = "open" /\ InCall /\ \E f \in Files : file' = f
  /\ fd' = TRUE /\ Goto("header") /\ fs_bank_exit_enter
  /\ UNCHANGED <<editor, machine, rambank, hdr, image, block>>

(* Fewer than eight bytes could be read.                                      *)
HeaderShort_LeavesOpen ==
  /\ pc = "header" /\ InCall /\ fs_bank_exit /\ Goto("done")
  /\ UNCHANGED <<editor, machine, rambank, fd, file, hdr, image, block>>
HeaderShort ==
  /\ pc = "header" /\ InCall /\ fs_bank_exit /\ Goto("done") /\ fd' = FALSE
  /\ UNCHANGED <<editor, machine, rambank, file, hdr, image, block>>
(* All eight were; whether their sector's checksum was right is not asked.    *)
ReadHeader ==
  /\ pc = "header" /\ InCall /\ file.size >= COM_HEADER_SIZE /\ file.sectors > 0
  /\ hdr' \in {HeaderOf(file)} \union Headers
  /\ fd' = FALSE /\ fs_bank_exit /\ Goto("headed")
  /\ UNCHANGED <<editor, machine, rambank, file, image, block>>

AddressInvalid == hdr.load < USER_START \/ hdr.load >= USER_END
HeaderInvalid ==
  /\ pc = "headed" /\ (AddressInvalid \/ hdr.len = 0)
  /\ Goto("done") /\ UNCHANGED <<editor, machine, banks, loader>>
HeaderValid ==
  /\ pc = "headed" /\ ~AddressInvalid /\ hdr.len # 0
  /\ Goto("load") /\ fs_bank_enter /\ UNCHANGED <<editor, machine, rambank, loader>>

(* The load looks the name up anew, and what it finds is not what was opened  *)
(* when a directory sector was let pass with a bad checksum.                  *)
Load ==
  /\ pc = "load" /\ InCall
  /\ \E f \in Files : file' = f /\ LoadFile(f, hdr.load, "check", "done")
  /\ Back /\ UNCHANGED <<editor, machine, rambank, fd, hdr, block>>

PayloadSize(f) == (f.size - COM_HEADER_SIZE) % 65536
ChecksumHolds ==
  image = [file |-> file, at |-> hdr.load, whole |-> TRUE] /\ hdr.payload = file
Runs_IgnoresChecksum ==
  /\ file.size >= COM_HEADER_SIZE /\ hdr.len = PayloadSize(file)
  /\ hdr.load + file.size < USER_END /\ hdr.abi
Runs ==
  /\ file.size >= COM_HEADER_SIZE /\ hdr.len = PayloadSize(file)
  /\ hdr.load + file.size < USER_END /\ hdr.abi /\ ChecksumHolds

Check ==
  /\ pc = "check" /\ strptr' = 0 /\ next' = 0
  /\ \/ Runs /\ Goto("store") /\ argc' = Len(argv)
     \/ ~Runs /\ Goto("done") /\ argc' = argc
  /\ UNCHANGED <<editor, machine, banks, fd, file, hdr, image, table, str>>

(* command_store_program_args: one argument with its zero byte, cut off where *)
(* the room for strings ends, which ends the whole.                           *)
Fits(w) == IF Len(w) < ARGSTR - strptr THEN Len(w) ELSE ARGSTR - strptr
StrWith(w) ==
  [o \in 0..ARGSTR |->
     CASE o \in strptr..strptr + Fits(w) - 1 -> w[o - strptr + 1]
       [] o = strptr + Fits(w)               -> NUL
       [] OTHER                              -> str[o]]
StoreArg_NoZeroByte ==
  /\ pc = "store" /\ next < Len(argv)
  /\ LET w == TextOf(argv[next + 1]) IN
       /\ str' = StrWith(w) /\ strptr' = strptr + Len(w) /\ next' = next + 1
       /\ table' = [table EXCEPT ![next] = strptr] /\ UNCHANGED <<pc, argc>>
  /\ UNCHANGED <<editor, machine, banks, fd, file, hdr, image>>
StoreArg ==
  /\ pc = "store" /\ next < Len(argv)
  /\ LET w == TextOf(argv[next + 1])
         cut == Len(w) > ARGSTR - strptr
         end == Len(w) = ARGSTR - strptr
     IN /\ str' = StrWith(w)
        /\ strptr' = strptr + Fits(w) + 1 /\ next' = next + 1
        /\ table' = [j \in DOMAIN table |->
                       IF j = next THEN (IF cut THEN NUL ELSE strptr)
                       ELSE IF j = next + 1 /\ (cut \/ end) THEN NUL ELSE table[j]]
        /\ argc' = IF cut THEN next ELSE IF end THEN next + 1 ELSE argc
        /\ Goto(IF cut \/ end THEN "run" ELSE "store")
  /\ UNCHANGED <<editor, machine, banks, fd, file, hdr, image>>

AllStored ==
  /\ pc = "store" /\ next = Len(argv)
  /\ table' = [table EXCEPT ![argc] = NUL] /\ Goto("run")
  /\ UNCHANGED <<editor, machine, banks, fd, file, hdr, image, argc, str, next, strptr>>

(* program() may do to the memory and to the bank what it likes; user space   *)
(* is wiped after it.                                                         *)
NoTable == [j \in 0..ARGV - 1 |-> Unset]
NoStrings == [o \in 0..ARGSTR |-> Unset]
ForgetBlock ==
  argc' = Unset /\ table' = NoTable /\ str' = NoStrings /\ next' = 0 /\ strptr' = 0
ProgramReturns ==
  /\ pc = "run" /\ Goto("done") /\ image' = NoImage /\ ForgetBlock
  /\ \E b \in Banks, c \in RomBanks : rambank' = Masked(b) /\ rombank' = Masked(c)
  /\ UNCHANGED <<editor, machine, frames, fd, file, hdr>>

----------------------------------------------------------------------------
(* What the shell keeps is as the start leaves it: nobody looks before.       *)
Init ==
  /\ BootInit /\ line = <<>> /\ shown = <<>> /\ argv = <<>> /\ at = 1
  /\ fd = FALSE /\ file = NoFile /\ hdr = NoHeader /\ image = NoImage
  /\ argc = Unset /\ table = NoTable /\ str = NoStrings /\ next = 0 /\ strptr = 0

(* The way out of a program that hangs or jumps to the reset vector, or of a  *)
(* machine that is lost or has found no card.                                 *)
Reset ==
  /\ pc \in {"run", "lost", "halted"} /\ PowerUp /\ ResetLine /\ shown' = <<>>
  /\ fd' = FALSE /\ file' = NoFile /\ hdr' = NoHeader /\ image' = NoImage /\ ForgetBlock

(* The steps that are Boot's alone.                                           *)
ReadsCard == {"mount", "fs", "more", "open", "header", "load"}
Machine == (Booting \/ SectorCall(ReadsCard) \/ SectorReturn) /\ UNCHANGED <<editor, loader>>

Editing == Backspace \/ Enter \/ \E c \in Chars : TypeChar(c)
Parsing == NextWord \/ Parsed \/ TooManyWords
Executing == EmptyLine \/ TryCom \/ FsReturns \/ More \/ Refused \/ Done
             \/ \E cmd \in Commands : BuiltIn(cmd)
Prompting == Prompt \/ Prompted
Loading == Open \/ HeaderShort \/ ReadHeader \/ HeaderInvalid \/ HeaderValid \/ Load
           \/ Check \/ StoreArg \/ AllStored \/ ProgramReturns
Next == Machine \/ Editing \/ Parsing \/ Executing \/ Prompting \/ Loading \/ Reset
Spec == Init /\ [][Next]_vars

----------------------------------------------------------------------------
(* TypeOK: the line, the words and the argument block stay in their arrays,   *)
(* whatever is typed (command_loop, command_parse, the store at 0x0600).      *)
LineTypeOK ==
  /\ line \in Seq(Chars) /\ Len(line) <= LINE - 1
  /\ shown \in Seq(Chars) /\ Len(shown) <= LINE - 1
  /\ argv \in Seq([from : 1..LINE, len : 1..LINE]) /\ Len(argv) <= ARGV - 1
  /\ at \in 1..LINE + 1
LoaderTypeOK ==
  /\ fd \in BOOLEAN
  /\ file \in Files \union {NoFile} /\ hdr \in Header \union {NoHeader}
  /\ image \in [file : Files \union {NoFile}, at : Word16, whole : BOOLEAN]
Offsets == 0..ARGSTR
BlockTypeOK ==
  /\ argc \in 0..ARGV - 1 \union {Unset}
  /\ table \in [0..ARGV - 1 -> Offsets \union {NUL, Unset}]
  /\ str \in [Offsets -> Chars \union {NUL, Unset}]
  /\ next \in 0..ARGV - 1 /\ strptr \in 0..ARGSTR + 1
TypeOK ==
  /\ pc \in {"crt0", "clear", "copy", "init", "ring", "tables", "main", "mount", "halted",
             "edit", "parse", "exec", "fs", "more", "open", "header", "headed", "load",
             "check", "store", "run", "done", "prompt", "getcwd", "lost"}
  /\ BootTypeOK /\ LineTypeOK /\ LoaderTypeOK /\ BlockTypeOK

(* LineIsShown: what Enter takes is what the user sees on the line; all that  *)
(* an earlier line leaves in front of it is blanks (command_exec returns      *)
(* early on an empty line, without its reset).                                *)
LineIsShown ==
  pc \in {"edit", "parse", "exec"} =>
    LET b == Len(line) - Len(shown)
    IN /\ b >= 0 /\ \A r \in 1..b : line[r] = Blank
       /\ \A r \in 1..Len(shown) : shown[r] = line[b + r]

(* FsInItsBank: whoever ran before and whatever banks it left, the filesystem *)
(* runs with RAM bank 63, where its lists are (also for SDINFO, which does    *)
(* not select it, and for the prompt), and what the processor fetches from    *)
(* the ROM window is the filesystem's code where the linker put it, also      *)
(* after a routine of the card has switched and come back.                    *)
FsStates == ReadsCard \union {"getcwd"}
FsInItsBank ==
  pc \in FsStates =>
    /\ rambank = SDRAMBANK
    /\ \A o \in {0, B2_SIZE - 1} :
         read(ROM_WINDOW + o, rambank, rombank) = Cell("rom", B2_IMAGE + o)

(* NoHandleLeft: no way out of the loader leaves its file open.               *)
NoHandleLeft == fd => pc = "header"

(* ProgramWhole: whatever sectors were let pass with a bad checksum, those of *)
(* the directory and of the header among them, a program that is started is   *)
(* all the payload that the checksum in its header is for, as on the card, in *)
(* memory behind the header at the address that is called, with nothing of it *)
(* outside user space, and its length is the header's, not just modulo 2^16.  *)
ProgramWhole ==
  pc \in {"store", "run"} =>
    /\ image = [file |-> hdr.payload, at |-> hdr.load, whole |-> TRUE]
    /\ hdr.load >= USER_START /\ hdr.load + hdr.payload.size < USER_END
    /\ hdr.len > 0 /\ hdr.payload.size = COM_HEADER_SIZE + hdr.len

(* ArgumentsInPlace: the program finds the words of the line, all of them, in *)
(* order and each as a string of its own, and a null pointer after the last.  *)
StringAt(o, w) ==
  /\ o \in Offsets /\ o + Len(w) \in Offsets /\ str[o + Len(w)] = NUL
  /\ \A j \in 1..Len(w) : str[o + j - 1] = w[j]
WordsOfLine ==
  /\ \A p \in 1..Len(line) :
       line[p] # Blank <=>
         \E j \in 1..Len(argv) : p \in argv[j].from..argv[j].from + argv[j].len - 1
  /\ \A j \in 1..Len(argv) - 1 : argv[j].from + argv[j].len < argv[j + 1].from
ArgumentsInPlace ==
  pc = "run" =>
    /\ argc = Len(argv) /\ table[argc] = NUL /\ WordsOfLine
    /\ \A j \in 1..argc : StringAt(table[j - 1], TextOf(argv[j]))

(* LoadsStayInUserSpace: a file that does not fit into the memory below the   *)
(* I/O page is refused ("File too large to fit in memory", command.c:444),    *)
(* not copied over it.                                                        *)
LoadsStayInUserSpace == pc # "lost"
=============================================================================
