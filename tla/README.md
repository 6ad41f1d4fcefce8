# ByteCradle 6502 operating system (BCOS): TLA+ models, checks and proofs

BCOS is a small operating system in ROM for a 65C02 board: a shell, a FAT32
filesystem on an SD card that is bit-banged through a VIA, a key buffer filled
by an interrupt handler, and an emulator of the board written in C++. This
directory holds TLA+ modules for the parts where order, failure or concurrency
decide whether the system is right, the TLC runs over them, and TLAPS proofs.

Paths below are relative to the repository root (`src/fs/fat32.c`, `emulator/...`).
Every definition that stands for code is listed with its lines in `PROJECT.json`
under `map`.

## 1. Inventory

| Component | Source | State it keeps | Operations | What is hard about it |
|---|---|---|---|---|
| FAT32 filesystem | `src/fs/fat32.c` | partition, current folder, path stack, 16-entry cluster list, entry list, 3 file handles, and the shared sector buffer SDBUF | mount, cd, ls, getcwd, mkdir, touch, open, read, close, load, sdinfo | several sector writes per mkdir, each may fail or be followed by a reset; one buffer for everything; fixed-size lists |
| SD driver | `src/fs/sdcard.c`, `sdcmds.s`, `crc16sd.s` | `sdcard_ignore_crc`, SDBUF | boot the card, read_sector, write_sector | bounded and unbounded polling; late answers; the user may ask to ignore mismatches |
| Key buffer | `src/isr.s`, `src/io.s` (getch) | ring TB, TBPR, TBPL | store a byte (interrupt), take a byte | handler and getch both move TBPL, with interrupts enabled |
| Command shell | `src/command.c` | line buffer and pointer, argv | edit a line, parse it, run a command | buffer bounds, what is reset when |
| COM loader | `src/command.c`, `src/crc16.c` | program memory, argument block | load, check header and CRC, start | check after load |
| Boot | `src/crt0.s`, `init.s`, `main.c`, `vectors.s` | zero page, pages 2 to 7, tables in RAM bank 63 | clear, copy, set up VIA and ACIA, tables, interrupts, mount, shell | each step relies on those before it and may undo them; memory and bank registers hold anything at power-up |
| Bank switching | `src/io.s`, the wrappers of `fat32.c` and `sdcard.c` | bank registers, saved banks | enter and leave the filesystem bank | wrappers inside wrappers; what a program leaves; RAM banks that are the main memory |
| Emulated SD card | `emulator/src/sdcardbasic.cpp` | input and output byte queues, write state, image | SPI byte exchange, CMD0/8/17/24/41/55/58 | command parsing resynchronisation, error state |
| Emulated VIA, ACIA | `emulator/src/via.cpp`, `acia.cpp`, `main.cpp` | port registers, key deque, interrupt line | clock edges, key presses | interrupt line against queue |
| Emulated boards | `emulator/src/bytecradlemini.cpp`, `bytecradletiny.cpp` | RAM and ROM chips, two bank registers | read and write of an address | windows onto banks; banks 0 to 3 are the main memory |
| Monitor program | `programs/monitor/*.s` | command buffer and its length, addresses, counters on the stack | assemble, disassemble, dump, write, run, quit | calls the ROM through a jump table, with its own constants |
| Sample programs, build scripts, tests | `programs/*`, `scripts`, `tests` | | | |

How they interact: the shell polls `getch` and calls the filesystem through
wrappers that switch banks; the filesystem transfers whole sectors through the
SD driver into SDBUF; the interrupt handler shares only the ring with the rest.
There is one flow of control plus the interrupt handler; the card is a second
actor that answers or does not; the user is a third, who types, answers the
question after a checksum mismatch, and resets the machine.

What makes each part correct:

* FAT32: the card stays a consistent FAT volume whatever fails; files that are
  there are never damaged; the entries grow one at a time; a read or load that
  says it succeeded delivers the bytes of the file, and all of them; the path shown is the place
  that calls work in; every call returns.
* Key buffer: a queue that loses only its oldest bytes; getch returns what it
  takes out; nothing is stuck.
* SD driver and card: an answer is matched with its command; a sector reported
  as read is the sector asked for; a write that is reported is there.
* Monitor: what is typed is what is stored, what is stored is what is listed; the
  stack is even whenever a command ends.
* Boot and banks: nothing is used before it is set up, nothing set up is undone,
  by the start or by a key that comes in between; the filesystem runs with its own
  banks.
* Shell and loader: the line stays in its buffer; nothing outside the program
  area is written; a program runs whole, where its header says, and gets the
  arguments typed.

`PROJECT.json` lists the hazards at their lines, each with the properties that
would notice it going wrong.

## 2. Modules

| Module | Stands for | Contents |
|---|---|---|
| `Fat32Disk` | the on-disk format as `fat32.c` reads and writes it | sectors, slots, FAT items, layout; below the box, the reference reading of a whole image that properties are stated with |
| `Fat32` | `fat32.c` over `read_sector`/`write_sector` | one action per sector transfer, one per routine that needs none |
| `Fat32Props` | | the properties, with `tree`, the files and folders that can be found on the card, as a history variable |
| `DirTree` | what mkdir, touch and cd promise | the abstract namespace: it only grows, by one fresh entry in the folder the user is in |
| `MCFat32` | | small cards and arguments |
| `NatRecursion` | | recursive functions on the naturals have values, and induction, from sets (for the proofs about chains) |
| `Volume_proofs` | | the TLAPS proofs of the filesystem's types, and of what it may do to a card in good order |
| `Tree_proofs` | | the TLAPS proofs about path and namespace, with the refinement of `DirTree` |
| `Reads_proofs` | | the TLAPS proofs that open, read and load deliver files |
| `KeyBuffer` | `isr.s`, getch of `io.s` | the handler as one action, getch one action per instruction |
| `MCKeyBuffer` | | three bytes |
| `Console` | `acia.cpp`, the chip's side of `isr.s` | the emulated ACIA and the handler's three steps, composed with `KeyBuffer` |
| `MCConsole` | | a chip and a ring that both overflow |
| `Console_proofs` | | the TLAPS proofs about the ring, and about chip, handler and getch together |
| `Board` | `bytecradlemini.cpp` | what answers at an address, and which cell of which chip it is |
| `Boot` | `crt0.s`, `init.s`, `main.c`, `makecrctable` of `crc16sd.s`, the wrappers of `fat32.c` and `sdcard.c` | the start, step by step, and the bank switches |
| `Shell` | `command.c` | the line editor, the parser, the dispatch of commands, the .COM loader and the argument block |
| `MCShell` | | words that call commands or do not, files at every limit of the loader |
| `Shell_proofs` | | the TLAPS proofs about start, banks, line, words, loader and argument block |
| `SdCard` | `sdcardbasic.cpp`, port A of `via.cpp` | the card as a record, one operator per method |
| `SdDriver` | `sdcmds.s`, `sdcard.c` | the driver bit by bit, composed with the card |
| `Crc16` | `crc16sd.s`, `crc16_xmodem` of `sdcardbasic.cpp` | the ROM's table-driven checksum and the card's shifting one |
| `SectorDevice` | what `fat32.c` takes the driver for | reads and writes of whole sectors that report honestly |
| `SdProps` | | the properties, and the refinement of `SectorDevice` |
| `MCSd` | | small cards whose bytes look like the protocol's |
| `Sd_proofs` | | the TLAPS proofs about driver and card, with the refinement of `SectorDevice` |
| `Assembler` | the tables of `optcodes.s`, `mnemonics.s`; the functions of `assembler.s`, `disassemble.s` | what a line assembles to, what an instruction is printed as |
| `Monitor` | `monitor.s`, the loops of `assembler.s` and `disassemble.s` | command line, dump, write mode, assembler and disassembler sessions |
| `MCMonitor` | | what a user types, and a memory with every instruction in it |
| `Monitor_proofs` | | the TLAPS proofs about the monitor's stack, writes, listings and dumps |

### Fat32

`pc` is where the routine in progress stands; `"prompt"` means that the shell
waits. A routine starts with an action of `Call` (its argument checks, whatever
it decides before its first transfer), goes on with one action per sector
transfer, and ends with `Return(v)`. `job` holds the routine's arguments, `ll`,
`next`, `ctr` and `sec` are `fat32_linkedlist` and the loop variables, `files` is
`fat32_files`, `handles` is `fs_open_files`, `path` and `cur` are the path stack
and the current folder.

A transfer has these outcomes. `ReadSector`: the sector arrives; or no good data
arrives and the user says, or said earlier, to go on. `ReadRefused`: the user
says no. `WriteSector`: stored. `WriteFailed`: an error is reported and the
sector is or is not stored, since a late answer tells nothing. `Reset` may come
between any two transfers, and leaves only the card (and SDBUF, which the next
mount overwrites). An address beyond the end of the card, which a FAT entry may
lead to (no bound is checked but $0FFFFFF8), brings no data either. A call mapped to a name goes through `FollowChain`,
`DirChainDone`, `ScanSector` and its own `Finish...` action, as the C code goes
through `fs_fat32_build_linked_list`, `fs_fat32_read_dir` and the search. `ls`
waits for a key behind each `PAGE` lines (`"paging"`, `ListingKey`).

A FAT entry has four reserved bits. `FatEntry` is what it says without them,
`RawEntry` what is stored: `FindFreeCluster` and `WithItem` mask them, as the code
does, and `FollowChain` does not (`fat32.c:1113`): an entry with one of them set ends the chain
there, and open and load see the file cut off. The cards of the runs have reserved bits in
free entries only, and so do the cards of the theorems (`ChainClosed`).

`LoadStep` follows `fat32.c:1071`, whose loop has no bound: it ends when the size is reached
or when the list has an unused entry, which a list of exactly `LLSZ` clusters has
not. It then reads on: `Behind` is what may stand in the words behind the array
(the compiler puts `fat32_current_folder` there, its name first), each of them a
cluster number as good as any or the end of the list. `ListMayEnd` and
`ListGoesOn` say when the list may be found to end there and when it may not.

`GrowsByOneEntry` instantiates `DirTree` with the real card as its state: the
detailed module implements the namespace, step by step, faults included.

### KeyBuffer

The processor masks interrupts while the handler runs, so `Isr` is one action.
`getch` reads TBPL, compares it with TBPR, reads TBPL again, reads the slot and
increments TBPL in memory: five actions, with the handler possible between any
two. `q` is a history variable: the unread bytes, were the ring a queue. `stale`
says whether a full ring lost a byte since getch last read TBPL; two properties
hold only without that, and the run `keybuf_full` shows what happens with it.

### Console

`keypress` is `ACIA::keypress`, `CheckStatus` and `ReadData` are the handler's
reads of ACIA_STAT and ACIA_DATA (`ReadData` with the whole `Isr` of `KeyBuffer`
behind it), and `Interrupt` is the processor taking the interrupt, which it does
before its next instruction whenever the line is up. Keys come between any two
of these. The emulator's loop (`main.cpp`) polls the keyboard at fixed times and
catches up after a delay, so that two keys may indeed come while one run of the
handler lasts. The line is the chip's own `irq` flag, which the 6502 core
samples; the core is outside the repository's sources.

### Shell

`pc` is where `command_loop` stands: `"edit"` waits for a key, `"parse"` takes
one word per call of `strtok` (`NextWord`), `"exec"` looks the first word up
(`BuiltIn`, or `TryCom` for anything else), `"fs"` and `"more"` are inside a command,
`"open"` to `"run"` are the stations of `command_try_com`, `"prompt"` and
`"getcwd"` are `command_pwdcmd`. `line` is `command_buffer` up to `command_ptr`;
`shown` is a history variable, what the user sees of it. `argv` points into the
line, so the `memset` at the end of `command_exec` takes both (`ResetLine`).

The loader looks a name up twice, first to read the header, then to load, and
believes whatever comes over once a user has answered Y to a checksum mismatch.
So `hdr` is the header as it was read: the file's own or, from a sector with a bad
checksum, one of `Headers`; and `file` is the directory entry as last read, which `Load` takes
anew. The ways out of `command_try_com` are `Refused` (no such file; the load gives up before
its first copy), `HeaderShort`, `HeaderInvalid` (the two refusals that look at the header only), the
failure of `Load`, the refusals of `Check` (`~Runs`, five of them), and `ProgramReturns`; each
path that has had the file open has a close of its own. What the checksum of the payload does for the rest is
`ProgramWhole`. It does not cover the header: with a wrong bit in its address, and an
answer of Y, a whole payload is started where it was not linked for (`command.c:461`,
`sdcard.c:163`), and nothing in the code keeps it from that.

Calls into the filesystem succeed or fail, what they do is in `Fat32`. The memory
is kept as far as somebody relies on it: `image` is what was copied last, where,
and whether it is whole; `argc`, `table` and `str` are the argument block. A copy
that reaches the I/O page ends in `"lost"`: what writes to the chips' registers do
is nobody's promise, and only `Reset` leads out of it. `Reset` comes only there
and out of a running program; anywhere else it would lead to the initial state
and teach nothing.

Two things that the model shows and a reader may not expect. `command_exec`
returns early from an empty line, before the `memset`: blanks stay in front of
the next line, which `LineIsShown` allows, and 39 of them leave no room until
they are erased. And the check of `command_try_com` for the end of the program area
(`command.c:443`) comes after the copy (the run `shell_load`).

### Boot and Board

`Shell` extends `Boot`, so that one behaviour goes from power-up, with junk in
memory and anything in the bank registers (`PowerOn`), through the steps of
`crt0.s` and `init_system`, `main` and the mount, to the prompt; without a card it
ends in `"halted"` (`main` returns, and `crt0.s` executes an rts with nothing on
the stack). Of the memory, `mem` has the cells somebody relies on: the ring and
its indices, the soft stack's pointer, the initialised and the cleared data, user
space, the checksum tables, which lie in RAM bank 63 (the cell of the chip is
computed by `Board`, so that writing them with another bank selected goes
elsewhere). The addresses are those of the linker layout that
`generate_bcos_artifacts.py` writes.

A reset of the processor disables interrupts. A jump to the reset vector does not,
and nothing in `crt0.s` does, so that a start out of a running program may have
them on from its first instruction (`irq` in `PowerUp`). `isr` is the handler at
that time: it stores a key where the write pointer says, which may be anywhere in
the ring as long as the pointer is junk, and moves the pointers on from whatever they
hold. Between the loop of `clear_zp` and its last two instructions a key finds one
pointer moved and both cleared again (`ClearZp`, `ClearRing`). `BootInOrder` says that
whatever came in between, the prompt finds everything set up.

`frames` is the stack of banks saved by the wrappers in progress. A call of the
filesystem is `fs_bank_enter`, any number of sector transfers, each of which
(`SectorCall`, `SectorReturn`) enters and leaves once more, and `fs_bank_exit`;
`fs_bank_exit_enter` is one call following another. `ReadsCard` in `Shell` says at which
of the shell's stations a call is in progress. What such a call does to the card
is in `Fat32`; here it is what it does to the banks.

`Board` has the board's reading of an address, and which writes it ignores.

### SdDriver and SdCard

The driver hands `spi_send` a byte (`Send`) or waits for one of `spi_recv`
(`Recv`); `SendBit` and `RecvBit` are the bodies of the two bit loops, each write
to VIA_PORTA going through `update_outputs` into the card, which shifts on the
rising edge and digests a byte after eight. The routines go on when the byte
is through: `Sdopen`, `Select`, `SendCommand`, the `Answer...` actions, `Sdclose`
and `Deselect` are the frame of every command, `WaitToken` to `WaitBusy` the
loops of `sdcmd17` and `sdcmd24`, `BootStep`, `ReadResult` and `WriteResult` what
`sdcard.c` does with the answers, `Answer` the user's Y or N. `TakeOut` is the
user pulling the card: from then on the data line stays high. `Restart` is a
program that jumps to the reset vector: the driver's variables are cleared, the card and
its lines stay as they are, and the card is booted again.

`IsSectorDevice` instantiates `SectorDevice` with the card's image and
write-back map as the store: driver, wires, card and checksums together do what
the filesystem counts on, and what `Fat32` assumes of a transfer is what
`SectorDevice` allows (an error may or may not have stored the sector).

### Monitor and Assembler

`where` is the routine that waits for a key (`"loop"`, `"write"`, `"asm"`, `"disask"`,
`"dumpask"`), that works (`"dis"`, `"dump"`), or has left the monitor (`"shell"`,
`"run"`). `"astray"` is where an rts finds no return address, a search no end, or
the monitor has overwritten something that is not followed; only `Reset` leads out. `CMDBUF` and `CMDLENGTH` are the buffer and the length
that the code keeps apart: `Backspace` shortens the line and leaves the buffer,
`ClearCmdBuf` clears ten bytes of sixteen, and the parser reads the buffer. So a
command that was taken back is executed by RETURN on an empty line, and digits
of an earlier line may end up in a later instruction: `AssemblesTheLine` holds of
lines with nothing behind them (`Clean`) and of no others. After `LDA      1234` the line
`LDA (12),Y` is stored as B1 23 12 and listed as `LDA (23),Y`; what holds of it is that the listing is
what memory holds (`ListingIsMemory`).
`stack` is what a routine has pushed and not yet pulled. `listed`, `base`,
`typed` and `range` are history variables.

The memory is the board's (`Board`). `Cells` are the cells of free memory that are
followed; the monitor's own greeting says where free memory begins (`FREE`), and it ends at
the chips. A write to ROM is ignored (`IsRom`), as the emulated board does. A write
anywhere else, to the zero page with the ring's indices, to the stack, to the OS, to the monitor or to
a chip, may change everything that follows; there the model stops following
(`WriteAstray`, `AsmAstray`). `Image` is what is read outside `Cells`, ROM and chips
included; a dump or a listing has no use for it but to show it.

`Assembler` has both tables as the sources have them: `Mnemonics` and `Modes` are
`optcodes.s`, by code, for the disassembler; `Datasets` is `mnemonics.s`, a row of
mode and code for each mnemonic, through which `Dataset` and `getoptcode` search. `Text` is
what the disassembler prints. `TypesBack` puts the two together: every code that
the disassembler shows is in the assembler's table under the same mnemonic and
mode, so that an entry changed in one file only is noticed, and a printed line
assembles to the bytes it was made from. The latter leaves out the modes that the
disassembler prints like another one (`LDA 12,X` as `LDA (12,X)`, `JMP (1234,X)`
without its first parenthesis) and those that `getmode` has no shape for (`(12)`,
`12,34`).

## 3. Runs

| Run | Question | Result |
|---|---|---|
| `fat32_dirs` | mkdir, touch, cd, ls in any order with failed reads and writes and resets anywhere | holds |
| `fat32_files` | open, read, close, load, cd on cards with long, looping, empty and split files and chains shorter than their files, with failed reads | holds |
| `fat32_path_limit` | does the prompt show the folder that calls work in? | no: `fs_chdir_impl` moves first and checks the depth afterwards |
| `fat32_one_fat` | do entries stay on the card? | no, if the volume has one FAT: the mirror write goes to the root directory |
| `fat32_ignore_crc` | do mkdir and touch write back what the folder held? | no, once the user has answered Y: a read without data leaves the sector read before |
| `keybuf` | keys at any time, the handler anywhere in getch, chip and ring that overflow | holds |
| `keybuf_full` | does getch take out the byte it returns? | no, if the ring overflows half-way |
| `console_stuck` | does every key get from the chip into the ring? | no: reading one byte takes the interrupt back, and a second one waits until the next key |
| `shell` | lines of words and blanks, built-in commands and programs, from files at every limit of the loader, reads that fail, folders, headers and payloads that came over wrong and were let pass, programs that leave any bank or jump to the reset vector with interrupts on, all from power-up with any bank registers | holds |
| `shell_load` | does a file that does not fit stay out of the I/O page? | no: it is copied before its size is checked |
| `sdcard` | boot, reads, writes and restarts in any order, bit by bit, with a card that may be pulled out | holds |
| `monitor` | three inputs out of some sixty, one after the other: commands, edits, lines of the assembler, bytes, a disassembly of all instructions | holds |

The properties are stated in `Fat32Props`, `KeyBuffer`, `Console`, `SdProps`, `Boot`, `Shell` and `Monitor`, each with a comment.
`PROJECT.json` pairs each property of a passing run with a mutation of the code
(an off-by-one, a dropped step, a swapped order) under which it fails.

### Bounds

* Cards (`MCFat32`): FAT sectors of 6 or 8 entries and directory sectors of 3 or
  4 slots instead of 128 and 16, clusters of 1 and 2 sectors, 1 or 2 FATs of 1
  or 2 sectors. `FIRST_FREE` = 3 is the code's own. Six entries leave three
  or four free clusters: a folder fills up, the card fills up, and a cluster lost by a
  cut-off mkdir is still there to be missed. Free clusters hold junk that looks
  like entries, so that a folder that is not cleared is noticed.
* `LLSZ` = 2 or 3 (16), `MAX_FILES` = 4 or 5, `MAX_DEPTH` = 2 or 3 (16),
  `MAX_OPEN` = 1 or 2 (4): each is small enough to be hit and passed.
* `SECTOR` = 2 bytes and `ReadLens` = {1, 3}: reads that start and end in the middle of a
  sector, at its end and beyond the file. `LOAD_LIMIT` = 8.
* Names: two that are legal and one that is too long. Every name is legal or
  not; the letters matter to no property. `Text` is what a name's parts may be
  (all strings here; the proofs need only the few that the code itself writes).
* A card of `fat32_dirs` has a folder in the root directory whose ".." says 0, as other
  systems write it, and reserved bits in its free FAT entries. A card of `fat32_files`
  (`FullLists`) has files whose chains end before, at and behind the file's end,
  with as many clusters as the cluster list holds, one more, and fewer. `Behind` = {0, 30}
  are two words behind the list, the root directory's name (zeros) and one that leads beyond the card;
  `PAGE` = 2 lines (24).
* `MCFat32` also checks (`CardsInOrder`) that the cards of `fat32_dirs` and two cards of
  `fat32_files`, the one with short chains among them, satisfy what the theorems
  of `Volume_proofs`, `Tree_proofs` and `Reads_proofs` ask of a card (`GoodCards`, `Tidy`).
* Ring and chip: N = 4, CAP = 2 and three keys, of which one is the line feed
  that the handler turns into the carriage return, another of the three. Both
  overflow, the write index laps the read index, both wrap. `keybuf_full`
  uses three plain bytes and no chip. The proofs cover every
  N >= 2 and every CAP >= 1.
* `SdDriver`: sectors of 6 bytes (512), the fewest that hold the six bytes of
  the command that `sdcmd17` builds in the buffer; all loops keep the code's own
  limits (8 and 32 tries). Sectors 0 and 2 of two cards, one whose image is
  written to and one read-only; on the first, sector 2 is beyond the end. The
  sectors hold the data token, idle bytes, an R1, a data response, the first
  byte of CMD17: whatever could be mistaken for protocol. Sector numbers are
  below 256 (one address byte in use). The card is pulled out between two bytes.
* `Shell`: LINE = 6 (40), ARGV = 3 (20), ARGSTR = 6 (79) over a blank and one letter:
  the line, the words and the argument block fill up. A word is known by its
  length: one letter is MKDIR, two MORE, four SDINFO, five LS, and three are the name of a program,
  which leaves it two arguments, itself among them; the other commands do to the shell what one of
  these does. The files have the code's own numbers: load addresses at both ends of user space and
  below it, payloads that end at the I/O page's edge, in its last sector and in it, a chain that is too short and none at all,
  half a header, a wrong checksum and a wrong version. `MCHeaders` are headers with another address,
  another length and another checksum. `shell_load` has the same with a line one shorter. The proofs
  cover every line, every size, every file and every header.
* `Boot`: `PowerOn` = {2, 200}: the bank in which the driver's code happens to be, and
  a number beyond the register's six bits; `RomBanks` = {8} and `Banks` = {0, 63} are what a
  program leaves. The proofs cover all of 0..255.

* `Monitor`: the buffer and the tables have the code's own size. `MAXSCRIPTS` = 3 of
  the inputs of `MCScripts`, one after the other: a command, a line in the mode
  it leads to, and what follows. Every addressing mode is assembled, and every
  refusal of the parser met. `MCCells` are the first eighteen cells of free memory, more than a row
  of sixteen, and the last two below the chips. Writing and assembling begin at 2000, in the middle, at
  7EFE, where the third byte goes to a chip, and at FFFE or FFFF in ROM, behind which it
  would go on with the zero page. The rest of the
  memory is fixed and holds, from 3000 on, each of the 256 codes with operands, 25
  screens of disassembly.

### Fairness

`Fat32`: `WF(Step)`: a routine that has been called goes on; calls, resets and
which fault happens are not forced. Resets are off in the run that checks
`RoutinesReturn`; a reset ends a routine anyway. `KeyBuffer`: `WF(Reader)`: the
processor executes its next instruction, and `command_loop` is called for ever
by `main`. `Console`: `WF(Handler \/ Program)`, the same processor, which is either in the
handler or in the program. Nothing is assumed of the keyboard: keys may come or stay away, and
`KeysAreRead` is about the time after the last one. `SdDriver`: `CpuRuns`: while a
call is in progress the driver goes on. This is `WF_vars(Driver)` with ENABLED
written out, since a driver in a call always has a next step (the run would
report a deadlock otherwise). The user need not answer, and the card is not
asked to be fair: it moves only when the driver clocks it.

## 4. Proofs

`Console_proofs` proves of the ring alone, for every ring size N >= 2 and every set of bytes:
`TypeCorrect`, `RingCorrect`, `OldestDelivered`, `NoKeyCorrect` (the properties
`TypeOK`, `RingIsQueue`, `DeliversOldest`, `NoKeyMeansEmpty`).

The argument: `RingIsQueue` says that the slots from TBPL to TBPR spell the
queue. By itself it is not inductive, because `inc TBPL` on an empty ring would
break it. `GetchKnows` adds what getch knows at each instruction: past the
compare the queue is not empty (nobody else empties it; the handler discards
only to store), and what A and X hold is up to date unless `stale`.
`IInv == TypeOK /\ RingIsQueue /\ GetchKnows` is inductive. The lemmas are the
arithmetic of a ring with wrap-around (`DistanceRange`, `DistanceStep`,
`PlaceRange`) and the two moves of a queue inside it (`TakeKeepsQueue`,
`StoreKeepsQueue`). The only assumption is `N \in Nat /\ N >= 2`.

Of chip, handler and getch together it proves, for every chip and ring, `InterruptCorrect`
(`InterruptMeansKey`), `OrderKept` (the action property `KeysKeepOrder`) and
`ConsoleKeepsRing`: the composition is a behaviour of the ring, so the four
theorems above hold of it. The invariant is `CInv == IInv /\ InterruptMeansKey`; the
second part gives that what the handler reads is a byte that somebody typed,
without which a step of the handler would not be a step of `KeyBuffer`. Order
is kept because the three ways a key moves (`FrontLeaves`, `HeadCrosses`,
`EndGrows`) leave ring and chip, read one after the other, one line. Assumed:
CAP >= 1, line feed and carriage return are bytes.

`Shell_proofs` proves for every size of the line buffer, the word table and the
argument block, every card and every program: `TypeCorrect`, `LineCorrect`
(`LineIsShown`), `BankCorrect` (`FsInItsBank`), `HandleCorrect` (`NoHandleLeft`),
`ProgramCorrect` (`ProgramWhole`: of the payload; the header as read is what it speaks of) and `ArgumentsCorrect` (`ArgumentsInPlace`). The
strengthenings are: `BankKnown` (another bank is selected only between a program's
return and the prompt), `LoaderKnows` (what is known of the header as read, `HeaderFine`, and which checks are
behind the loader;
`LengthExact` then shows that lengths that agree modulo 2^16 agree, since the
whole file lies below the I/O page), `LineInv` (what the screen shows is the end of
the line, and a line without words is blank), `WordsInv` (the words lie one behind
the other, a blank between them, and before strtok's position everything that is
not blank belongs to one) and `BlockInv` (the strings lie the same way, so that no
string starts behind its word). The last one gives that the truncation in
`command_store_program_args` never happens. `ShellAssumption` holds of the code: a
buffer and a table of at least two entries, and ARGSTR >= LINE (79 and 40); without
it arguments would be cut.

`Shell_proofs` proves of the same specification, which begins at power-up, for every content of the bank
registers and for a jump to the reset vector with interrupts on or off: `BankCorrect`
(`FsInItsBank`), `BootCorrect` (`BootInOrder`). `BankInv` knows at each station which banks are
selected and how many saved ones are waiting (two at most, each what six bits
keep); `MemInv` knows after each step of the start which cells are set, that
the tables' cells lie in no range that a later step fills, and that a key which
comes in between leaves what is set as it is and makes no pointer junk again.

`Volume_proofs` proves `TypeCorrect` (`TypeOK` of `Fat32Props`) for every card,
also one whose FATs and folders hold anything at all. `TypeInv` adds what the
types of the other variables are, which list each loop walks, and that a list is
only walked at a time when it has the sectors it says.

It also proves, of every card in good order (below) and every sequence of
failed reads, failed writes and resets: `SecondFatCorrect` (`SecondFat`),
`EntriesCorrect` (`EntriesAllocated`), `FilesKept` (`FilesKeepContents`),
`EntriesStayCorrect` (`EntriesStay`), `WritesBackCorrect` (`WritesBackWhatIsThere`).
The hypothesis is `GoodCards`: no user answers Y to a checksum mismatch (the run
`fat32_ignore_crc` shows what happens then), and each card can be mounted, has a
second FAT (`fat32_one_fat`) that agrees with the first, and has two disjoint sets
of allocated clusters with no reserved bit in their FAT entries, D for folders and F for files, closed under the FAT's
chains, with the root in D and every entry in a cluster of D leading to D or F.
The argument: `VolInv(D, F)` says that the card is in such an order for some D and
F, that the layout in memory is the card's, that folder and path are in D, and
how far a mkdir has come (`FatStage`, `ClearStage`, `LinkStage`): the cluster it
took is in neither set until the entry is written, and joins D then. A step
writes to the FAT sector of a free cluster, to the cluster a mkdir took, or to an
unused slot of a folder; the first two change nothing that can be reached from
the root (`TreeStays`), the third adds one entry (`TreeGrows`). The sets are
needed because the tree itself is no invariant to argue with: what is reachable
is defined over the whole card, and a write has to be judged cluster by cluster.

Induction over data: the library's induction theorems take an operator as a
parameter, which no installed prover can instantiate. `NatRecursion` does
without: induction is stated over sets of numbers, and a recursive function's
existence is proved from the set of its finite beginnings. That is enough for
the chains of clusters, which are functions of a step number.

`Tree_proofs` proves, of the same cards, `PathCorrect` (`PathIsReal`), and of those
that are tidy besides (`TidyCards`), `NoSharedCorrect` (`NoSharedClusters`),
`CompleteCorrect` (`FoldersComplete`) and `NamespaceCorrect` (`GrowsByOneEntry`: every
step, completed, failed or cut off, is a step of `DirTree` or a stutter). Tidy
means, and the FAT format asks for it: the chain of every folder ends, behind the
slot that ends a folder all slots are free, no two entries share a cluster, each
folder has its dot entries (".." of a folder in the root directory may say 0, as
other systems write it, or the root's number, as `fs_mkdir` does: `NamesOf`), a cluster's number is not an end of chain, and the
card is large enough for the clusters that mkdir takes. It is kept as well, which
is what `NoSharedCorrect` and `CompleteCorrect` rest on. The invariant is `NamespaceInv`,
`VolInv` and `Tidy` with `PathInv` (each folder on the path is an entry of the one
before), `JobInv` (the name in hand is none of the dots), `WalkInv` (the list holds the
beginning of the folder's chain, the sectors read so far do not end the folder,
what was found lies in it) and `NewDirInv` (which sectors of a new folder are
written). With it a written entry goes to the slot that ends the folder, where
nothing behind it comes to light, and mkdir's leads to a cluster that is complete
and that nobody else has, because linking comes last. `PathCorrect` needs the path
only (`PlacesInv`), hence no tidiness.

`Reads_proofs` proves, of cards in good order, whatever the chains of their files, `HandlesCorrect`
(`HandlesMatchDisk`), `ReadsCorrect` (`ReadsAreFileBytes`) and `LoadsCorrect`
(`LoadsDeliverFile`): a load delivers the bytes of the chain as far as the size goes,
also when it then reads past its list. That these are all the bytes of the file
is not so when the chain is shorter than the size: the load ends with success all the same (`fat32.c:1089`). The bytes of a chain are a sequence (`Bytes`), and `FilesInv` says
that an open or a load has followed the beginning of the file's chain, that an
open handle is worth what `fs_open` found, and that what a routine in progress has
copied is a stretch of that sequence which ends where the routine stands. A copied
sector continues the stretch (`StretchesJoin`), over a cluster's end too. No write
changes a file's chain or bytes, since files lie in F. `LLSZ < EPF` is assumed: the
cluster list is shorter than a sector of the FAT (16 and 128), so that a chain
which fits into the list is not one that runs in a circle.

`Monitor_proofs` proves, for any keys, any number of scripts, any contents of memory
and any part of free memory that is followed:
`TypeCorrect` (`TypeOK`), `StackCorrect` (`StackBalanced`), `WritesCorrect` (`WritesInOrder`),
`ListingCorrect` (`ListingIsMemory`) and `DumpCorrect` (`DumpShowsAll`). Types and stack
depend on each other: the offset of write mode and the row count of a
disassembly are what the stack has on top. A typed byte overwrites none of those
before it, because writing never comes around: behind the last address lies the zero page, which is
not followed (`NoWrap`). In the same way a listed instruction ends before the place where the next
one goes, or the address has just come around and nothing can be stored there (`AllBefore`,
`EndsBefore`). Of a dump the rows left and the rows
shown are those of the range (`DumpInv`), as long as the range begins with a page;
`hexdump` shows any other from the start of its page (`R2008:2010` shows 2000 to 200F), and misses its end.

`Sd_proofs` proves, for every size of a sector from six bytes up, every set of cards, of
addresses below 256 and of sectors, and every pair of checksums: `TypeCorrect` (`TypeOK` of
`SdProps`), `InStepCorrect` (`InStep`), `NoFalseAlarmCorrect` (`NoFalseAlarm`), and twice
that driver, wires and card are a `SectorDevice`: `DeviceCorrect` and
`StayingDeviceCorrect`. The invariant is `SdInv` (`SdInvariant`). Seven bits out of eight, driver
and card stand in the middle of a byte, where nothing that a property speaks of is
true yet. So the invariant speaks of the time when the byte is through: `After` is the card
as it will be then, `Got` what the driver will have received. `WireInv` says that both
sides have moved the same number of bits and what the shift registers hold. A step that
moves a bit keeps `After` and `Got`; only a step that starts a byte decides them, and
of those there is one for each place in the driver. `Station` says at which place of
the same command the card stands (which bytes it has taken, which answers are still on their
way), `Outcome` what the driver may make of its answers, and `StoreInv` that the card
holds what it held before the call or, at the address of a write, the call's
data, also when the card is pulled or the system started again in the middle.
`handle_cmd24_payload` loops over a queue; `PayloadFold` shows that the queue is one byte
long there, so that the loop needs no induction.

What these theorems suppose, beyond that a card's checksum has 16 bits:

* `ChecksumsAgree`, for `NoFalseAlarm`: the ROM's routine and the card's compute the same of every
  sector in question. That is a fact about two recursive computations; `sdcard`
  runs with the real ones.
* `LongEnough`, for `DeviceCorrect`: a card that can be written holds every address asked
  for. A write beyond the end of the image makes the sectors in between, and after a
  read beyond it the emulator accepts every write and stores none (section 5).
* `ChecksumTells`, for `DeviceCorrect`, at every moment: when a read was not answered, or its card is gone,
  what lies in the buffer does not match its checksum by chance. `read_sector` returns data
  after a failed command if it does, since it looks only at the checksum. No 16-bit
  checksum can promise this, so it is a hypothesis about the behaviour; it holds in
  every state of the run `sdcard`. `StayingDeviceCorrect` supposes nothing about
  checksums: cards that stay in the slot, can be written and hold every address asked for
  answer every read.

What is only model-checked: the monitor's `TypesBack` and `AssemblesTheLine`, because the
provers know nothing of the characters of a string; that the two checksum routines agree;
what the runs that expect a violation refute; and all liveness
(`KeysAreRead`, `RoutinesReturn`, `DriverReturns`), which the proof system cannot do.

## 5. Abstractions

* `RESERVED` is 2^28 in the code: a FAT entry at or above it has reserved bits set. `EOC`
  stands for $0FFFFFF8 to $0FFFFFFF, the numbers that end a chain.
* Names are a stem and an extension as members of small sets; upper-casing and the
  order in which ls prints are left out. The list is read anew before every
  search, which clears `fs_dir_sorted`: the search is the linear one.
* A sector transfer is atomic on the card. What a sector of another kind spells
  when read as a FAT or directory sector is taken as an end of chain and as
  entries that are neither free nor found.
* A checksum mismatch with data that did arrive is part of the case "no good
  data": SDBUF keeps its previous contents with the command bytes over them.
* `fs_fat32_read_partition` fills `fat32_partition` before it validates it; the
  model assigns it when valid. `main` gives up otherwise, so nobody sees it.
* Bank switching is in `Boot` and `Shell`, not in `Fat32` and `SdDriver`: those two are
  about the code that runs once the banks are right, which `FsInItsBank` shows.
* `Boot`: the set-up of VIA and ACIA and the banner change nothing that another
  step relies on. A step that fills memory is one action, with interrupts between
  them if they were on when it started. `CopyData` stands for zerobss, copydata and initlib:
  zerobss finds what `clear_mem` left.
* `DriverReturns` assumes that the card stays in its slot: without a card, `sdcmd17`
  waits for the data token for ever if it was pulled after the first answer.
* `Restart` of `SdDriver` comes between calls: the emulator has no reset button, and a
  program gets the processor only there. `Fat32`, where a transfer is one step,
  has resets everywhere.
* Cards whose image can be written and which end before the sectors asked for
  are left out of `sdcard`: after a read beyond its end such a card answers
  "accepted" to every write and stores none (`failed` in `SdCard`).
* The interrupt handler's early exit (no byte waiting) is a stuttering step.
* `Shell`: `LS` stands for LS and DIR; upper-casing and the eight characters of a
  name, the paging of MORE and the text of HEXDUMP are left out. The payload's checksum is
  taken to tell a good payload from a bad one, and the payload of one file from
  that of another. `good` says that no sector of it was let
  pass although its checksum was wrong.
* `Monitor`: a program that is run returns, or hangs until a reset, and leaves the
  monitor's memory alone. What a listing or a dump reads outside `Cells` is `Image`, the chips'
  registers included, whose reading may have effects; what a line or a byte
  overwrites there ends in `"astray"`. Messages and the layout of dumps and listings are left
  out. The zero page behind CMDLENGTH, which a search may reach, is zero.
* HEXDUMP reads whatever address it is given, the chips' registers too, and a read of
  the serial chip's data register takes the key that waits there from the interrupt
  handler. `Shell` and `KeyBuffer` leave that out: they take HEXDUMP to read memory.
* `clearcmdbuf` writes the monitor's own zero page, which `KeyBuffer` does not have.

Not modelled: text output (formatting, no state); the memory test of `ramtest.c`,
which nothing calls; generated jump tables (addresses); the tiny board, which has
no banks and cannot run this system; the emulator's clock loop and the 6502 core,
which is outside the repository; sample programs, which run once and leave what
`Shell` allows a program to leave; build scripts and tests.

## 6. Plan

1. `Fat32*`, `DirTree`, `KeyBuffer` (done).
2. `SdCard`, `SdDriver`, `Crc16`, `SectorDevice`: the driver against the emulated
   card, shown to be the device the filesystem counts on (done). Left: addresses
   beyond 255.
3. `Shell`, `Shell_proofs`: line editor, parser, dispatch and COM loader of
   `command.c`: bounds of the line, argument block, order of load and check (done).
4. `Console`, `Console_proofs`: host keys, the deque and the interrupt line, composed with
   `KeyBuffer` (done).
5. `Assembler`, `Monitor`: command line, write mode, dumps, assembler and
   disassembler over their two tables, checked against each other (done).
6. `Board`, `Boot`: start, banks and memory map, proved in `Shell_proofs` (done).
7. `Volume_proofs`, `Tree_proofs`, `Reads_proofs`: types, what may happen
   to a card, the namespace, and what reads and loads deliver (done).
8. `Monitor_proofs`: stack, writes, listings, dumps (done).
9. `Sd_proofs`: types, framing, and the refinement of `SectorDevice` (done).
