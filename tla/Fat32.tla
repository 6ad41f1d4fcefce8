------------------------------- MODULE Fat32 -------------------------------
(* The filesystem of the BCOS ROM (src/src/fs/fat32.c) on top of its sector   *)
(* driver (read_sector and write_sector of src/src/fs/sdcard.c), one action   *)
(* per sector transferred, so that a failed transfer or a reset can come      *)
(* between any two of them.                                                   *)
EXTENDS Fat32Disk

CONSTANTS
  SECTOR,       \* bytes in a sector (512 in the code)
  MAX_OPEN,     \* FS_MAX_OPEN_FILES
  MAX_DEPTH,    \* FS_MAX_PATH_DEPTH
  MAX_FILES,    \* MAXFILES
  LOAD_LIMIT,   \* files of this many bytes or more are not loaded ($7500)
  BOOT_RETRIES, \* FS_SD_BOOT_RETRIES
  FIRST_FREE,   \* the lowest cluster mkdir may take (3)
  PAGE,         \* lines that ls prints before it waits for a key (24)
  Behind,       \* what the words of memory behind fat32_linkedlist may hold
  Cards,        \* disk images the card in the slot may hold
  MkdirArgs, TouchArgs, ChdirArgs, OpenArgs, LoadArgs, ReadLens, \* what callers pass
  Faults        \* which of "boot", "read", "write", "yes", "reset" can happen

ASSUME FatAssumption ==
  /\ {SECTOR, MAX_OPEN, MAX_DEPTH, BOOT_RETRIES} \subseteq Nat \ {0}
  /\ {MAX_FILES, LOAD_LIMIT} \subseteq Nat /\ FIRST_FREE \in Nat \ {0, 1}
  /\ PAGE \in Nat \ {0} /\ Behind \subseteq Nat /\ ReadLens \subseteq Nat
ASSUME CardAssumption ==
  \A card \in Cards : DOMAIN card \subseteq Nat /\ card \in [DOMAIN card -> Sector]
(* What stands before the first dot of an argument has no dot in it.          *)
ASSUME CallAssumption ==
  /\ \A arg \in MkdirArgs \cup TouchArgs \cup ChdirArgs \cup OpenArgs \cup LoadArgs :
       arg.stem \in Text \ {".", ".."} /\ arg.ext \in Text
  /\ Faults \subseteq {"boot", "read", "write", "yes", "reset"}

VARIABLES
  disk,       \* the card: LBA -> sector
  sdbuf,      \* SDBUF, the one sector buffer
  ignoreCrc,  \* sdcard_ignore_crc
  part,       \* fat32_partition
  cur,        \* fat32_current_folder: name and cluster
  path,       \* fat32_fullpath[0 .. fat32_pathdepth - 1]
  handles,    \* fs_open_files
  pc,         \* where the routine in progress stands ("prompt": none is)
  job,        \* that routine's arguments and the name it looks for
  ll, next,   \* fat32_linkedlist up to its first $FFFFFFFF, and nextcluster
  ctr, sec,   \* cluster (1-based) and sector within it of the loop in progress
  files,      \* fat32_files[0 .. fctr - 1]
  mem,        \* bytes copied to the caller's memory by the last load or read
  ret         \* what the last routine returned and showed

sdVars == <<disk, sdbuf, ignoreCrc>>
dirVars == <<part, cur, path>>
loopVars == <<ll, next, ctr, sec, files>>
vars == <<sdVars, dirVars, handles, pc, job, loopVars, mem, ret>>

NoPart == [lba |-> 0]
NoFolder == [name |-> Name("", ""), cluster |-> 0]
RootFolder == [name |-> Name("", ""), cluster |-> part.root]
ClosedHandle == [inUse |-> FALSE, file |-> FreeSlot, offset |-> 0, clusters |-> <<>>, overflow |-> FALSE]
NoJob == [op |-> "none", name |-> NoName, fd |-> -1, want |-> 0]
Ret(op, v, text) == [op |-> op, val |-> v, text |-> text]
NoRet == Ret("none", 0, <<>>)
ERR == 255

Fds == 0..(MAX_OPEN - 1)

(***************************************************************************)
(* The sector driver, as the filesystem sees it.                            *)
(***************************************************************************)
(* No good data comes after a fault, and from an address beyond the card.     *)
NoData(lba) == "read" \in Faults \/ lba \notin DOMAIN disk
(* read_sector returned 0: the sector and its checksum arrived, or they did  *)
(* not and the user (now or on an earlier mismatch) chose to go on with what *)
(* the buffer holds.                                                         *)
ReadSector(lba) ==
  \/ lba \in DOMAIN disk /\ sdbuf' = disk[lba] /\ UNCHANGED <<disk, ignoreCrc>>
  \/ /\ NoData(lba) /\ (ignoreCrc \/ "yes" \in Faults)
     /\ sdbuf' = Clobbered(sdbuf) /\ ignoreCrc' = TRUE
     /\ UNCHANGED disk
(* read_sector returned $FF: the user answered N.                            *)
ReadRefused(lba) ==
  /\ NoData(lba) /\ ~ignoreCrc
  /\ sdbuf' = Clobbered(sdbuf)
  /\ UNCHANGED <<disk, ignoreCrc>>
(* write_sector returned 0, or $FF: an answer that is late or not "accepted" *)
(* does not say whether the card stored the data.                            *)
WriteSector(lba, content) ==
  /\ sdbuf' = content /\ disk' = [disk EXCEPT ![lba] = content]
  /\ UNCHANGED ignoreCrc
WriteFailed(lba, content) ==
  /\ "write" \in Faults /\ sdbuf' = content
  /\ disk' \in {disk, [disk EXCEPT ![lba] = content]}
  /\ UNCHANGED ignoreCrc

(* The routine in progress is over; Begin starts one from the prompt.        *)
Return(v) ==
  /\ pc' = "prompt" /\ job' = NoJob /\ ret' = Ret(job.op, v, <<>>)
  /\ ll' = <<>> /\ next' = 0 /\ ctr' = 0 /\ sec' = 0 /\ files' = <<>>
Begin(op, nm, at) ==
  /\ pc = "prompt" /\ pc' = at
  /\ job' = [NoJob EXCEPT !.op = op, !.name = nm]
  /\ ret' = NoRet /\ mem' = <<>>
(* A routine that is over without having touched the card; text is what it    *)
(* shows.                                                                    *)
Show(op, v, text) ==
  /\ pc = "prompt" /\ ret' = Ret(op, v, text) /\ mem' = <<>>
  /\ UNCHANGED <<sdVars, pc, job, loopVars>>
Immediate(op, v) == Show(op, v, <<>>)

(***************************************************************************)
(* fs_mount                                                                 *)
(***************************************************************************)
BootSd ==
  /\ pc = "boot"
  /\ \/ pc' = "mbr" /\ ctr' = 0
     \/ /\ "boot" \in Faults
        /\ ctr' = ctr + 1
        /\ pc' = IF ctr + 1 = BOOT_RETRIES THEN "halted" ELSE "boot"
  /\ UNCHANGED <<sdVars, dirVars, handles, job, ll, next, sec, files, mem, ret>>

Mounting(lba, rest) ==
  \/ ReadSector(lba) /\ rest
  \/ ReadRefused(lba) /\ pc' = "halted" /\ UNCHANGED dirVars

ReadMbr ==
  /\ pc = "mbr"
  /\ Mounting(0,
              /\ pc' = IF ValidMbr(sdbuf') THEN "bpb" ELSE "halted"
              /\ UNCHANGED dirVars)
  /\ UNCHANGED <<handles, job, loopVars, mem, ret>>

ReadPartition ==
  /\ pc = "bpb"
  /\ Mounting(sdbuf.lba,
              /\ IF sdbuf'.k = "bpb" /\ ValidLayout(Layout(sdbuf.lba, sdbuf'))
                 THEN /\ part' = Layout(sdbuf.lba, sdbuf')
                      /\ cur' = [name |-> Name("", ""), cluster |-> part'.root]
                      /\ path' = <<cur'>> /\ pc' = "label"
                 ELSE pc' = "halted" /\ UNCHANGED dirVars)
  /\ UNCHANGED <<handles, job, loopVars, mem, ret>>

ReadLabel ==
  /\ pc = "label"
  /\ Mounting(DataLba(part, part.root, 0),
              /\ part' = [part EXCEPT !.label = Slots(sdbuf')[1].name]
              /\ pc' = "prompt" /\ UNCHANGED <<cur, path>>)
  /\ UNCHANGED <<handles, job, loopVars, mem, ret>>

(***************************************************************************)
(* fs_fat32_build_linked_list and fs_fat32_read_dir                          *)
(***************************************************************************)
(* Releases the descriptor an unfinished open had taken.                      *)
Abandon_Keep == handles' = handles
Abandon ==
  handles' = IF job.op = "open" /\ job.fd >= 0
             THEN [handles EXCEPT ![job.fd].inUse = FALSE] ELSE handles

StartChain(c) == ll' = <<>> /\ next' = c /\ ctr' = 0 /\ sec' = 0 /\ files' = <<>>
ReadDir(op, nm) ==
  /\ Begin(op, nm, "chain") /\ StartChain(cur.cluster)
  /\ UNCHANGED <<sdVars, dirVars, handles>>

ChainGoesOn == InChain(next) /\ Len(ll) < LLSZ
ChainOverflow == InChain(next)      \* fat32_chain_overflow, once the loop is over

ChainRefused_Restart == StartChain(cur.cluster) /\ UNCHANGED <<handles, pc, job, ret>>
ChainRefused == Abandon /\ Return(ERR)

FollowChain ==
  /\ pc = "chain" /\ ChainGoesOn
  /\ \/ /\ ReadSector(FatLba(part, next))
        /\ ll' = Append(ll, next) /\ next' = FatItem(sdbuf', next % EPF)
        /\ UNCHANGED <<handles, pc, job, ctr, sec, files, ret>>
     \/ ReadRefused(FatLba(part, next)) /\ ChainRefused
  /\ UNCHANGED <<dirVars, mem>>

(* The chain of a file that was found, not of the current folder.             *)
IsFileChain == job.fd >= 0 \/ job.want > 0
DirChainDone ==
  /\ pc = "chain" /\ ~ChainGoesOn /\ ~IsFileChain
  /\ pc' = (IF ll = <<>> THEN "search" ELSE "scan") /\ ctr' = 1 /\ sec' = 0
  /\ UNCHANGED <<sdVars, dirVars, handles, job, ll, next, files, mem, ret>>

(* The loops over the clusters of ll and the sectors of each.                 *)
LastSector == ctr = Len(ll) /\ sec + 1 = part.spc
NextSector ==
  IF sec + 1 < part.spc THEN ctr' = ctr /\ sec' = sec + 1
                        ELSE ctr' = ctr + 1 /\ sec' = 0

(* What one directory sector adds to the list, and whether it ends it.        *)
EntriesIn(slots) ==
  LET upTo[i \in Nat] ==
        IF i = 0 THEN <<>>
        ELSE IF IsEntry(slots[i]) THEN Append(upTo[i - 1], slots[i]) ELSE upTo[i - 1]
  IN upTo[Len(SlotsUpToEnd(slots))]

ScanSector ==
  /\ pc = "scan"
  /\ \/ /\ ReadSector(DataLba(part, ll[ctr], sec))
        /\ LET all == files \o EntriesIn(Slots(sdbuf'))
               ended == EndSlot(Slots(sdbuf')) # 0
           IN \/ /\ \/ Len(all) > MAX_FILES
                    \/ ~ended /\ LastSector /\ ChainOverflow
                 /\ Return(ERR)
              \/ /\ Len(all) <= MAX_FILES
                 /\ ended \/ (LastSector /\ ~ChainOverflow)
                 /\ files' = all /\ pc' = "search"
                 /\ UNCHANGED <<job, ll, next, ctr, sec, ret>>
              \/ /\ Len(all) <= MAX_FILES
                 /\ ~ended /\ ~LastSector
                 /\ files' = all /\ NextSector
                 /\ UNCHANGED <<pc, job, ll, next, ret>>
     \/ ReadRefused(DataLba(part, ll[ctr], sec)) /\ Return(ERR)
  /\ UNCHANGED <<dirVars, handles, mem>>

(* fs_fat32_search_dir: the first entry of that type and name, or 0.          *)
SearchDir(t) == SelectInSeq(files, LAMBDA slot : slot.t = t /\ slot.name = job.name)

(***************************************************************************)
(* fs_chdir, fs_list_dir, fs_getcwd and fs_print_partition_info              *)
(***************************************************************************)
ChdirRoot ==
  /\ Immediate("chdir", 0)
  /\ cur' = path[1] /\ path' = <<path[1]>>
  /\ UNCHANGED <<part, handles>>

ChdirUp ==
  /\ Immediate("chdir", 0)
  /\ path' = IF Len(path) > 1 THEN Front(path) ELSE path
  /\ cur' = IF Len(path) > 1 THEN Last(Front(path)) ELSE cur
  /\ UNCHANGED <<part, handles>>

ChdirName(arg) ==
  \/ Make83(arg) = NoName /\ Immediate("chdir", ERR) /\ UNCHANGED <<dirVars, handles>>
  \/ Make83(arg) # NoName /\ ReadDir("chdir", Make83(arg))

PathFull_OffByOne == Len(path) > MAX_DEPTH
PathFull == Len(path) >= MAX_DEPTH
PathWith_Previous(folder) == Append(path, cur)
PathWith(folder) == Append(path, folder)

FinishChdir ==
  /\ pc = "search" /\ job.op = "chdir"
  /\ LET at == SearchDir("dir")
     IN \/ at = 0 /\ Return(ERR) /\ UNCHANGED <<cur, path>>
        \/ /\ at # 0 /\ files[at].cluster = 0     \* how a FAT writes "the root"
           /\ cur' = path[1] /\ path' = <<path[1]>> /\ Return(0)
        \/ /\ at # 0 /\ files[at].cluster # 0
           /\ cur' = [name |-> files[at].name, cluster |-> files[at].cluster]
           /\ IF PathFull THEN path' = path /\ Return(ERR)
                          ELSE path' = PathWith(cur') /\ Return(0)
  /\ UNCHANGED <<sdVars, part, handles, mem>>

ListDir == ReadDir("list", NoName)
(* fs_fat32_list_dir waits for a key behind every PAGE lines; ctr counts the   *)
(* lines.  Any key but Q shows the next page.                                 *)
MoreFills(n) == Len(files) >= n + PAGE
NextPage(n) ==
  /\ MoreFills(n) /\ pc' = "paging" /\ ctr' = n + PAGE
  /\ UNCHANGED <<job, ll, next, sec, files, ret>>
FinishList ==
  /\ pc = "search" /\ job.op = "list"
  /\ NextPage(0) \/ (~MoreFills(0) /\ Return(0))
  /\ UNCHANGED <<sdVars, dirVars, handles, mem>>
ListingKey ==
  /\ pc = "paging"
  /\ NextPage(ctr) \/ Return(0)
  /\ UNCHANGED <<sdVars, dirVars, handles, mem>>

(* The path as the prompt shows it, or an error if it does not fit the        *)
(* caller's buffer, which the lengths of the names in it decide.              *)
Getcwd ==
  /\ \/ Show("cwd", 0, [i \in DOMAIN path |-> path[i].name])
     \/ Len(path) > 1 /\ Show("cwd", ERR, <<>>)
  /\ UNCHANGED <<dirVars, handles>>
(* "Volume name" is printed from the sector buffer.                           *)
PrintPartitionInfo ==
  /\ Show("info", 0, <<Slots(sdbuf)[1].name>>)
  /\ UNCHANGED <<dirVars, handles>>

(***************************************************************************)
(* fs_mkdir and fs_touch: the only routines that write to the card           *)
(***************************************************************************)
(* fs_fat32_find_free_cluster: the first zero entry of the first FAT sector,  *)
(* the root directory's cluster excepted.                                     *)
FreeClusters_NextItem(sector) ==
  {c \in FIRST_FREE..(EPF - 2) : c # part.root /\ Unreserved(FatItem(sector, c + 1)) = 0}
FreeClusters(sector) ==
  {c \in FIRST_FREE..(EPF - 1) : c # part.root /\ Unreserved(FatItem(sector, c)) = 0}
(* The FAT sector in the buffer with one entry set.                           *)
WithItem_BadMask(sector, c, v) == sector
WithItem(sector, c, v) ==
  IF sector.k = "fat" THEN [sector EXCEPT !.e[c % EPF] = v] ELSE sector
(* The first unused entry of the directory sector in the buffer, or 0, and    *)
(* the sector with a new entry in that place.                                 *)
UnusedSlot_NoCluster(sector) ==
  SelectInSeq(Slots(sector), LAMBDA slot : slot.cluster = 0)
UnusedSlot(sector) == SelectInSeq(Slots(sector), IsUnused)
WithSlot(sector, entry) ==
  [k |-> "dir", s |-> [Slots(sector) EXCEPT ![UnusedSlot(sector)] = entry]]

FailOnWrite(lba, content) == WriteFailed(lba, content) /\ Return(ERR)

Mkdir(arg) ==
  /\ LET nm == Make83(arg)
     IN \/ /\ nm = NoName \/ nm.ext # ""
           /\ Immediate("mkdir", ERR)
        \/ /\ nm # NoName /\ nm.ext = ""
           /\ Begin("mkdir", nm, "findfree")
           /\ UNCHANGED <<sdVars, loopVars>>
  /\ UNCHANGED <<dirVars, handles>>

(* The new cluster is kept in next while mkdir runs.                          *)
FindFreeCluster ==
  /\ pc = "findfree"
  /\ \/ /\ ReadSector(part.fatBegin)
        /\ \/ FreeClusters(sdbuf') = {} /\ Return(ERR)
           \/ /\ FreeClusters(sdbuf') # {}
              /\ next' = FirstOf(FreeClusters(sdbuf')) /\ pc' = "fatread"
              /\ UNCHANGED <<job, ll, ctr, sec, files, ret>>
     \/ ReadRefused(part.fatBegin) /\ Return(ERR)
  /\ UNCHANGED <<dirVars, handles, mem>>

ReadFatSector ==
  /\ pc = "fatread"
  /\ \/ ReadSector(FatLba(part, next)) /\ pc' = "fatwrite" /\ UNCHANGED <<job, loopVars, ret>>
     \/ ReadRefused(FatLba(part, next)) /\ Return(ERR)
  /\ UNCHANGED <<dirVars, handles, mem>>

WriteFatSector ==
  /\ pc = "fatwrite"
  /\ LET lba == FatLba(part, next)
         content == WithItem(sdbuf, next, EOC)
     IN \/ WriteSector(lba, content) /\ pc' = "mirror" /\ UNCHANGED <<job, loopVars, ret>>
        \/ FailOnWrite(lba, content)
  /\ UNCHANGED <<dirVars, handles, mem>>

(* fs_fat32_mirror_fat_sector: the same sector once more, where a second FAT   *)
(* would be, however many FATs there are.                                      *)
MirrorLba_FirstFat(c) == FatLba(part, c)
MirrorLba(c) == part.fat2Begin + (FatLba(part, c) - part.fatBegin)
MirrorFatSector ==
  /\ pc = "mirror"
  /\ \/ WriteSector(MirrorLba(next), sdbuf) /\ pc' = "clear" /\ UNCHANGED <<job, loopVars, ret>>
     \/ FailOnWrite(MirrorLba(next), sdbuf)
  /\ UNCHANGED <<dirVars, handles, mem>>

(* The new folder's own sectors, first "." and ".." and then zeros.           *)
NewDirSector_RootParent == IF sec = 0 THEN DotSector(next, part.root) ELSE ZeroSector
NewDirSector == IF sec = 0 THEN DotSector(next, cur.cluster) ELSE ZeroSector
MoreToClear_OneTooMany == sec < part.spc
MoreToClear == sec + 1 < part.spc
ClearCluster ==
  /\ pc = "clear"
  /\ LET lba == DataLba(part, next, sec)
     IN \/ /\ WriteSector(lba, NewDirSector)
           /\ IF MoreToClear THEN sec' = sec + 1 /\ pc' = pc
                             ELSE sec' = 0 /\ pc' = "slotread"
           /\ UNCHANGED <<job, ll, next, ctr, files, ret>>
        \/ FailOnWrite(lba, NewDirSector)
  /\ UNCHANGED <<dirVars, handles, mem>>

Touch(arg) ==
  /\ \/ Make83(arg) = NoName /\ Immediate("touch", ERR)
     \/ /\ Make83(arg) # NoName
        /\ Begin("touch", Make83(arg), "slotread")
        /\ UNCHANGED <<sdVars, loopVars>>
  /\ UNCHANGED <<dirVars, handles>>

(* Both routines end by adding their entry to the first sector of the current *)
(* folder, and do not look for the name there.                                *)
NewEntry == Slot(IF job.op = "mkdir" THEN "dir" ELSE "file", job.name, next, 0)
FolderLba == DataLba(part, cur.cluster, 0)

ReadFolderSector ==
  /\ pc = "slotread"
  /\ \/ /\ ReadSector(FolderLba)
        /\ \/ UnusedSlot(sdbuf') = 0 /\ Return(ERR)
           \/ /\ UnusedSlot(sdbuf') # 0 /\ pc' = "slotwrite"
              /\ UNCHANGED <<job, loopVars, ret>>
     \/ ReadRefused(FolderLba) /\ Return(ERR)
  /\ UNCHANGED <<dirVars, handles, mem>>

WriteFolderSector ==
  /\ pc = "slotwrite"
  /\ LET content == WithSlot(sdbuf, NewEntry)
     IN \/ WriteSector(FolderLba, content) /\ Return(0)
        \/ FailOnWrite(FolderLba, content)
  /\ UNCHANGED <<dirVars, handles, mem>>

(***************************************************************************)
(* fs_open, fs_read, fs_close and fs_load_file                              *)
(***************************************************************************)
Open(arg) ==
  \/ Make83(arg) = NoName /\ Immediate("open", -1) /\ UNCHANGED <<dirVars, handles>>
  \/ Make83(arg) # NoName /\ ReadDir("open", Make83(arg))

FreeFds == {fd \in Fds : ~handles[fd].inUse}
FinishOpenSearch ==
  /\ pc = "search" /\ job.op = "open"
  /\ LET at == SearchDir("file")
     IN \/ /\ at = 0 \/ FreeFds = {}
           /\ Return(-1) /\ UNCHANGED handles
        \/ /\ at # 0 /\ FreeFds # {}
           /\ LET fd == FirstOf(FreeFds)
              IN /\ handles' = [handles EXCEPT ![fd].inUse = TRUE,
                                  ![fd].file = files[at], ![fd].offset = 0]
                 /\ job' = [job EXCEPT !.fd = fd]
           /\ StartChain(files[at].cluster) /\ pc' = "chain" /\ UNCHANGED ret
  /\ UNCHANGED <<sdVars, dirVars, mem>>

(* fs_build_cluster_cache; an empty file has no cluster, and is not opened.   *)
OpenChainDone ==
  /\ pc = "chain" /\ ~ChainGoesOn /\ IsFileChain /\ job.op = "open"
  /\ \/ ll = <<>> /\ Abandon /\ Return(-1)
     \/ /\ ll # <<>> /\ Return(job.fd)
        /\ handles' = [handles EXCEPT ![job.fd].clusters = ll, ![job.fd].overflow = ChainOverflow]
  /\ UNCHANGED <<sdVars, dirVars, mem>>

Left(fd) == handles[fd].file.size - handles[fd].offset
Smaller(a, b) == IF a < b THEN a ELSE b

Read(fd, len) ==
  /\ IF len = 0 \/ ~handles[fd].inUse \/ handles[fd].overflow \/ Left(fd) <= 0
     THEN Immediate("read", 0)
     ELSE /\ pc = "prompt" /\ pc' = "reading"
          /\ job' = [op |-> "read", name |-> NoName, fd |-> fd, want |-> Smaller(Left(fd), len)]
          /\ ret' = NoRet /\ mem' = <<>>
          /\ UNCHANGED <<sdVars, loopVars>>
  /\ UNCHANGED <<dirVars, handles>>

(* Byte i of a sector, and the bytes of it that one round of a loop copies.   *)
BytesOf(sector, from, n) == [i \in 1..n |-> <<sector, from + i - 1>>]

Portion_IgnoresOffset(from) == Smaller(SECTOR, job.want)
Portion(from) == Smaller(SECTOR - from, job.want)

ReadStep ==
  /\ pc = "reading"
  /\ LET h == handles[job.fd]
         sectorInFile == h.offset \div SECTOR
         from == h.offset % SECTOR
         index == sectorInFile \div part.spc
         n == Portion(from)
         lba == DataLba(part, h.clusters[index + 1], sectorInFile % part.spc)
     IN \/ /\ job.want = 0 \/ index >= Len(h.clusters)
           /\ Return(Len(mem)) /\ UNCHANGED <<sdVars, handles, mem>>
        \/ /\ job.want > 0 /\ index < Len(h.clusters)
           /\ \/ /\ ReadSector(lba)
                 /\ mem' = mem \o BytesOf(sdbuf', from, n)
                 /\ handles' = [handles EXCEPT ![job.fd].offset = @ + n]
                 /\ job' = [job EXCEPT !.want = @ - n]
                 /\ UNCHANGED <<pc, loopVars, ret>>
              \/ ReadRefused(lba) /\ Return(Len(mem)) /\ UNCHANGED <<handles, mem>>
  /\ UNCHANGED dirVars

Close(fd) ==
  /\ Immediate("close", 0)
  /\ handles' = [handles EXCEPT ![fd].inUse = FALSE, ![fd].offset = 0,
                   ![fd].clusters = <<>>, ![fd].overflow = FALSE]
  /\ UNCHANGED dirVars

LoadFile(arg) ==
  \/ Make83(arg) = NoName /\ Immediate("load", ERR) /\ UNCHANGED <<dirVars, handles>>
  \/ Make83(arg) # NoName /\ ReadDir("load", Make83(arg))

(* job.want holds the file's size plus one from here on.                      *)
Loadable(at) == at # 0 /\ files[at].size < LOAD_LIMIT
FinishLoadSearch ==
  /\ pc = "search" /\ job.op = "load"
  /\ LET at == SearchDir("file")
     IN \/ ~Loadable(at) /\ Return(ERR)
        \/ /\ Loadable(at)
           /\ job' = [job EXCEPT !.want = files[at].size + 1]
           /\ StartChain(files[at].cluster) /\ pc' = "chain" /\ UNCHANGED ret
  /\ UNCHANGED <<sdVars, dirVars, handles, mem>>

LoadChainDone ==
  /\ pc = "chain" /\ ~ChainGoesOn /\ IsFileChain /\ job.op = "load"
  /\ \/ ChainOverflow /\ Return(ERR)
     \/ /\ ~ChainOverflow /\ pc' = "loading" /\ ctr' = 1 /\ sec' = 0
        /\ UNCHANGED <<job, ll, next, files, ret>>
  /\ UNCHANGED <<sdVars, dirVars, handles, mem>>

(* Whole sectors are copied, so the last one may reach past the file's end.   *)
(* The list ends where it holds $FFFFFFFF.  One that fills the array has no    *)
(* such end: the loop goes on with the words behind it, of which next keeps   *)
(* the one in hand, unless one of them happens to be $FFFFFFFF.               *)
EnoughLoaded_RoundsDown == Len(mem) + SECTOR >= job.want
EnoughLoaded == Len(mem) + 1 >= job.want
ListMayEnd == ctr > Len(ll) /\ sec = 0
ListGoesOn == ctr <= Len(ll) \/ Len(ll) = LLSZ
FromList == IF ctr <= Len(ll) THEN {ll[ctr]} ELSE IF sec = 0 THEN Behind ELSE {next}
LoadStep ==
  /\ pc = "loading"
  /\ \/ /\ EnoughLoaded \/ ListMayEnd
        /\ Return(0) /\ UNCHANGED <<sdVars, mem>>
     \/ /\ ~EnoughLoaded /\ ListGoesOn
        /\ \E c \in FromList :
           \/ /\ ReadSector(DataLba(part, c, sec))
              /\ mem' = mem \o BytesOf(sdbuf', 0, SECTOR) /\ NextSector /\ next' = c
              /\ UNCHANGED <<pc, job, ll, files, ret>>
           \/ ReadRefused(DataLba(part, c, sec)) /\ Return(ERR) /\ UNCHANGED mem
  /\ UNCHANGED <<dirVars, handles>>

(***************************************************************************)
(* Power and the specification                                              *)
(***************************************************************************)
Init ==
  /\ disk \in Cards /\ sdbuf = ZeroSector
  /\ ignoreCrc = FALSE /\ part = NoPart /\ cur = NoFolder /\ path = <<>>
  /\ handles = [fd \in Fds |-> ClosedHandle]
  /\ pc = "boot" /\ job = NoJob /\ ll = <<>> /\ next = 0 /\ ctr = 0 /\ sec = 0
  /\ files = <<>> /\ mem = <<>> /\ ret = NoRet

(* A reset or a power cut between two sector transfers.                       *)
Reset ==
  /\ "reset" \in Faults /\ pc # "boot"
  /\ ignoreCrc' = FALSE /\ part' = NoPart /\ cur' = NoFolder /\ path' = <<>>
  /\ handles' = [fd \in Fds |-> ClosedHandle]
  /\ pc' = "boot" /\ job' = NoJob /\ ll' = <<>> /\ next' = 0 /\ ctr' = 0 /\ sec' = 0
  /\ files' = <<>> /\ mem' = <<>> /\ ret' = NoRet
  /\ UNCHANGED <<disk, sdbuf>>

Mount == BootSd \/ ReadMbr \/ ReadPartition \/ ReadLabel
Call ==
  \/ ChdirRoot \/ ChdirUp \/ ListDir \/ Getcwd \/ PrintPartitionInfo
  \/ \E arg \in ChdirArgs : ChdirName(arg)
  \/ \E arg \in MkdirArgs : Mkdir(arg)
  \/ \E arg \in TouchArgs : Touch(arg)
  \/ \E arg \in OpenArgs : Open(arg)
  \/ \E arg \in LoadArgs : LoadFile(arg)
  \/ \E fd \in Fds : Close(fd) \/ \E len \in ReadLens : Read(fd, len)
Step ==
  \/ Mount
  \/ FollowChain \/ DirChainDone \/ ScanSector
  \/ FinishChdir \/ FinishList
  \/ FindFreeCluster \/ ReadFatSector \/ WriteFatSector \/ MirrorFatSector
  \/ ClearCluster \/ ReadFolderSector \/ WriteFolderSector
  \/ FinishOpenSearch \/ OpenChainDone \/ ReadStep
  \/ FinishLoadSearch \/ LoadChainDone \/ LoadStep
(* The machine that main gave up on (no filesystem) only leaves by a reset.   *)
Halted == pc = "halted" /\ UNCHANGED vars
Next == Step \/ Call \/ ListingKey \/ Reset \/ Halted

Spec == Init /\ [][Next]_vars /\ WF_vars(Step)
=============================================================================
