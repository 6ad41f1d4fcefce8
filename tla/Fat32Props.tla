---------------------------- MODULE Fat32Props ----------------------------
(* What must hold of the filesystem of Fat32.  The files and folders that can *)
(* be found on the card are kept in a history variable of their own, tree,    *)
(* which is computed anew whenever the card is written.                       *)
EXTENDS Fat32

VARIABLE tree

InitP == Init /\ tree = Tree(disk)
NextP == Next /\ tree' = IF disk' = disk THEN tree ELSE Tree(disk')
SpecP == InitP /\ [][NextP]_<<vars, tree>> /\ WF_vars(Step)

(* A card in good order, which the theorems about its contents start from: it *)
(* can be mounted, it has a second FAT that agrees with the first, and there  *)
(* are two sets of clusters, D for the folders and F for the files, that have *)
(* nothing in common: allocated clusters with no reserved bit in their FAT    *)
(* entries whose chains stay in the set, the root in D, and the entries in    *)
(* the clusters of D leading to D and F.                                      *)
WellLaid(dk) ==
  /\ 0 \in DOMAIN dk /\ ValidMbr(dk[0]) /\ dk[0].lba \in DOMAIN dk \ {0}
  /\ dk[dk[0].lba].k = "bpb" /\ dk[dk[0].lba].rsv > 0
  /\ ValidLayout(LayoutOf(dk)) /\ LayoutOf(dk).nfats > 1
Allocated(dk) == {c \in Clusters(dk) : FatEntry(dk, c) # 0}
ChainClosed(dk, X) ==
  /\ X \subseteq Allocated(dk)
  /\ \A c \in X : RawEntry(dk, c) = FatEntry(dk, c)
  /\ \A c \in X : InChain(FatEntry(dk, c)) => FatEntry(dk, c) \in X
SlotAt(dk, c, s, i) == Slots(Fetch(dk, DataLba(LayoutOf(dk), c, s)))[i]
FolderSlots(dk, D) ==
  {SlotAt(dk, a[1], a[2], a[3]) : a \in D \X (0..(LayoutOf(dk).spc - 1)) \X (1..SLOTS)}
LeadsTo(slot, D, F) ==
  IsEntry(slot) /\ slot.cluster # 0 => slot.cluster \in (IF slot.t = "dir" THEN D ELSE F)
Consistent(dk, D, F) ==
  /\ ChainClosed(dk, D) /\ ChainClosed(dk, F) /\ D \cap F = {}
  /\ LayoutOf(dk).root \in D
  /\ \A slot \in FolderSlots(dk, D) : LeadsTo(slot, D, F)
SecondFollows(dk) ==
  \A c \in Clusters(dk) :
    Fat2Entry(dk, c) = FatEntry(dk, c) \/ (Fat2Entry(dk, c) = 0 /\ FatEntry(dk, c) = EOC)
InGoodOrder(dk) ==
  /\ WellLaid(dk) /\ SecondFollows(dk)
  /\ \E D, F \in SUBSET Allocated(dk) : Consistent(dk, D, F)

(* What the theorems about the namespace ask of a card besides: the chain of a *)
(* folder ends, behind the slot that ends a folder all are free (the rule of  *)
(* the FAT format, which mkdir's zeros follow), no two entries share a        *)
(* cluster, every folder has its "." and "..", a cluster's number is not an   *)
(* end of chain, and the card is large enough for the ones that mkdir takes.  *)
ClustersOf(dk, c) == ToSet(Chain(dk, c))
Unshared(dk, entries) ==
  LET owners == {e \in entries : e.slot.cluster # 0}
  IN /\ \A e \in owners :
          ClustersOf(dk, e.slot.cluster) \cap ClustersOf(dk, LayoutOf(dk).root) = {}
     /\ \A e, f \in owners :
          e # f => ClustersOf(dk, e.slot.cluster) \cap ClustersOf(dk, f.slot.cluster) = {}
(* A folder in the root directory may name it 0, as the FAT format has it, or *)
(* by its number, as fs_mkdir does.                                           *)
NamesOf(dk, d) == IF d = LayoutOf(dk).root THEN {0, d} ELSE {d}
StartsWithDots(dk, e) ==
  LET sl == DirSlots(dk, e.slot.cluster)
  IN /\ Len(sl) >= 2
     /\ sl[1].t = "dir" /\ sl[1].name = DotName /\ sl[1].cluster = e.slot.cluster
     /\ sl[2].t = "dir" /\ sl[2].name = DotDotName /\ sl[2].cluster \in NamesOf(dk, e.dir)
Complete(dk, entries) == \A e \in entries : e.slot.t = "dir" => StartsWithDots(dk, e)
ChainEnds(dk, d) == Len(Chain(dk, d)) < EPF * LayoutOf(dk).spf
TailFree(dk, d) ==
  LET slots == AllSlots(ChainSectors(dk, d))
  IN \A i, j \in DOMAIN slots : i < j /\ slots[i].t = "free" => slots[j].t = "free"
OnCard(dk, c) == \A s \in 0..(LayoutOf(dk).spc - 1) : DataLba(LayoutOf(dk), c, s) \in DOMAIN dk
Tidy(dk) ==
  /\ \A d \in Folders(dk) : ChainEnds(dk, d) /\ TailFree(dk, d)
  /\ LET entries == Tree(dk) IN Unshared(dk, entries) /\ Complete(dk, entries)
  /\ \A c \in Clusters(dk) : c < EOC /\ (c < EPF => OnCard(dk, c))

(* Type invariant: the path never outgrows fat32_fullpath, a cluster list     *)
(* never outgrows fat32_linkedlist, the entry list never outgrows fat32_files *)
(* and the scan of a folder never reads past the list of its clusters.  (A    *)
(* load does read past its list; see LoadStep.)                               *)
TypeOK ==
  /\ ignoreCrc \in BOOLEAN /\ sdbuf \in Sector
  /\ Len(path) <= MAX_DEPTH /\ Len(ll) <= LLSZ /\ Len(files) <= MAX_FILES
  /\ next \in Nat /\ ctr \in Nat /\ sec \in Nat
  /\ \A fd \in Fds : Len(handles[fd].clusters) <= LLSZ /\ handles[fd].offset \in Nat
  /\ job.fd \in Fds \cup {-1} /\ job.want \in Nat
  /\ pc = "scan" => ctr \in 1..Len(ll) /\ sec \in 0..(part.spc - 1)

(* Whatever fails, and wherever mkdir is cut off, a file or folder that can   *)
(* be found on the card never refers to a cluster that the FAT calls free:    *)
(* mkdir allocates before it links.                                           *)
EntriesAllocated ==
  \A e \in tree : e.slot.cluster # 0 => FatEntry(disk, e.slot.cluster) # 0

(* No two files or folders share a cluster, and none has one of the root      *)
(* directory's: a cluster lost in a failed mkdir stays lost, it is never      *)
(* handed out while somebody else's data is in it.                            *)
NoSharedClusters == Unshared(disk, tree)

(* The second FAT is never ahead of the first, differs from it only in        *)
(* clusters that mkdir took, and is equal to it again as soon as a mkdir has  *)
(* passed its mirror step, also after earlier ones were cut off before it.    *)
SecondFat ==
  LayoutOf(disk).nfats > 1 =>
    /\ SecondFollows(disk)
    /\ pc = "clear" =>
         \A c \in Clusters(disk) :
           c \div EPF = next \div EPF => Fat2Entry(disk, c) = FatEntry(disk, c)

(* A folder is on the card only when it is complete: it starts with "." that  *)
(* names its own cluster and ".." that names the folder it is in (the root     *)
(* directory by its number or by 0).                                          *)
FoldersComplete == Complete(disk, tree)

(* Files keep their contents: no step of mkdir or touch, completed or not,    *)
(* writes a sector that belongs to a file or to the data of one.              *)
UpTo(n, bytes) == SubSeq(bytes, 1, Smaller(n, Len(bytes)))
FileBytes(dk, slot) ==
  LET sectors == ChainSectors(dk, slot.cluster)
  IN [i \in 1..Smaller(slot.size, Len(sectors) * SECTOR) |->
       <<sectors[1 + ((i - 1) \div SECTOR)], (i - 1) % SECTOR>>]
FilesKeepContents ==
  [][disk' # disk =>
       \A e \in tree : e.slot.t = "file" =>
       /\ e \in tree'
       /\ FileBytes(disk', e.slot) = FileBytes(disk, e.slot)]_vars

(* The folder shown at the prompt is a real one: each name in the path is a   *)
(* folder in the one before it, and every call works in a folder that can be  *)
(* found from the root.                                                       *)
PathIsReal ==
  path # <<>> =>
    /\ path[1].cluster = LayoutOf(disk).root
    /\ \A i \in 2..Len(path) :
         \E e \in tree : /\ e.dir = path[i - 1].cluster /\ e.slot.t = "dir"
                               /\ e.slot.name = path[i].name
                               /\ e.slot.cluster = path[i].cluster
    /\ \/ cur.cluster = LayoutOf(disk).root
       \/ \E e \in tree : e.slot.t = "dir" /\ e.slot.cluster = cur.cluster

(* The prompt names the folder that calls work in.  (Not so once a cd was     *)
(* refused because the path is full.)                                         *)
PromptShowsFolder == path # <<>> => cur = Last(path)

(* An open file's cached clusters are those of its chain on the card, its     *)
(* entry is still in the namespace, and its offset is within the file.        *)
HandlesMatchDisk ==
  \A fd \in Fds :
    handles[fd].inUse /\ job.fd # fd =>
      LET h == handles[fd] IN
      /\ \E e \in tree : e.slot = h.file
      /\ h.clusters = UpTo(LLSZ, Chain(disk, h.file.cluster))
      /\ h.overflow = (Len(Chain(disk, h.file.cluster)) > LLSZ)
      /\ h.offset <= h.file.size

(* What a read has delivered so far is the stretch of the file that ends at   *)
(* the handle's offset, which is never past the bytes the file's chain holds, *)
(* however reads of several handles, failures and other calls that use the    *)
(* one sector buffer were mixed.                                              *)
ReadsAreFileBytes ==
  pc = "reading" =>
    LET h == handles[job.fd]
    IN /\ h.offset <= Len(FileBytes(disk, h.file))
       /\ mem = SubSeq(FileBytes(disk, h.file), h.offset - Len(mem) + 1, h.offset)

(* A load that reports success has delivered the file, as far as its chain    *)
(* goes (which may be less than its size says), and less than one sector more *)
(* than its size; and when the chain ends inside the cluster list, nothing    *)
(* but whole sectors of the chain.                                            *)
Wanted == {e \in tree : e.dir = cur.cluster /\ e.slot.t = "file" /\ e.slot.name = job.name}
Delivers(file) ==
  LET bytes == FileBytes(disk, file)
  IN /\ UpTo(Len(bytes), mem) = bytes
     /\ Len(mem) < file.size + SECTOR
     /\ Len(Chain(disk, file.cluster)) < LLSZ =>
          Len(mem) <= Len(ChainSectors(disk, file.cluster)) * SECTOR
LoadSucceeds == pc = "loading" /\ pc' = "prompt" /\ ret'.val = 0
LoadsDeliverFile == [][LoadSucceeds => \E e \in Wanted : Delivers(e.slot)]_vars

(* Every routine gives control back, or asks the user for a key (ls), whatever *)
(* fails and however long a chain of clusters claims to be (a chain that      *)
(* loops, too, and a load that leaves its list behind).                       *)
Waiting == {"prompt", "halted", "paging"}
RoutinesReturn == [](pc \notin Waiting => <>(pc \in Waiting))

(* No file or folder of the card ever disappears or changes: the system has   *)
(* no command that removes one.                                               *)
EntriesStay == [][tree \subseteq tree']_<<vars, tree>>

(* What mkdir and touch write back to a folder's sector is what is stored     *)
(* there with their entry added: the buffer holds the sector that was read.   *)
WritesBackWhatIsThere ==
  [][pc = "slotwrite" /\ disk' # disk =>
       disk'[FolderLba] = WithSlot(disk[FolderLba], NewEntry)]_vars

(* What the namespace promises, with the card's contents as its state.        *)
Namespace == INSTANCE DirTree WITH
  root <- LayoutOf(disk).root, Trees <- {Tree(dk) : dk \in Cards}, OK <- 0, NONE <- 0,
  tree <- tree, folder <- cur.cluster, answer <- ret
GrowsByOneEntry == Namespace!TreeSpec
=============================================================================
