----------------------------- MODULE Fat32Disk -----------------------------
(* The on-disk format as fat32.c reads and writes it: what one 512-byte      *)
(* sector holds, where the sectors of a partition lie, how a cluster chain    *)
(* and a directory are laid out over them, and how a name becomes an 8.3      *)
(* name.  A disk image is a function from sector addresses (LBAs) to sectors. *)
EXTENDS Integers, Sequences, FiniteSets, SequencesExt

CONSTANTS
  EPF,        \* FAT entries in one sector (128 in the code)
  SLOTS,      \* directory entries in one sector (16 in the code)
  EOC,        \* what mkdir stores in the FAT for a chain of one cluster
  RESERVED,   \* a FAT entry counts modulo this (2^28)
  LLSZ,       \* F32_LLSZ: clusters a chain may have before it "overflows"
  Text        \* what the two parts of a file name may be

ASSUME DiskAssumption ==
  /\ EPF \in Nat \ {0} /\ SLOTS \in Nat \ {0, 1}
  /\ LLSZ \in Nat \ {0} /\ LLSZ < EPF /\ EOC \in Nat /\ EOC > EPF
  /\ RESERVED \in Nat /\ RESERVED > EOC
ASSUME TextAssumption == {"", ".", "..", "?", "Q"} \subseteq Text

FirstOf(S) == CHOOSE c \in S : \A d \in S : c <= d

Name(stem, ext) == [stem |-> stem, ext |-> ext]
NameSet == [stem : Text, ext : Text]
DotName == Name(".", "")
DotDotName == Name("..", "")

(* An argument of a command, as much of it as fs_make_83_filename looks at:   *)
(* the (upper-cased) text before and after the first dot, how many dots there *)
(* are, and whether every other character is legal and both parts fit.        *)
NoName == Name("?", "?")
Make83(arg) ==
  IF arg.dots > 1 \/ ~arg.legal \/ ~arg.fits \/ (arg.dots = 0 /\ arg.stem = "")
  THEN NoName
  ELSE Name(arg.stem, IF arg.dots = 0 THEN "" ELSE arg.ext)

(* Directory entries: t is what the first byte and the attribute byte say.    *)
Slot(t, nm, cluster, size) == [t |-> t, name |-> nm, cluster |-> cluster, size |-> size]
SlotSet == [t : {"file", "dir", "vol", "lfn", "deleted", "free", "other"},
            name : NameSet, cluster : Nat, size : Nat]
FreeSlot == Slot("free", Name("", ""), 0, 0)
ZeroSector == [k |-> "dir", s |-> [i \in 1..SLOTS |-> FreeSlot]]
IsUnused(slot) == slot.t \in {"free", "deleted"}
IsEntry(slot) == slot.t \in {"file", "dir"}

(* What a sector may hold.                                                    *)
Sector ==
  [k : {"mbr"}, ptype : Nat, signed : BOOLEAN, lba : Nat]
  \cup [k : {"bpb"}, bps : Nat, spc : Nat, rsv : Nat, nfats : Nat, spf : Nat, root : Nat]
  \cup [k : {"fat"}, e : [0..(EPF - 1) -> Nat]]
  \cup [k : {"dir"}, s : [1..SLOTS -> SlotSet]]
  \cup [k : {"data"}, d : Nat]

(* The first sector of a new directory: "." and ".." and nothing else.        *)
DotSector(self, parent) ==
  [k |-> "dir", s |-> [i \in 1..SLOTS |->
     CASE i = 1 -> Slot("dir", DotName, self, 0)
       [] i = 2 -> Slot("dir", DotDotName, parent, 0)
       [] OTHER -> FreeSlot]]

(* A sector is read as a FAT sector or as a directory sector whatever it      *)
(* holds.  What the bytes of another kind of sector spell does not matter to  *)
(* any property; they are taken to be an end of chain, and entries that are   *)
(* neither free nor files nor folders.                                        *)
FatItem(sec, i) == IF sec.k = "fat" THEN sec.e[i] ELSE EOC
(* The upper four bits of an entry are reserved, and a reader of the FAT is to *)
(* ignore them.  find_free_cluster does; build_linked_list takes the entry as *)
(* it stands, and one with any of those bits set ends the chain.              *)
Unreserved(v) == v % RESERVED
Slots(sec) ==
  IF sec.k = "dir" THEN sec.s
  ELSE [i \in 1..SLOTS |-> Slot("other", Name("?", ""), 0, 0)]

(* sdcmd17 builds its six command bytes in the sector buffer before it sends  *)
(* them: a read that brings no data leaves the previous contents, with those  *)
(* bytes ($51, address, $01) over the first name or the reserved FAT entries. *)
Clobbered(sec) ==
  IF sec.k = "dir"
  THEN [sec EXCEPT !.s[1] =
         Slot(IF IsUnused(@) THEN "file" ELSE @.t, Name("Q", ""), @.cluster, @.size)]
  ELSE sec

(* The partition, from the MBR's LBA and the fields of its boot sector.       *)
Layout(lba, bpb) ==
  LET fatBegin == lba + bpb.rsv
  IN [lba |-> lba, label |-> Name("", ""), bps |-> bpb.bps, spc |-> bpb.spc,
      nfats |-> bpb.nfats, spf |-> bpb.spf, root |-> bpb.root, fatBegin |-> fatBegin, fat2Begin |-> fatBegin + bpb.spf,
      dataBegin |-> fatBegin + bpb.nfats * bpb.spf]
ValidLayout(p) ==
  /\ p.bps = 512 /\ p.spc \in {1, 2, 4, 8, 16, 32, 64, 128}
  /\ p.nfats # 0 /\ p.spf # 0 /\ p.root >= 2
ValidMbr(sec) == sec.k = "mbr" /\ sec.ptype \in {11, 12} /\ sec.signed

FatLba(p, c) == p.fatBegin + (c \div EPF)
DataLba(p, c, s) == p.dataBegin + (c - 2) * p.spc + s

(* A FAT entry that fs_fat32_build_linked_list follows.                       *)
InChain(c) == c # 0 /\ c < EOC

(***************************************************************************)
(* The reference reading of a disk image, which the properties are stated   *)
(* with: how any FAT reader would see it, sector buffer and handles aside.   *)
(***************************************************************************)
LayoutOf(dk) == Layout(dk[0].lba, dk[dk[0].lba])
Clusters(dk) == 2..(EPF * LayoutOf(dk).spf - 1)

(* The sector at an address; there is none beyond the end of the card.        *)
NoSector == [k |-> "none"]
Fetch(dk, lba) == IF lba \in DOMAIN dk THEN dk[lba] ELSE NoSector
RawEntry(dk, c) == FatItem(Fetch(dk, FatLba(LayoutOf(dk), c)), c % EPF)
FatEntry(dk, c) == Unreserved(RawEntry(dk, c))
Fat2Entry(dk, c) == Unreserved(FatItem(Fetch(dk, LayoutOf(dk).fat2Begin + (c \div EPF)), c % EPF))

(* The clusters of a chain, cut off after as many as the FAT has (a loop).    *)
Follow(dk, c) ==
  LET after == [d \in Nat |-> IF InChain(d) THEN FatEntry(dk, d) ELSE 0]
      follow[n \in Nat] == IF n = 0 THEN c ELSE after[follow[n - 1]]
  IN follow
ChainLength(dk, c) ==
  LET follow == Follow(dk, c) IN
  CHOOSE n \in 0..(EPF * LayoutOf(dk).spf) :
    /\ \A i \in 0..(n - 1) : InChain(follow[i])
    /\ n < EPF * LayoutOf(dk).spf => ~InChain(follow[n])
Chain(dk, c) == [i \in 1..ChainLength(dk, c) |-> Follow(dk, c)[i - 1]]

(* The sectors of a chain, in order, and the slots of a list of sectors.      *)
ChainSectors(dk, c) ==
  LET p == LayoutOf(dk)
      chain == Chain(dk, c)
  IN [k \in 1..(Len(chain) * p.spc) |->
       Fetch(dk, DataLba(p, chain[1 + ((k - 1) \div p.spc)], (k - 1) % p.spc))]
AllSlots(sectors) ==
  [i \in 1..(Len(sectors) * SLOTS) |->
    Slots(sectors[1 + ((i - 1) \div SLOTS)])[1 + ((i - 1) % SLOTS)]]

(* The slots of a folder up to the one that ends it.                          *)
EndSlot(slots) == SelectInSeq(slots, LAMBDA slot : slot.t = "free")
SlotsUpToEnd(slots) ==
  LET end == EndSlot(slots) IN IF end = 0 THEN slots ELSE SubSeq(slots, 1, end - 1)
DirSlots(dk, d) == SlotsUpToEnd(AllSlots(ChainSectors(dk, d)))

(* Folders a directory leads to, its own "." and ".." aside.                  *)
IsDot(slot) == slot.name \in {DotName, DotDotName}
SubFolders(dk, d) ==
  {slot.cluster : slot \in {x \in Range(DirSlots(dk, d)) : x.t = "dir" /\ ~IsDot(x)}}
(* The folders of a volume: the smallest set of clusters that holds the root  *)
(* directory and, with a folder, the folders in it.                           *)
Folders(dk) ==
  LET below == [d \in Clusters(dk) |-> SubFolders(dk, d) \cap Clusters(dk)]
      Closed(S) == LayoutOf(dk).root \in S /\ \A d \in S : below[d] \subseteq S
  IN {c \in Clusters(dk) : \A S \in SUBSET Clusters(dk) : Closed(S) => c \in S}

(* Every file and folder of the volume: the folder it is in, its place there  *)
(* and the entry itself.                                                      *)
Tree(dk) ==
  UNION {LET sl == DirSlots(dk, d)
         IN {[dir |-> d, at |-> i, slot |-> sl[i]] :
               i \in {j \in DOMAIN sl : IsEntry(sl[j]) /\ ~IsDot(sl[j])}}
         : d \in Folders(dk)}
=============================================================================
