------------------------------ MODULE MCFat32 ------------------------------
(* Small cards and arguments for TLC.  A card has its MBR at LBA 0, the boot  *)
(* sector at 1, then the FATs, then the clusters from 2 on.                   *)
EXTENDS Fat32Props

Arg(stem, ext, dots, legal, fits) ==
  [stem |-> stem, ext |-> ext, dots |-> dots, legal |-> legal, fits |-> fits]
Plain(stem) == Arg(stem, "", 0, TRUE, TRUE)

(* fat: the entries of the first FAT; data: the contents of the data sectors  *)
(* that are not zero, by cluster and sector.                                  *)
MkCard(spc, nfats, spf, fat, data) ==
  LET bpb == [k |-> "bpb", bps |-> 512, spc |-> spc, rsv |-> 1, nfats |-> nfats, spf |-> spf, root |-> 2]
      p == Layout(1, bpb)
      fatSector(k) == [k |-> "fat", e |-> [i \in 0..(EPF - 1) |-> fat[k * EPF + i]]]
      last == DataLba(p, EPF * spf - 1, spc - 1)
      at(lba) == <<2 + ((lba - p.dataBegin) \div spc), (lba - p.dataBegin) % spc>>
  IN [lba \in 0..last |->
       IF lba = 0 THEN [k |-> "mbr", ptype |-> 12, signed |-> TRUE, lba |-> 1]
       ELSE IF lba = 1 THEN bpb
       ELSE IF lba < p.dataBegin THEN fatSector((lba - p.fatBegin) % spf)
       ELSE IF at(lba) \in DOMAIN data THEN data[at(lba)] ELSE ZeroSector]

DirSector(slots) ==
  [k |-> "dir", s |-> [i \in 1..SLOTS |-> IF i <= Len(slots) THEN slots[i] ELSE FreeSlot]]
Volume == Slot("vol", Name("CARD", ""), 0, 0)
Deleted == Slot("deleted", Name("D", ""), 0, 0)
LongName == Slot("lfn", Name("L", ""), 0, 0)
File(nm, c, size) == Slot("file", Name(nm, ""), c, size)
Folder(nm, c) == Slot("dir", Name(nm, ""), c, 0)

(* What a cluster that once held a folder still holds.                        *)
Junk == DirSector([i \in 1..SLOTS |-> File("J", 3, 1)])

(* An almost empty volume: the root directory has a label, a deleted entry    *)
(* and one more place; every other cluster is free and full of junk.          *)
EmptyVolume(spc, nfats) ==
  MkCard(spc, nfats, 1,
    [c \in 0..(EPF - 1) |-> IF c \in {0, 1, 2} THEN EOC ELSE 0],
    [a \in {<<2, 0>>} \cup ((3..(EPF - 1)) \X (0..(spc - 1))) |->
       IF a = <<2, 0>> THEN DirSector(<<Volume, Deleted>>) ELSE Junk])

(* The same with a file K of three bytes in the last cluster and no label.    *)
Data(c, s) == [k |-> "data", d |-> c * 8 + s]
VolumeWithFile(spc) ==
  MkCard(spc, 2, 1,
    [c \in 0..(EPF - 1) |-> IF c \in {0, 1, 2, EPF - 1} THEN EOC ELSE 0],
    [a \in {<<2, 0>>} \cup ((3..(EPF - 1)) \X (0..(spc - 1))) |->
       IF a = <<2, 0>> THEN DirSector(<<File("K", EPF - 1, 3), Deleted>>)
       ELSE IF a[1] = EPF - 1 THEN Data(a[1], a[2]) ELSE Junk])

(* A volume that has a folder A, with a file K in the last of its places.      *)
(* Reserved bits are set in the FAT entries of the clusters that are free.     *)
VolumeWithFolder ==
  MkCard(1, 2, 1,
    [c \in 0..(EPF - 1) |-> IF c \in {0, 1, 2, 4, 5} THEN EOC ELSE 2 * RESERVED],
    [a \in (2..(EPF - 1)) \X {0} |->
       CASE a[1] = 2 -> DirSector(<<Folder("A", 4)>>)
         [] a[1] = 4 -> DirSector(<<Slot("dir", DotName, 4, 0), Slot("dir", DotDotName, 0, 0), File("K", 5, 2)>>)
         [] a[1] = 5 -> Data(5, 0)
         [] OTHER -> Junk])

(* For reading: the root directory fills clusters 2 and 4; A has its clusters *)
(* in two FAT sectors, B is empty, C is longer than a cluster list, R is a    *)
(* link to the root.  L's chain loops (spc = 1) or leads beyond the card      *)
(* (spc = 2), and S is a folder that cannot be read: its chain (spc = 1) or   *)
(* its number of entries (spc = 2) is too large.                              *)
Full == DirSector([i \in 1..SLOTS |-> Deleted])
FilesVolume(spc, second) ==
  MkCard(spc, 2, 2,
    [c \in 0..(2 * EPF - 1) |->
       CASE c = 2 -> 4 [] c = 3 -> 9
         [] c \in 5..7 -> c + 1
         [] c = 10 -> (IF spc = 1 THEN 11 ELSE 60) [] c = 11 -> 10
         [] c \in 12..14 -> c + 1
         [] OTHER -> EOC],
    [a \in (2..15) \X (0..(spc - 1)) |->
       CASE a = <<2, 0>> -> DirSector(<<Volume, LongName, File("A", 3, 3), Deleted>>)
         [] a = <<4, 0>> -> second
         [] spc = 1 /\ a[1] = 12 -> DirSector(<<Slot("dir", DotName, 12, 0), Slot("dir", DotDotName, 0, 0), Deleted, Deleted>>)
         [] spc = 2 /\ a[1] = 12 -> DirSector([i \in 1..SLOTS |-> File("F", 0, 0)])
         [] a[1] \in {2, 4, 12, 13, 14, 15} -> Full
         [] OTHER -> Data(a[1], a[2])])

(* Files whose chains end before, at and behind their sizes: A has as many     *)
(* clusters as a cluster list and one byte more, B two clusters less than its  *)
(* size, C as many clusters as the list, to the byte, and L one cluster more. *)
FullLists ==
  MkCard(1, 2, 2,
    [c \in 0..(2 * EPF - 1) |->
       CASE c \in {3, 4, 7, 8, 10, 11, 12} -> c + 1 [] OTHER -> EOC],
    [a \in (2..15) \X {0} |->
       IF a[1] = 2
       THEN DirSector(<<File("A", 3, 3 * SECTOR + 1), File("B", 6, 3 * SECTOR),
                        File("C", 7, 3 * SECTOR), File("L", 10, 3 * SECTOR + 1)>>)
       ELSE Data(a[1], 0)])

TooLong == Arg("A", "", 0, TRUE, FALSE)
WithExtension == Arg("A", "TXT", 1, TRUE, TRUE)

DirCards == {EmptyVolume(1, 2), VolumeWithFile(2), VolumeWithFolder}
OneFatCards == {EmptyVolume(1, 1)}
TwoFatCards == {EmptyVolume(1, 2)}
OrderedFiles ==
  FilesVolume(1, DirSector(<<File("B", 0, 0), File("C", 5, 8), File("L", 10, 5), Folder("S", 12)>>))
FileCards ==
  {OrderedFiles, FullLists,
   FilesVolume(2, DirSector(<<Folder("R", 0), File("C", 5, 8), File("L", 10, 5), Folder("S", 12)>>))}
FolderNames == {Plain("A"), WithExtension}
FileNames == {WithExtension, TooLong}
GoNames == {Plain("A"), TooLong}
SRNames == {Plain("S"), Plain("R")}
OpenNames == {Plain("A"), Plain("B"), Plain("C"), TooLong}
LoadNames == {Plain("A"), Plain("B"), Plain("C"), Plain("L"), TooLong}
SomeLens == {1, 3}
NoArgs == {}
(* Behind the cluster list stands the name of the current folder, zeros for   *)
(* the root directory.                                                        *)
WordsBehind == {0, 30}
AnyText == STRING
AllFaults == {"read", "write", "reset"}
ReadFaults == {"boot", "read"}
UserSaysYes == {"read", "yes"}
NoFaults == {}

(* What the theorems ask of a card is true of the ones that the runs with two *)
(* FATs write to, and of one of those that the run about files reads from,    *)
(* whose folders and files lie in the clusters named here.                    *)
ASSUME CardsInOrder ==
  /\ \A card \in Cards \ FileCards :
       LayoutOf(card).nfats > 1 => InGoodOrder(card) /\ Tidy(card)
  /\ OrderedFiles \in Cards =>
       /\ WellLaid(OrderedFiles) /\ SecondFollows(OrderedFiles)
       /\ Consistent(OrderedFiles, {2, 4} \cup (12..15), {3} \cup (5..11))
       /\ Tidy(OrderedFiles)
  /\ FullLists \in Cards =>
       /\ WellLaid(FullLists) /\ SecondFollows(FullLists)
       /\ Consistent(FullLists, {2}, 3..13)
       /\ Tidy(FullLists)
=============================================================================
