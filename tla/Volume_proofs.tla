--------------------------- MODULE Volume_proofs ---------------------------
(* The filesystem for every geometry, every bound and every set of cards that *)
(* the card slot may hold.  First its type invariant, for cards good or bad;  *)
(* then the contents of the card: on a card in good order the second FAT and  *)
(* the entries of the folders stay consistent, whatever fails, as long as     *)
(* nobody answers Y to a checksum error.                                      *)
EXTENDS Fat32Props, NatRecursion, SequenceTheorems

(* A FAT entry that stays as it is, and one that mkdir wrote; both as any     *)
(* reader of the FAT reads it and as build_linked_list does.                  *)
SameEntry(dk, dk2, c) == FatEntry(dk2, c) = FatEntry(dk, c) /\ RawEntry(dk2, c) = RawEntry(dk, c)
TakenEntry(dk, c) == FatEntry(dk, c) = EOC /\ RawEntry(dk, c) = EOC
USE DEF SameEntry, TakenEntry

----------------------------------------------------------------------------
(* What the helpers of the code return.                                       *)
LEMMA FirstIn ==
  ASSUME NEW I \in SUBSET Nat, I # {}
  PROVE  Min(I) \in I /\ \A m \in I : Min(I) <= m
BY Least DEF Min

LEMMA FirstOfIn ==
  ASSUME NEW I \in SUBSET Nat, I # {}
  PROVE  FirstOf(I) \in I /\ \A m \in I : FirstOf(I) <= m
BY Least DEF FirstOf

SlotSeq == [1..SLOTS -> SlotSet]
LEMMA SlotType ==
  ASSUME NEW t \in {"file", "dir", "vol", "lfn", "deleted", "free", "other"},
         NEW nm \in NameSet, NEW c \in Nat, NEW size \in Nat
  PROVE  Slot(t, nm, c, size) \in SlotSet
BY DEF Slot, SlotSet

LEMMA NameType ==
  /\ DotName \in NameSet /\ DotDotName \in NameSet /\ NoName \in NameSet
  /\ Name("", "") \in NameSet /\ Name("?", "") \in NameSet /\ Name("Q", "") \in NameSet
BY TextAssumption DEF Name, NameSet, DotName, DotDotName, NoName

LEMMA SlotsType == ASSUME NEW s \in Sector PROVE Slots(s) \in SlotSeq
<1>1. Slot("other", Name("?", ""), 0, 0) \in SlotSet
  BY SlotType, NameType
<1>2. CASE s.k = "dir"
  BY <1>2 DEF Sector, Slots, SlotSeq
<1>3. CASE s.k # "dir"
  BY <1>1, <1>3 DEF Slots, SlotSeq
<1> QED BY <1>2, <1>3

LEMMA FatItemType == ASSUME NEW s \in Sector, NEW i \in 0..(EPF - 1) PROVE FatItem(s, i) \in Nat
BY DiskAssumption DEF Sector, FatItem

LEMMA ClobberedType == ASSUME NEW s \in Sector PROVE Clobbered(s) \in Sector
<1>1. CASE s.k = "dir"
  <2>1. s \in [k : {"dir"}, s : SlotSeq]
    BY <1>1 DEF Sector, SlotSeq
  <2>2. 1 \in 1..SLOTS
    BY DiskAssumption
  <2>3. s.s[1] \in SlotSet
    BY <2>1, <2>2 DEF SlotSeq
  <2> DEFINE x == Slot(IF IsUnused(s.s[1]) THEN "file" ELSE s.s[1].t, Name("Q", ""), s.s[1].cluster, s.s[1].size)
  <2>4. x \in SlotSet
    <3>1. s.s[1].t \in {"file", "dir", "vol", "lfn", "deleted", "free", "other"}
          /\ s.s[1].cluster \in Nat /\ s.s[1].size \in Nat
      BY <2>3 DEF SlotSet
    <3> QED BY <3>1, NameType, SlotType
  <2>5. Clobbered(s) = [s EXCEPT !.s[1] = x]
    BY <1>1 DEF Clobbered
  <2> HIDE DEF x
  <2>6. [s EXCEPT !.s[1] = x] \in [k : {"dir"}, s : SlotSeq]
    BY <2>1, <2>4 DEF SlotSeq
  <2> QED BY <2>5, <2>6 DEF Sector, SlotSeq
<1>2. CASE s.k # "dir"
  BY <1>2 DEF Clobbered
<1> QED BY <1>1, <1>2

LEMMA FreeSlotType == FreeSlot \in SlotSet
BY SlotType, NameType DEF FreeSlot

LEMMA NewSectorType ==
  /\ ZeroSector \in Sector
  /\ \A self, parent \in Nat : DotSector(self, parent) \in Sector
<1>1. ZeroSector \in Sector
  BY FreeSlotType DEF ZeroSector, Sector
<1>2. ASSUME NEW self \in Nat, NEW parent \in Nat PROVE DotSector(self, parent) \in Sector
  <2>1. Slot("dir", DotName, self, 0) \in SlotSet /\ Slot("dir", DotDotName, parent, 0) \in SlotSet
    BY SlotType, NameType
  <2> QED BY <2>1, FreeSlotType DEF DotSector, Sector
<1> QED BY <1>1, <1>2

LEMMA UnusedType ==
  ASSUME NEW s \in Sector
  PROVE  /\ UnusedSlot(s) \in 0..SLOTS /\ (UnusedSlot(s) # 0 => IsUnused(Slots(s)[UnusedSlot(s)]))
         /\ \A i \in 1..SLOTS : i < UnusedSlot(s) => ~IsUnused(Slots(s)[i])
<1> DEFINE I == {i \in 1..Len(Slots(s)) : IsUnused(Slots(s)[i])}
<1>1. Slots(s) \in Seq(SlotSet) /\ Len(Slots(s)) = SLOTS
  BY SlotsType, DiskAssumption DEF SlotSeq
<1>2. UnusedSlot(s) = IF I # {} THEN Min(I) ELSE 0
  BY DEF UnusedSlot, SelectInSeq
<1>3. I # {} => Min(I) \in I /\ \A m \in I : Min(I) <= m
  <2> I \in SUBSET Nat
    OBVIOUS
  <2> HIDE DEF I
  <2> QED BY FirstIn
<1>4. ASSUME NEW i \in 1..SLOTS, i < UnusedSlot(s) PROVE ~IsUnused(Slots(s)[i])
  BY <1>1, <1>2, <1>3, <1>4, DiskAssumption
<1> QED BY <1>1, <1>2, <1>3, <1>4, DiskAssumption

LEMMA WithSlotType ==
  ASSUME NEW s \in Sector, NEW e \in SlotSet PROVE WithSlot(s, e) \in Sector
BY SlotsType DEF WithSlot, Sector, SlotSeq

LEMMA WithItemType ==
  ASSUME NEW s \in Sector, NEW c \in Nat, NEW v \in Nat PROVE WithItem(s, c, v) \in Sector
BY DEF WithItem, Sector

(* The place where the folder ends, if it does in these slots.                *)
LEMMA EndSlotType ==
  ASSUME NEW n \in Nat, NEW slots \in [1..n -> SlotSet]
  PROVE  /\ EndSlot(slots) \in 0..n
         /\ EndSlot(slots) # 0 => slots[EndSlot(slots)].t = "free"
         /\ \A i \in 1..n : (EndSlot(slots) = 0 \/ i < EndSlot(slots)) => slots[i].t # "free"
         /\ Len(SlotsUpToEnd(slots)) = IF EndSlot(slots) = 0 THEN n ELSE EndSlot(slots) - 1
         /\ SlotsUpToEnd(slots) \in Seq(SlotSet)
         /\ \A i \in 1..Len(SlotsUpToEnd(slots)) : SlotsUpToEnd(slots)[i] = slots[i]
<1> DEFINE I == {i \in 1..Len(slots) : slots[i].t = "free"}
<1>1. slots \in Seq(SlotSet) /\ Len(slots) = n
  OBVIOUS
<1>2. EndSlot(slots) = IF I # {} THEN Min(I) ELSE 0
  BY DEF EndSlot, SelectInSeq
<1>3. I # {} => Min(I) \in I /\ \A m \in I : Min(I) <= m
  <2> I \in SUBSET Nat
    OBVIOUS
  <2> HIDE DEF I
  <2> QED BY FirstIn
<1>4. EndSlot(slots) \in 0..n /\ (EndSlot(slots) # 0 => slots[EndSlot(slots)].t = "free")
  BY <1>1, <1>2, <1>3
<1>5. \A i \in 1..n : (EndSlot(slots) = 0 \/ i < EndSlot(slots)) => slots[i].t # "free"
  BY <1>1, <1>2, <1>3
<1> HIDE DEF I
<1>6. CASE EndSlot(slots) = 0
  BY <1>1, <1>4, <1>5, <1>6 DEF SlotsUpToEnd
<1>7. CASE EndSlot(slots) # 0
  <2>1. SlotsUpToEnd(slots) = SubSeq(slots, 1, EndSlot(slots) - 1)
    BY <1>7 DEF SlotsUpToEnd
  <2>2. EndSlot(slots) - 1 \in 0..n
    BY <1>4, <1>7
  <2>3. /\ SubSeq(slots, 1, EndSlot(slots) - 1) \in Seq(SlotSet)
        /\ Len(SubSeq(slots, 1, EndSlot(slots) - 1)) = EndSlot(slots) - 1
        /\ \A i \in 1..(EndSlot(slots) - 1) : SubSeq(slots, 1, EndSlot(slots) - 1)[i] = slots[i]
    BY <1>1, <2>2
  <2> QED BY <1>4, <1>5, <1>7, <2>1, <2>3
<1> QED BY <1>6, <1>7

(* The entries that one sector adds to a listing are files and folders of it. *)
LEMMA EntriesType ==
  ASSUME NEW slots \in SlotSeq
  PROVE  /\ EntriesIn(slots) \in Seq(SlotSet)
         /\ \A k \in 1..Len(EntriesIn(slots)) :
              \E i \in 1..SLOTS : /\ i <= Len(SlotsUpToEnd(slots))
                                  /\ EntriesIn(slots)[k] = slots[i] /\ IsEntry(slots[i])
<1> DEFINE U == SlotSet \cup {slots[i] : i \in Nat}
           S == Seq(U)
           step == [i \in Nat |-> [u \in S |-> IF IsEntry(slots[i]) THEN Append(u, slots[i]) ELSE u]]
           upTo[i \in Nat] ==
             IF i = 0 THEN <<>>
             ELSE IF IsEntry(slots[i]) THEN Append(upTo[i - 1], slots[i]) ELSE upTo[i - 1]
           Good(u, n) ==
             /\ u \in Seq(SlotSet)
             /\ \A k \in 1..Len(u) : \E i \in 1..n : u[k] = slots[i] /\ IsEntry(slots[i])
           T == {n \in Nat : n <= SLOTS => Good(upTo[n], n)}
<1>1. PICK f : Iterates(f, S, <<>>, step)
  <2>1. IsStep(S, step)
    <3>1. ASSUME NEW i \in Nat, NEW u \in S
          PROVE  (IF IsEntry(slots[i]) THEN Append(u, slots[i]) ELSE u) \in S
      <4>1. slots[i] \in U
        OBVIOUS
      <4> HIDE DEF U
      <4> QED BY <4>1
    <3> HIDE DEF S
    <3> QED BY <3>1 DEF IsStep
  <2>2. <<>> \in S
    OBVIOUS
  <2> HIDE DEF S, step
  <2> QED BY <2>1, <2>2, Recursion
<1>2. \E g : g = [i \in Nat |->
             IF i = 0 THEN <<>>
             ELSE IF IsEntry(slots[i]) THEN Append(g[i - 1], slots[i]) ELSE g[i - 1]]
  <2>1. f \in [Nat -> S] /\ f[0] = <<>> /\ \A n \in Nat : f[n + 1] = step[n + 1][f[n]]
    <3> HIDE DEF S, step
    <3> QED BY <1>1 DEF Iterates
  <2>2. ASSUME NEW n \in Nat, n # 0
        PROVE  f[n] = IF IsEntry(slots[n]) THEN Append(f[n - 1], slots[n]) ELSE f[n - 1]
    <3>1. n - 1 \in Nat /\ (n - 1) + 1 = n
      BY <2>2
    <3>2. f[n] = step[n][f[n - 1]] /\ f[n - 1] \in S
      <4> HIDE DEF S, step
      <4> QED BY <2>1, <3>1
    <3> HIDE DEF S
    <3> QED BY <3>2
  <2> HIDE DEF S, step, U
  <2>3. f = [i \in Nat |->
             IF i = 0 THEN <<>>
             ELSE IF IsEntry(slots[i]) THEN Append(f[i - 1], slots[i]) ELSE f[i - 1]]
    BY <2>1, <2>2
  <2> QED BY <2>3
<1>3. upTo = [i \in Nat |->
             IF i = 0 THEN <<>>
             ELSE IF IsEntry(slots[i]) THEN Append(upTo[i - 1], slots[i]) ELSE upTo[i - 1]]
  BY <1>2, Zenon DEF upTo
<1>4. EntriesIn(slots) = upTo[Len(SlotsUpToEnd(slots))]
  BY DEF EntriesIn
<1> HIDE DEF upTo
<1>5. ASSUME NEW n \in Nat
      PROVE  upTo[n + 1] = IF IsEntry(slots[n + 1]) THEN Append(upTo[n], slots[n + 1]) ELSE upTo[n]
  <2>1. n + 1 \in Nat /\ n + 1 # 0 /\ (n + 1) - 1 = n
    OBVIOUS
  <2> QED BY <1>3, <2>1
<1>6. 0 \in T
  <2>1. upTo[0] = <<>>
    BY <1>3
  <2>2. Good(<<>>, 0)
    OBVIOUS
  <2> QED BY <2>1, <2>2
<1>7. ASSUME NEW n \in T PROVE n + 1 \in T
  <2>1. SUFFICES ASSUME n + 1 <= SLOTS PROVE Good(upTo[n + 1], n + 1)
    OBVIOUS
  <2>2. n \in Nat /\ n + 1 \in 1..SLOTS /\ Good(upTo[n], n)
    BY <2>1, DiskAssumption
  <2>3. slots[n + 1] \in SlotSet
    BY <2>2 DEF SlotSeq
  <2>4. CASE IsEntry(slots[n + 1])
    <3>1. upTo[n + 1] = Append(upTo[n], slots[n + 1])
      BY <1>5, <2>2, <2>4
    <3> QED BY <2>2, <2>3, <2>4, <3>1
  <2>5. CASE ~IsEntry(slots[n + 1])
    <3>1. upTo[n + 1] = upTo[n]
      BY <1>5, <2>2, <2>5
    <3> QED BY <2>2, <3>1
  <2> QED BY <2>4, <2>5
<1>8. \A n \in Nat : n \in T
  <2> HIDE DEF T
  <2> QED BY <1>6, <1>7, Induction, T \subseteq Nat DEF T
<1>9. Len(SlotsUpToEnd(slots)) \in 0..SLOTS
  BY EndSlotType, DiskAssumption DEF SlotSeq
<1> QED BY <1>4, <1>8, <1>9, DiskAssumption

----------------------------------------------------------------------------
(* The type invariant, by part of the state.                                  *)
FolderSet == [name : NameSet, cluster : Nat]
PartSet ==
  [lba : Nat, label : NameSet, bps : Nat, spc : Nat \ {0}, nfats : Nat, spf : Nat, root : Nat,
   fatBegin : Nat, fat2Begin : Nat, dataBegin : Nat]
HandleSet ==
  [inUse : BOOLEAN, file : SlotSet, offset : Nat, clusters : Seq(Nat), overflow : BOOLEAN]
BpbSet ==
  [k : {"bpb"}, bps : Nat, spc : Nat, rsv : Nat, nfats : Nat, spf : Nat, root : Nat]
Mounted == pc \notin {"boot", "mbr", "bpb", "halted"}

CardType ==
  /\ disk \in [DOMAIN disk -> Sector] /\ DOMAIN disk \subseteq Nat
  /\ sdbuf \in Sector /\ ignoreCrc \in BOOLEAN
PlaceType ==
  /\ path \in Seq(FolderSet) /\ Len(path) <= MAX_DEPTH
  /\ Mounted => part \in PartSet /\ cur \in FolderSet /\ path # <<>>
  /\ pc = "bpb" => ValidMbr(sdbuf)
HandleType ==
  /\ handles \in [Fds -> HandleSet]
  /\ \A fd \in Fds : Len(handles[fd].clusters) <= LLSZ
JobType ==
  /\ job = [op |-> job.op, name |-> job.name, fd |-> job.fd, want |-> job.want]
  /\ job.name \in NameSet /\ job.fd \in Fds \cup {-1} /\ job.want \in Nat
  /\ pc = "reading" => job.fd \in Fds
LoopType ==
  /\ ll \in Seq(Nat) /\ Len(ll) <= LLSZ
  /\ next \in Nat /\ ctr \in Nat /\ sec \in Nat
  /\ files \in Seq(SlotSet) /\ Len(files) <= MAX_FILES
  /\ pc = "scan" => ctr \in 1..Len(ll) /\ sec \in 0..(part.spc - 1)
  /\ pc = "loading" => ctr > 0
TypeInv == CardType /\ PlaceType /\ HandleType /\ JobType /\ LoopType

LEMMA LayoutType ==
  ASSUME NEW a \in Nat, NEW b \in BpbSet
  PROVE  /\ Layout(a, b).spc # 0 => Layout(a, b) \in PartSet
         /\ Layout(a, b).spc = b.spc /\ Layout(a, b).root = b.root
         /\ Layout(a, b).nfats = b.nfats /\ Layout(a, b).spf = b.spf
         /\ Layout(a, b).fatBegin = a + b.rsv /\ Layout(a, b).fat2Begin = a + b.rsv + b.spf
         /\ Layout(a, b).dataBegin = a + b.rsv + b.nfats * b.spf
<1>1. /\ b.nfats \in Nat /\ b.spf \in Nat /\ b.rsv \in Nat /\ b.bps \in Nat /\ b.spc \in Nat
      /\ b.root \in Nat
  BY DEF BpbSet
<1>2. b.nfats * b.spf \in Nat
  BY <1>1
<1>3. /\ Layout(a, b).lba = a /\ Layout(a, b).label = Name("", "") /\ Layout(a, b).bps = b.bps
      /\ Layout(a, b).spc = b.spc /\ Layout(a, b).root = b.root
      /\ Layout(a, b).nfats = b.nfats /\ Layout(a, b).spf = b.spf
  BY DEF Layout
<1>4. Layout(a, b).fatBegin = a + b.rsv /\ Layout(a, b).fat2Begin = a + b.rsv + b.spf
  BY DEF Layout
<1>5. Layout(a, b).dataBegin = a + b.rsv + b.nfats * b.spf
  BY DEF Layout
<1>6. b.spc # 0 => Layout(a, b) \in PartSet
  <2> DEFINE p == Layout(a, b)
  <2>1. p = [lba |-> p.lba, label |-> p.label, bps |-> p.bps, spc |-> p.spc,
             nfats |-> p.nfats, spf |-> p.spf, root |-> p.root, fatBegin |-> p.fatBegin,
             fat2Begin |-> p.fat2Begin, dataBegin |-> p.dataBegin]
    BY DEF Layout
  <2>2. p.fatBegin \in Nat /\ p.fat2Begin \in Nat /\ p.dataBegin \in Nat
    BY <1>1, <1>2, <1>4, <1>5
  <2>3. p.label \in NameSet
    BY <1>3, NameType
  <2> HIDE DEF p
  <2> QED BY <1>1, <1>3, <2>1, <2>2, <2>3 DEF PartSet, p
<1> QED BY <1>3, <1>4, <1>5, <1>6

LEMMA InvImpliesTypeOK == TypeInv => TypeOK
BY DEF TypeInv, CardType, PlaceType, HandleType, JobType, LoopType, TypeOK, HandleSet

(* A transfer leaves a sector in the buffer.                                  *)
LEMMA ReadType ==
  ASSUME CardType, NEW lba, ReadSector(lba) \/ ReadRefused(lba)
  PROVE  CardType' /\ disk' = disk
BY ClobberedType DEF CardType, ReadSector, ReadRefused

LEMMA WriteType ==
  ASSUME CardType, NEW lba, NEW content \in Sector, WriteSector(lba, content) \/ WriteFailed(lba, content)
  PROVE  CardType'
<1>1. [disk EXCEPT ![lba] = content] \in [DOMAIN disk -> Sector]
  BY DEF CardType
<1>2. disk' \in [DOMAIN disk -> Sector] /\ sdbuf' = content /\ ignoreCrc' = ignoreCrc
  BY <1>1 DEF CardType, WriteSector, WriteFailed
<1> QED BY <1>2 DEF CardType

(* The end of a routine.                                                      *)
LEMMA NoJobType == NoJob.name \in NameSet /\ NoJob.fd = -1 /\ NoJob.want = 0
BY NameType DEF NoJob

LEMMA ReturnType ==
  ASSUME NEW v, Return(v)
  PROVE  JobType' /\ LoopType' /\ pc' = "prompt"
<1>1. pc' = "prompt" /\ job' = NoJob /\ ll' = <<>> /\ next' = 0 /\ ctr' = 0 /\ sec' = 0 /\ files' = <<>>
  BY DEF Return
<1>2. JobType'
  BY <1>1, NoJobType DEF JobType, NoJob
<1>3. LoopType'
  BY <1>1, DiskAssumption, FatAssumption DEF LoopType
<1> QED BY <1>1, <1>2, <1>3

LEMMA MountTypes == TypeInv /\ Mount => TypeInv'
<1> SUFFICES ASSUME TypeInv, Mount PROVE TypeInv'
  OBVIOUS
<1> USE DEF TypeInv
<1>1. CASE BootSd
  <2>1. /\ UNCHANGED <<sdVars, dirVars, handles, job, ll, next, sec, files>> /\ ctr' \in Nat
        /\ pc' \in {"boot", "mbr", "halted"}
    BY <1>1 DEF BootSd, LoopType
  <2> QED BY <2>1 DEF sdVars, dirVars, CardType, PlaceType, HandleType, JobType, LoopType, Mounted
<1>2. CASE ReadMbr
  <2>1. /\ ReadSector(0) \/ ReadRefused(0)
        /\ UNCHANGED <<dirVars, handles, job, loopVars>>
        /\ pc' = "halted" \/ (pc' = "bpb" /\ ValidMbr(sdbuf'))
    BY <1>2 DEF ReadMbr, Mounting
  <2>2. CardType'
    BY <2>1, ReadType
  <2>3. PlaceType' /\ HandleType' /\ JobType' /\ LoopType'
    BY <2>1 DEF dirVars, loopVars, PlaceType, HandleType, JobType, LoopType, Mounted
  <2> QED BY <2>2, <2>3
<1>3. CASE ReadPartition
  <2>1. /\ ReadSector(sdbuf.lba) \/ ReadRefused(sdbuf.lba)
        /\ UNCHANGED <<handles, job, loopVars>>
        /\ \/ pc' = "halted" /\ UNCHANGED dirVars
           \/ /\ sdbuf'.k = "bpb" /\ ValidLayout(Layout(sdbuf.lba, sdbuf'))
              /\ part' = Layout(sdbuf.lba, sdbuf') /\ pc' = "label"
              /\ cur' = [name |-> Name("", ""), cluster |-> part'.root] /\ path' = <<cur'>>
    BY <1>3 DEF ReadPartition, Mounting
  <2>2. CardType'
    BY <2>1, ReadType
  <2>3. HandleType' /\ JobType' /\ LoopType'
    BY <2>1 DEF loopVars, HandleType, JobType, LoopType
  <2>4. PlaceType'
    <3>1. CASE pc' = "halted" /\ UNCHANGED dirVars
      BY <3>1 DEF PlaceType, dirVars, Mounted
    <3>2. CASE pc' # "halted"
      <4>1. sdbuf.lba \in Nat
        BY <1>3 DEF ReadPartition, PlaceType, CardType, ValidMbr, Sector
      <4>2. /\ sdbuf'.k = "bpb" /\ ValidLayout(Layout(sdbuf.lba, sdbuf'))
            /\ part' = Layout(sdbuf.lba, sdbuf') /\ pc' = "label"
            /\ cur' = [name |-> Name("", ""), cluster |-> part'.root] /\ path' = <<cur'>>
        BY <2>1, <3>2
      <4>3. sdbuf' \in BpbSet
        BY <2>2, <4>2 DEF CardType, Sector, BpbSet
      <4>4. part' \in PartSet
        <5>1. ASSUME NEW p, ValidLayout(p) PROVE p.spc # 0
          BY <5>1 DEF ValidLayout
        <5> QED BY <4>1, <4>2, <4>3, <5>1, LayoutType
      <4>5. part'.root \in Nat
        BY <4>4 DEF PartSet
      <4>6. cur' \in FolderSet
        BY <4>2, <4>5, NameType DEF FolderSet
      <4>7. path' \in Seq(FolderSet) /\ Len(path') = 1 /\ path' # <<>>
        <5>1. \A x \in FolderSet : <<x>> \in Seq(FolderSet) /\ Len(<<x>>) = 1 /\ <<x>> # <<>>
          OBVIOUS
        <5> QED BY <4>2, <4>6, <5>1
      <4>8. Len(path') <= MAX_DEPTH
        BY <4>7, FatAssumption
      <4>9. pc' # "bpb"
        BY <4>2
      <4> QED BY <4>4, <4>6, <4>7, <4>8, <4>9 DEF PlaceType
    <3> QED BY <2>1, <3>1, <3>2
  <2> QED BY <2>2, <2>3, <2>4
<1>4. CASE ReadLabel
  <2> DEFINE lba == DataLba(part, part.root, 0)
  <2>1. /\ ReadSector(lba) \/ ReadRefused(lba)
        /\ UNCHANGED <<handles, job, loopVars>>
        /\ \/ pc' = "halted" /\ UNCHANGED dirVars
           \/ /\ part' = [part EXCEPT !.label = Slots(sdbuf')[1].name]
              /\ pc' = "prompt" /\ UNCHANGED <<cur, path>>
    BY <1>4 DEF ReadLabel, Mounting
  <2>2. CardType'
    BY <2>1, ReadType
  <2>3. HandleType' /\ JobType' /\ LoopType'
    BY <2>1 DEF loopVars, HandleType, JobType, LoopType
  <2>4. PlaceType'
    <3>1. Slots(sdbuf')[1] \in SlotSet
      BY <2>2, SlotsType, DiskAssumption DEF CardType, SlotSeq
    <3>2. Slots(sdbuf')[1].name \in NameSet
      BY <3>1 DEF SlotSet
    <3>3. part \in PartSet /\ cur \in FolderSet /\ path # <<>>
      BY <1>4 DEF ReadLabel, PlaceType, Mounted
    <3>4. [part EXCEPT !.label = Slots(sdbuf')[1].name] \in PartSet
      BY <3>2, <3>3 DEF PartSet
    <3> QED BY <2>1, <3>3, <3>4 DEF PlaceType, dirVars, Mounted
  <2> QED BY <2>2, <2>3, <2>4
<1> QED BY <1>1, <1>2, <1>3, <1>4 DEF Mount

(* What a call that starts a routine leaves behind.                           *)
LEMMA Make83Type ==
  ASSUME NEW arg \in MkdirArgs \cup TouchArgs \cup ChdirArgs \cup OpenArgs \cup LoadArgs
  PROVE  Make83(arg) \in NameSet
<1>1. arg.stem \in Text /\ arg.ext \in Text /\ "" \in Text
  BY CallAssumption, TextAssumption
<1>2. Name(arg.stem, arg.ext) \in NameSet /\ Name(arg.stem, "") \in NameSet
  BY <1>1 DEF Name, NameSet
<1> QED BY <1>2, NameType DEF Make83

LEMMA BeginType ==
  ASSUME JobType, NEW op, NEW nm \in NameSet, NEW at \in {"chain", "findfree", "slotread"}, Begin(op, nm, at)
  PROVE  JobType' /\ pc' = at /\ pc = "prompt"
<1>1. pc' = at /\ pc = "prompt" /\ job' = [NoJob EXCEPT !.op = op, !.name = nm]
  BY DEF Begin
<1>2. job' = [op |-> op, name |-> nm, fd |-> -1, want |-> 0]
  BY <1>1 DEF NoJob
<1>3. job'.op = op /\ job'.name = nm /\ job'.fd = -1 /\ job'.want = 0
  BY <1>2
<1>4. job' = [op |-> job'.op, name |-> job'.name, fd |-> job'.fd, want |-> job'.want]
  BY <1>2
<1>5. pc' # "reading"
  BY <1>1
<1> QED BY <1>1, <1>3, <1>4, <1>5 DEF JobType

LEMMA ShowTypes ==
  ASSUME TypeInv, NEW op, NEW v, NEW text, Show(op, v, text), PlaceType', HandleType'
  PROVE  TypeInv'
<1>1. UNCHANGED <<sdVars, pc, job, loopVars>> /\ pc = "prompt"
  BY DEF Show
<1>2. CardType' /\ JobType' /\ LoopType'
  BY <1>1 DEF TypeInv, CardType, JobType, LoopType, sdVars, loopVars
<1> QED BY <1>2 DEF TypeInv

LEMMA ReadDirTypes ==
  ASSUME TypeInv, NEW op, NEW nm \in NameSet, ReadDir(op, nm)
  PROVE  TypeInv'
<1> USE DEF TypeInv
<1>1. Begin(op, nm, "chain") /\ StartChain(cur.cluster) /\ UNCHANGED <<sdVars, dirVars, handles>>
  BY DEF ReadDir
<1>2. JobType' /\ pc' = "chain" /\ pc = "prompt"
  BY <1>1, BeginType
<1>3. cur \in FolderSet
  BY <1>2 DEF PlaceType, Mounted
<1>4. CardType' /\ PlaceType' /\ HandleType'
  BY <1>1, <1>2 DEF CardType, PlaceType, HandleType, sdVars, dirVars, Mounted
<1>5. LoopType'
  <2>1. cur.cluster \in Nat
    BY <1>3 DEF FolderSet
  <2> QED BY <1>1, <1>2, <2>1, DiskAssumption, FatAssumption DEF StartChain, LoopType
<1> QED BY <1>2, <1>4, <1>5

LEMMA BeginTypes ==
  ASSUME TypeInv, NEW op, NEW nm \in NameSet, NEW at \in {"findfree", "slotread"},
         Begin(op, nm, at), UNCHANGED <<sdVars, loopVars>>, UNCHANGED <<dirVars, handles>>
  PROVE  TypeInv'
<1> USE DEF TypeInv
<1>1. JobType' /\ pc' = at /\ pc = "prompt"
  BY BeginType
<1>2. CardType' /\ PlaceType' /\ HandleType' /\ LoopType'
  BY <1>1 DEF CardType, PlaceType, HandleType, LoopType, sdVars, dirVars, loopVars, Mounted
<1> QED BY <1>1, <1>2

(* Calls from the prompt.                                                     *)
LEMMA CallTypes == TypeInv /\ Call => TypeInv'
<1> SUFFICES ASSUME TypeInv, Call PROVE TypeInv'
  OBVIOUS
<1> USE DEF Immediate
<1>1. CASE ListDir
  BY <1>1, ReadDirTypes, NameType DEF ListDir
<1>2. CASE Getcwd \/ PrintPartitionInfo
  <2>1. PICK op, v, text : Show(op, v, text) /\ UNCHANGED <<dirVars, handles>>
    BY <1>2 DEF Getcwd, PrintPartitionInfo
  <2>2. UNCHANGED pc
    BY <2>1 DEF Show
  <2>3. PlaceType' /\ HandleType'
    BY <2>1, <2>2 DEF TypeInv, PlaceType, HandleType, dirVars, Show, sdVars, Mounted
  <2> QED BY <2>1, <2>3, ShowTypes
<1>3. CASE ChdirRoot \/ ChdirUp
  <2>1. PICK v : Show("chdir", v, <<>>)
    BY <1>3 DEF ChdirRoot, ChdirUp
  <2>2. pc = "prompt" /\ pc' = "prompt" /\ UNCHANGED sdbuf
    BY <2>1 DEF Show, sdVars
  <2>3. part \in PartSet /\ cur \in FolderSet /\ path \in Seq(FolderSet) /\ path # <<>>
        /\ Len(path) <= MAX_DEPTH
    BY <2>2 DEF TypeInv, PlaceType, Mounted
  <2>4. HandleType' /\ part' = part
    BY <1>3 DEF ChdirRoot, ChdirUp, TypeInv, HandleType
  <2>5. cur' \in FolderSet /\ path' \in Seq(FolderSet) /\ path' # <<>> /\ Len(path') <= MAX_DEPTH
    <3>1. CASE ChdirRoot
      BY <2>3, <3>1, FatAssumption DEF ChdirRoot
    <3>2. CASE ChdirUp
      <4>1. CASE Len(path) > 1
        <5>1. Front(path) \in Seq(FolderSet) /\ Len(Front(path)) = Len(path) - 1
          BY <2>3, <4>1 DEF Front
        <5>2. Last(Front(path)) \in FolderSet /\ Front(path) # <<>>
          BY <4>1, <2>3, <5>1 DEF Last
        <5>3. path' = Front(path) /\ cur' = Last(Front(path))
          BY <3>2, <4>1 DEF ChdirUp
        <5>4. Len(Front(path)) <= MAX_DEPTH
          BY <2>3, <5>1, FatAssumption
        <5> QED BY <5>1, <5>2, <5>3, <5>4
      <4>2. CASE ~(Len(path) > 1)
        BY <2>3, <3>2, <4>2 DEF ChdirUp
      <4> QED BY <4>1, <4>2
    <3> QED BY <1>3, <3>1, <3>2
  <2>6. PlaceType'
    BY <2>2, <2>3, <2>4, <2>5 DEF PlaceType
  <2> QED BY <2>1, <2>4, <2>6, ShowTypes
<1>4. ASSUME NEW v, NEW op, Immediate(op, v), UNCHANGED <<dirVars, handles>> PROVE TypeInv'
  <2>1. UNCHANGED pc /\ UNCHANGED sdbuf
    BY <1>4 DEF Show, sdVars
  <2>2. PlaceType' /\ HandleType'
    BY <1>4, <2>1 DEF TypeInv, PlaceType, HandleType, dirVars, Mounted
  <2> QED BY <1>4, <2>2, ShowTypes
<1>5. ASSUME NEW arg \in ChdirArgs, ChdirName(arg) PROVE TypeInv'
  BY <1>4, <1>5, Make83Type, ReadDirTypes DEF ChdirName
<1>6. ASSUME NEW arg \in OpenArgs, Open(arg) PROVE TypeInv'
  BY <1>4, <1>6, Make83Type, ReadDirTypes DEF Open
<1>7. ASSUME NEW arg \in LoadArgs, LoadFile(arg) PROVE TypeInv'
  BY <1>4, <1>7, Make83Type, ReadDirTypes DEF LoadFile
<1>8. ASSUME NEW arg \in MkdirArgs, Mkdir(arg) PROVE TypeInv'
  <2>1. Make83(arg) \in NameSet
    BY Make83Type
  <2> QED BY <1>4, <1>8, <2>1, BeginTypes DEF Mkdir
<1>9. ASSUME NEW arg \in TouchArgs, Touch(arg) PROVE TypeInv'
  <2>1. Make83(arg) \in NameSet
    BY Make83Type
  <2> QED BY <1>4, <1>9, <2>1, BeginTypes DEF Touch
<1>10. ASSUME NEW fd \in Fds, Close(fd) PROVE TypeInv'
  <2>1. Show("close", 0, <<>>) /\ UNCHANGED dirVars
    BY <1>10 DEF Close
  <2>2. UNCHANGED pc /\ UNCHANGED sdbuf
    BY <2>1 DEF Show, sdVars
  <2>3. PlaceType'
    BY <2>1, <2>2 DEF TypeInv, PlaceType, dirVars, Mounted
  <2>4. HandleType'
    <3> DEFINE h == [handles[fd] EXCEPT !.inUse = FALSE, !.offset = 0, !.clusters = <<>>, !.overflow = FALSE]
    <3>1. handles' = [handles EXCEPT ![fd] = h]
      BY <1>10 DEF Close, TypeInv, HandleType
    <3>2. h \in HandleSet /\ h.clusters = <<>>
      <4>1. ASSUME NEW r \in HandleSet, NEW s \in Seq(Nat)
            PROVE  LET q == [r EXCEPT !.inUse = FALSE, !.offset = 0, !.clusters = s, !.overflow = FALSE]
                   IN q \in HandleSet /\ q.clusters = s
        BY DEF HandleSet
      <4>2. handles[fd] \in HandleSet /\ <<>> \in Seq(Nat)
        BY DEF TypeInv, HandleType
      <4> QED BY <4>1, <4>2, Zenon
    <3> HIDE DEF h
    <3> QED BY <3>1, <3>2, DiskAssumption DEF TypeInv, HandleType
  <2> QED BY <2>1, <2>3, <2>4, ShowTypes
<1>11. ASSUME NEW fd \in Fds, NEW len \in ReadLens, Read(fd, len) PROVE TypeInv'
  <2>1. CASE Immediate("read", 0) /\ UNCHANGED <<dirVars, handles>>
    BY <1>4, <2>1
  <2>2. CASE ~(len = 0 \/ ~handles[fd].inUse \/ handles[fd].overflow \/ Left(fd) <= 0)
    <3>1. /\ pc = "prompt" /\ pc' = "reading" /\ UNCHANGED <<sdVars, loopVars>>
          /\ job' = [op |-> "read", name |-> NoName, fd |-> fd, want |-> Smaller(Left(fd), len)]
          /\ UNCHANGED <<dirVars, handles>>
      BY <1>11, <2>2 DEF Read
    <3>2. Smaller(Left(fd), len) \in Nat
      <4>1. handles[fd] \in HandleSet
        BY DEF TypeInv, HandleType
      <4>2. handles[fd].file \in SlotSet /\ handles[fd].offset \in Nat
        BY <4>1 DEF HandleSet
      <4>3. handles[fd].file.size \in Nat
        BY <4>2 DEF SlotSet
      <4>4. len \in Nat
        BY FatAssumption
      <4>5. Left(fd) > 0
        BY <2>2, <4>2, <4>3 DEF Left
      <4> QED BY <4>2, <4>3, <4>4, <4>5 DEF Smaller, Left
    <3>3. JobType'
      <4>1. job'.name = NoName /\ job'.fd = fd /\ job'.want = Smaller(Left(fd), len)
            /\ job'.op = "read"
        BY <3>1
      <4>2. job' = [op |-> job'.op, name |-> job'.name, fd |-> job'.fd, want |-> job'.want]
        BY <3>1
      <4> QED BY <3>2, <4>1, <4>2, NameType DEF JobType
    <3>4. CardType' /\ HandleType' /\ LoopType' /\ PlaceType'
      BY <3>1 DEF TypeInv, CardType, PlaceType, HandleType, LoopType, sdVars, dirVars, loopVars, Mounted
    <3> QED BY <3>3, <3>4 DEF TypeInv
  <2> QED BY <1>11, <2>1, <2>2 DEF Read
<1> QED
  BY <1>1, <1>2, <1>3, <1>5, <1>6, <1>7, <1>8, <1>9, <1>10, <1>11 DEF Call

(* Chains of clusters and folders.                                            *)
LEMMA ChainTypes ==
  TypeInv /\ (FollowChain \/ DirChainDone \/ ScanSector) => TypeInv'
<1> SUFFICES ASSUME TypeInv, FollowChain \/ DirChainDone \/ ScanSector PROVE TypeInv'
  OBVIOUS
<1> USE DEF TypeInv
<1>0. pc \in {"chain", "scan"}
  BY DEF FollowChain, DirChainDone, ScanSector
<1>1. part \in PartSet /\ cur \in FolderSet /\ path # <<>>
  BY <1>0 DEF PlaceType, Mounted
<1>2. ASSUME UNCHANGED dirVars, pc' # "bpb" PROVE PlaceType'
  BY <1>1, <1>2 DEF PlaceType, dirVars
<1>3. ASSUME NEW lba, ReadRefused(lba), Abandon \/ UNCHANGED handles, Return(ERR), UNCHANGED <<dirVars, mem>>
      PROVE TypeInv'
  <2>1. CardType'
    BY <1>3, ReadType
  <2>2. JobType' /\ LoopType' /\ pc' = "prompt"
    BY <1>3, ReturnType
  <2>3. HandleType'
    BY <1>3 DEF Abandon, HandleType, HandleSet
  <2> QED BY <1>2, <1>3, <2>1, <2>2, <2>3
<1>4. CASE FollowChain
  <2>1. CASE ReadSector(FatLba(part, next)) /\ ll' = Append(ll, next)
             /\ next' = FatItem(sdbuf', next % EPF)
             /\ UNCHANGED <<handles, pc, job, ctr, sec, files, ret>>
    <3>1. CardType'
      BY <2>1, ReadType
    <3>2. PlaceType'
      BY <1>0, <1>2, <1>4, <2>1 DEF FollowChain
    <3>3. HandleType' /\ JobType'
      BY <2>1 DEF HandleType, JobType
    <3>4. next' \in Nat
      <4>1. next % EPF \in 0..(EPF - 1)
        BY DiskAssumption DEF LoopType
      <4> QED BY <2>1, <3>1, <4>1, FatItemType DEF CardType
    <3>5. ll' \in Seq(Nat) /\ Len(ll') <= LLSZ
      BY <1>4, <2>1, DiskAssumption DEF FollowChain, ChainGoesOn, LoopType
    <3>6. LoopType'
      BY <1>4, <2>1, <3>4, <3>5 DEF FollowChain, LoopType
    <3> QED BY <3>1, <3>2, <3>3, <3>6
  <2>2. CASE ReadRefused(FatLba(part, next)) /\ ChainRefused
    BY <1>3, <1>4, <2>2 DEF FollowChain, ChainRefused
  <2> QED BY <1>4, <2>1, <2>2 DEF FollowChain
<1>5. CASE DirChainDone
  <2>1. /\ pc' = (IF ll = <<>> THEN "search" ELSE "scan") /\ ctr' = 1 /\ sec' = 0
        /\ UNCHANGED <<sdVars, dirVars, handles, job, ll, next, files>>
    BY <1>5 DEF DirChainDone
  <2>2. CardType' /\ HandleType' /\ JobType' /\ PlaceType'
    BY <1>2, <2>1 DEF CardType, HandleType, JobType, sdVars
  <2>3. LoopType'
    <3>1. part'.spc \in Nat \ {0}
      BY <1>1, <2>1 DEF PartSet, dirVars
    <3>2. pc' = "scan" => Len(ll) >= 1
      BY <2>1 DEF LoopType
    <3> QED BY <2>1, <3>1, <3>2 DEF LoopType
  <2> QED BY <2>2, <2>3
<1>6. CASE ScanSector
  <2> DEFINE lba == DataLba(part, ll[ctr], sec)
             all == files \o EntriesIn(Slots(sdbuf'))
  <2>1. CASE ReadRefused(lba) /\ Return(ERR)
    BY <1>3, <1>6, <2>1 DEF ScanSector
  <2>2. CASE ReadSector(lba)
    <3>1. CardType' /\ HandleType'
      BY <1>6, <2>2, ReadType DEF ScanSector, HandleType
    <3>2. all \in Seq(SlotSet)
      <4>1. EntriesIn(Slots(sdbuf')) \in Seq(SlotSet)
        BY <3>1, SlotsType, EntriesType DEF CardType
      <4> QED BY <4>1 DEF LoopType
    <3>3. CASE Return(ERR)
      BY <1>2, <1>6, <3>1, <3>3, ReturnType DEF ScanSector
    <3>4. CASE /\ Len(all) <= MAX_FILES /\ files' = all /\ pc' = "search"
               /\ UNCHANGED <<job, ll, next, ctr, sec, ret>>
      <4>1. JobType' /\ LoopType'
        BY <3>2, <3>4 DEF JobType, LoopType
      <4> QED BY <1>2, <1>6, <3>1, <3>4, <4>1 DEF ScanSector
    <3>5. CASE /\ Len(all) <= MAX_FILES /\ ~LastSector
               /\ files' = all /\ NextSector /\ UNCHANGED <<pc, job, ll, next, ret>>
      <4>1. part.spc \in Nat \ {0}
        BY <1>1 DEF PartSet
      <4>2. ctr \in 1..Len(ll) /\ sec \in 0..(part.spc - 1)
        BY <1>6 DEF ScanSector, LoopType
      <4>3. ctr' \in 1..Len(ll) /\ sec' \in 0..(part.spc - 1)
        BY <3>5, <4>1, <4>2 DEF LastSector, NextSector, LoopType
      <4>4. part' = part
        BY <1>6 DEF ScanSector, dirVars
      <4>5. JobType' /\ LoopType'
        <5> HIDE DEF all
        <5> QED BY <3>2, <3>5, <4>3, <4>4 DEF JobType, LoopType
      <4> QED BY <1>0, <1>2, <1>6, <3>1, <3>5, <4>5 DEF ScanSector
    <3> QED BY <1>6, <2>2, <3>3, <3>4, <3>5, <2>1 DEF ScanSector
  <2> QED BY <1>6, <2>1, <2>2 DEF ScanSector
<1> QED BY <1>4, <1>5, <1>6

(* A routine that ends without a change to the handles or the path.           *)
LEMMA EndTypes ==
  ASSUME TypeInv, Mounted, CardType', NEW v, Return(v), UNCHANGED <<dirVars, handles>>
  PROVE  TypeInv'
<1>1. JobType' /\ LoopType' /\ pc' = "prompt"
  BY ReturnType
<1>2. PlaceType' /\ HandleType'
  BY <1>1 DEF TypeInv, PlaceType, HandleType, dirVars
<1> QED BY <1>1, <1>2 DEF TypeInv

(* A routine that goes on with the same handles, path, job and list.          *)
LEMMA OnTypes ==
  ASSUME TypeInv, Mounted, CardType', pc' \notin {"scan", "reading", "loading", "bpb"}, next' \in Nat, sec' \in Nat,
         UNCHANGED <<dirVars, handles, job, ll, ctr, files>>
  PROVE  TypeInv'
BY DEF TypeInv, PlaceType, HandleType, JobType, LoopType, dirVars

LEMMA MkdirTypes ==
  TypeInv /\ ( \/ FindFreeCluster \/ ReadFatSector \/ WriteFatSector \/ MirrorFatSector
               \/ ClearCluster \/ ReadFolderSector \/ WriteFolderSector )
    => TypeInv'
<1> SUFFICES ASSUME TypeInv,
                    \/ FindFreeCluster \/ ReadFatSector \/ WriteFatSector \/ MirrorFatSector
                    \/ ClearCluster \/ ReadFolderSector \/ WriteFolderSector
             PROVE  TypeInv'
  OBVIOUS
<1>0. /\ Mounted /\ UNCHANGED <<dirVars, handles>> /\ CardType
      /\ next \in Nat /\ sec \in Nat /\ job.name \in NameSet /\ sdbuf \in Sector
      /\ part \in PartSet /\ cur \in FolderSet
  BY DEF FindFreeCluster, ReadFatSector, WriteFatSector, MirrorFatSector, ClearCluster,
         ReadFolderSector, WriteFolderSector, Mounted, TypeInv, CardType, LoopType, JobType, PlaceType
<1>1. ASSUME NEW lba, ReadSector(lba) \/ ReadRefused(lba) PROVE CardType'
  BY <1>0, <1>1, ReadType
<1>2. ASSUME NEW lba, NEW content \in Sector, WriteSector(lba, content) \/ WriteFailed(lba, content)
      PROVE  CardType'
  BY <1>0, <1>2, WriteType
<1>3. CASE FindFreeCluster
  <2>1. CardType'
    BY <1>1, <1>3 DEF FindFreeCluster
  <2>2. CASE Return(ERR)
    BY <1>0, <2>1, <2>2, EndTypes
  <2>3. CASE /\ FreeClusters(sdbuf') # {} /\ next' = FirstOf(FreeClusters(sdbuf')) /\ pc' = "fatread"
             /\ UNCHANGED <<job, ll, ctr, sec, files, ret>>
    <3>1. FreeClusters(sdbuf') \in SUBSET Nat
      BY FatAssumption, DiskAssumption DEF FreeClusters
    <3>2. next' \in Nat
      BY <2>3, <3>1, FirstOfIn
    <3> QED BY <1>0, <2>1, <2>3, <3>2, OnTypes
  <2> QED BY <1>3, <2>2, <2>3 DEF FindFreeCluster
<1>4. CASE ReadFatSector
  BY <1>0, <1>1, <1>4, EndTypes, OnTypes DEF ReadFatSector, loopVars
<1>5. CASE WriteFatSector
  <2>1. WithItem(sdbuf, next, EOC) \in Sector
    BY <1>0, WithItemType, DiskAssumption
  <2> QED BY <1>0, <1>2, <1>5, <2>1, EndTypes, OnTypes DEF WriteFatSector, FailOnWrite, loopVars
<1>6. CASE MirrorFatSector
  BY <1>0, <1>2, <1>6, EndTypes, OnTypes DEF MirrorFatSector, FailOnWrite, loopVars
<1>7. CASE ClearCluster
  <2>1. NewDirSector \in Sector
    BY <1>0, NewSectorType DEF NewDirSector, FolderSet
  <2>2. CardType'
    BY <1>2, <1>7, <2>1 DEF ClearCluster, FailOnWrite
  <2>3. CASE Return(ERR)
    BY <1>0, <2>2, <2>3, EndTypes
  <2>4. CASE (IF MoreToClear THEN sec' = sec + 1 /\ pc' = pc ELSE sec' = 0 /\ pc' = "slotread")
             /\ UNCHANGED <<job, ll, next, ctr, files, ret>>
    <3>1. sec' \in Nat /\ pc' \in {"clear", "slotread"}
      BY <1>0, <1>7, <2>4 DEF ClearCluster
    <3> QED BY <1>0, <2>2, <2>4, <3>1, OnTypes
  <2> QED BY <1>7, <2>3, <2>4 DEF ClearCluster, FailOnWrite
<1>8. CASE ReadFolderSector
  BY <1>0, <1>1, <1>8, EndTypes, OnTypes DEF ReadFolderSector, loopVars
<1>9. CASE WriteFolderSector
  <2>1. WithSlot(sdbuf, NewEntry) \in Sector
    <3>1. NewEntry \in SlotSet
      BY <1>0, SlotType DEF NewEntry
    <3> QED BY <1>0, <3>1, WithSlotType
  <2> QED BY <1>0, <1>2, <1>9, <2>1, EndTypes DEF WriteFolderSector, FailOnWrite
<1> QED BY <1>3, <1>4, <1>5, <1>6, <1>7, <1>8, <1>9

(* What a search of the listing finds.                                        *)
LEMMA SearchType ==
  ASSUME LoopType, NEW t
  PROVE  /\ SearchDir(t) \in 0..Len(files)
         /\ SearchDir(t) # 0 =>
              /\ files[SearchDir(t)] \in SlotSet
              /\ files[SearchDir(t)].t = t /\ files[SearchDir(t)].name = job.name
<1> DEFINE I == {i \in 1..Len(files) : files[i].t = t /\ files[i].name = job.name}
<1>1. files \in Seq(SlotSet)
  BY DEF LoopType
<1>2. SearchDir(t) = IF I # {} THEN Min(I) ELSE 0
  BY DEF SearchDir, SelectInSeq
<1>3. I # {} => Min(I) \in I
  <2> I \in SUBSET Nat
    OBVIOUS
  <2> HIDE DEF I
  <2> QED BY FirstIn
<1> QED BY <1>1, <1>2, <1>3

(* The handle table with one handle taken, advanced or given its clusters.    *)
LEMMA HandleUpdates ==
  ASSUME HandleType, NEW fd \in Fds
  PROVE  /\ \A slot \in SlotSet :
              LET hs == [handles EXCEPT ![fd].inUse = TRUE, ![fd].file = slot, ![fd].offset = 0]
              IN hs \in [Fds -> HandleSet] /\ \A g \in Fds : hs[g].clusters = handles[g].clusters
         /\ \A n \in Nat :
              LET hs == [handles EXCEPT ![fd].offset = @ + n]
              IN hs \in [Fds -> HandleSet] /\ \A g \in Fds : hs[g].clusters = handles[g].clusters
         /\ \A s \in Seq(Nat), b \in BOOLEAN :
              LET hs == [handles EXCEPT ![fd].clusters = s, ![fd].overflow = b]
              IN hs \in [Fds -> HandleSet]
                 /\ \A g \in Fds : hs[g].clusters = IF g = fd THEN s ELSE handles[g].clusters
<1>1. handles \in [Fds -> HandleSet]
  BY DEF HandleType
<1>2. ASSUME NEW h \in HandleSet, \A g \in Fds : handles[g] \in HandleSet,
             NEW hs, hs = [handles EXCEPT ![fd] = h]
      PROVE  /\ hs \in [Fds -> HandleSet]
             /\ \A g \in Fds : hs[g].clusters = IF g = fd THEN h.clusters ELSE handles[g].clusters
  BY <1>1, <1>2
<1>3. ASSUME NEW slot \in SlotSet, NEW hs, hs = [handles EXCEPT ![fd].inUse = TRUE, ![fd].file = slot, ![fd].offset = 0]
      PROVE  hs \in [Fds -> HandleSet] /\ \A g \in Fds : hs[g].clusters = handles[g].clusters
  <2> DEFINE h == [handles[fd] EXCEPT !.inUse = TRUE, !.file = slot, !.offset = 0]
  <2>1. hs = [handles EXCEPT ![fd] = h]
    BY <1>1, <1>3
  <2>2. h \in HandleSet
    BY <1>1 DEF HandleSet
  <2>3. h.clusters = handles[fd].clusters
    BY <1>1 DEF HandleSet
  <2> HIDE DEF h
  <2> QED BY <1>1, <1>2, <2>1, <2>2, <2>3
<1>4. ASSUME NEW n \in Nat, NEW hs, hs = [handles EXCEPT ![fd].offset = @ + n]
      PROVE  hs \in [Fds -> HandleSet] /\ \A g \in Fds : hs[g].clusters = handles[g].clusters
  <2> DEFINE m == handles[fd].offset + n
             h == [handles[fd] EXCEPT !.offset = m]
  <2>1. hs = [handles EXCEPT ![fd] = h]
    BY <1>1, <1>4
  <2>2. h \in HandleSet
    <3>1. m \in Nat
      BY <1>1 DEF HandleSet
    <3> HIDE DEF m
    <3> QED BY <1>1, <3>1 DEF HandleSet
  <2>3. h.clusters = handles[fd].clusters
    BY <1>1 DEF HandleSet
  <2> HIDE DEF h
  <2> QED BY <1>1, <1>2, <2>1, <2>2, <2>3
<1>5. ASSUME NEW s \in Seq(Nat), NEW b \in BOOLEAN, NEW hs,
             hs = [handles EXCEPT ![fd].clusters = s, ![fd].overflow = b]
      PROVE  hs \in [Fds -> HandleSet]
             /\ \A g \in Fds : hs[g].clusters = IF g = fd THEN s ELSE handles[g].clusters
  <2> DEFINE h == [handles[fd] EXCEPT !.clusters = s, !.overflow = b]
  <2>1. hs = [handles EXCEPT ![fd] = h]
    BY <1>1, <1>5
  <2>2. h \in HandleSet
    BY <1>1 DEF HandleSet
  <2>3. h.clusters = s
    BY <1>1 DEF HandleSet
  <2> HIDE DEF h
  <2> QED BY <1>1, <1>2, <2>1, <2>2, <2>3
<1> QED BY <1>3, <1>4, <1>5

(* The steps of ls behind its search: a page more, or the end.                *)
ListStep == FinishList \/ ListingKey
LEMMA ListingSteps ==
  ASSUME ListStep
  PROVE  /\ pc \in {"search", "paging"} /\ UNCHANGED <<sdVars, dirVars, handles, mem>>
         /\ \/ Return(0)
            \/ pc' = "paging" /\ UNCHANGED <<job, ll, next, sec, files, ret>> /\ (ctr \in Nat => ctr' \in Nat)
BY FatAssumption DEF ListStep, FinishList, ListingKey, NextPage

(* The routines that look for a folder or a file, and those that read one.    *)
LEMMA SearchTypes ==
  TypeInv /\ (FinishChdir \/ ListStep \/ FinishOpenSearch \/ FinishLoadSearch) => TypeInv'
<1> SUFFICES ASSUME TypeInv, FinishChdir \/ ListStep \/ FinishOpenSearch \/ FinishLoadSearch
             PROVE  TypeInv'
  OBVIOUS
<1>0. /\ Mounted /\ UNCHANGED sdVars /\ part' = part
      /\ part \in PartSet /\ cur \in FolderSet /\ path \in Seq(FolderSet) /\ path # <<>>
      /\ Len(path) <= MAX_DEPTH
  BY ListingSteps DEF FinishChdir, FinishOpenSearch, FinishLoadSearch, Mounted, TypeInv, PlaceType, dirVars
<1>1. CardType'
  BY <1>0 DEF TypeInv, CardType, sdVars
<1>2. CASE ListStep
  <2>1. UNCHANGED <<sdVars, dirVars, handles, mem>>
    BY <1>2, ListingSteps
  <2>2. CASE Return(0)
    BY <1>0, <1>1, <2>1, <2>2, EndTypes
  <2>3. CASE pc' = "paging" /\ UNCHANGED <<job, ll, next, sec, files, ret>> /\ (ctr \in Nat => ctr' \in Nat)
    BY <1>0, <1>1, <2>1, <2>3 DEF TypeInv, PlaceType, HandleType, JobType, LoopType, dirVars
  <2> QED BY <1>2, <2>2, <2>3, ListingSteps
<1>3. CASE FinishChdir
  <2> DEFINE at == SearchDir("dir")
             folder == [name |-> files[at].name, cluster |-> files[at].cluster]
  <2>0. TypeInv /\ HandleType' /\ UNCHANGED handles
    BY <1>3 DEF FinishChdir, TypeInv, HandleType
  <2>1. PICK v : Return(v)
    BY <1>3 DEF FinishChdir
  <2>2. JobType' /\ LoopType' /\ pc' = "prompt"
    BY <2>1, ReturnType
  <2>3. at # 0 => folder \in FolderSet
    BY SearchType DEF TypeInv, FolderSet, SlotSet
  <2>4. path[1] \in FolderSet
    BY <1>0
  <2>5. cur' \in FolderSet /\ path' \in Seq(FolderSet) /\ path' # <<>> /\ Len(path') <= MAX_DEPTH
    <3>1. CASE at = 0
      BY <1>0, <1>3, <3>1 DEF FinishChdir
    <3>2. CASE cur' = path[1] /\ path' = <<path[1]>>
      <4>1. \A x \in FolderSet : <<x>> \in Seq(FolderSet) /\ Len(<<x>>) = 1 /\ <<x>> # <<>>
        OBVIOUS
      <4> QED BY <2>4, <3>2, <4>1, FatAssumption
    <3>3. CASE at # 0 /\ cur' = folder /\ (IF PathFull THEN path' = path ELSE path' = PathWith(cur'))
      <4>1. CASE PathFull
        BY <1>0, <2>3, <3>3, <4>1
      <4>2. CASE ~PathFull
        <5>1. path' = Append(path, cur') /\ cur' \in FolderSet
          BY <2>3, <3>3, <4>2 DEF PathWith
        <5>2. Len(path) + 1 <= MAX_DEPTH
          BY <1>0, <4>2, FatAssumption DEF PathFull
        <5>3. Append(path, cur') \in Seq(FolderSet) /\ Len(Append(path, cur')) = Len(path) + 1
          BY <1>0, <5>1
        <5>4. Append(path, cur') # <<>>
          BY <1>0, <5>3
        <5> QED BY <5>1, <5>2, <5>3, <5>4
      <4> QED BY <4>1, <4>2
    <3> QED BY <1>3, <3>1, <3>2, <3>3 DEF FinishChdir
  <2>6. PlaceType'
    BY <1>0, <2>2, <2>5 DEF PlaceType
  <2> QED BY <1>1, <2>0, <2>2, <2>6 DEF TypeInv
<1>4. CASE FinishOpenSearch
  <2> DEFINE at == SearchDir("file")
             fd == FirstOf(FreeFds)
  <2>1. UNCHANGED dirVars
    BY <1>4 DEF FinishOpenSearch
  <2>2. CASE Return(-1) /\ UNCHANGED handles
    BY <1>0, <1>1, <2>1, <2>2, EndTypes
  <2>3. CASE /\ at # 0 /\ FreeFds # {}
             /\ handles' = [handles EXCEPT ![fd].inUse = TRUE, ![fd].file = files[at], ![fd].offset = 0]
             /\ job' = [job EXCEPT !.fd = fd]
             /\ StartChain(files[at].cluster) /\ pc' = "chain"
    <3>1. fd \in Fds
      <4>1. FreeFds \in SUBSET Nat /\ FreeFds \subseteq Fds
        BY DEF FreeFds, Fds
      <4> QED BY <2>3, <4>1, FirstOfIn
    <3>2. files[at] \in SlotSet /\ files[at].cluster \in Nat
      BY <2>3, SearchType DEF TypeInv, SlotSet
    <3>3. HandleType'
      <4> HIDE DEF fd, at
      <4>1. handles' \in [Fds -> HandleSet] /\ \A g \in Fds : handles'[g].clusters = handles[g].clusters
        <5>1. \A slot \in SlotSet :
                LET hs == [handles EXCEPT ![fd].inUse = TRUE, ![fd].file = slot, ![fd].offset = 0]
                IN hs \in [Fds -> HandleSet] /\ \A g \in Fds : hs[g].clusters = handles[g].clusters
          BY <3>1, HandleUpdates DEF TypeInv
        <5> QED BY <2>3, <3>2, <5>1, Zenon
      <4> QED BY <4>1 DEF TypeInv, HandleType
    <3>4. JobType'
      <4> HIDE DEF fd
      <4>1. job' = [op |-> job.op, name |-> job.name, fd |-> fd, want |-> job.want]
        BY <2>3 DEF TypeInv, JobType
      <4>2. job'.op = job.op /\ job'.name = job.name /\ job'.fd = fd /\ job'.want = job.want
        BY <4>1
      <4> QED BY <2>3, <3>1, <4>1, <4>2 DEF TypeInv, JobType
    <3>5. LoopType'
      BY <2>3, <3>2, DiskAssumption, FatAssumption DEF StartChain, LoopType
    <3>6. PlaceType'
      BY <1>0, <2>1, <2>3 DEF PlaceType, dirVars
    <3> QED BY <1>1, <3>3, <3>4, <3>5, <3>6 DEF TypeInv
  <2> QED BY <1>4, <2>2, <2>3 DEF FinishOpenSearch
<1>5. CASE FinishLoadSearch
  <2> DEFINE at == SearchDir("file")
  <2>1. UNCHANGED <<dirVars, handles>>
    BY <1>5 DEF FinishLoadSearch
  <2>2. CASE Return(ERR)
    BY <1>0, <1>1, <2>1, <2>2, EndTypes
  <2>3. CASE /\ Loadable(at) /\ job' = [job EXCEPT !.want = files[at].size + 1]
             /\ StartChain(files[at].cluster) /\ pc' = "chain"
    <3>1. files[at].cluster \in Nat /\ files[at].size + 1 \in Nat
      <4>1. files[at] \in SlotSet
        BY <2>3, SearchType DEF TypeInv, Loadable
      <4> QED BY <4>1 DEF SlotSet
    <3>2. JobType'
      <4> DEFINE n == files[at].size + 1
      <4>1. n \in Nat /\ job' = [job EXCEPT !.want = n]
        BY <2>3, <3>1
      <4> HIDE DEF n
      <4>2. job' = [op |-> job.op, name |-> job.name, fd |-> job.fd, want |-> n]
        BY <4>1 DEF TypeInv, JobType
      <4>3. job'.op = job.op /\ job'.name = job.name /\ job'.fd = job.fd /\ job'.want = n
        BY <4>2
      <4> QED BY <2>3, <4>1, <4>2, <4>3 DEF TypeInv, JobType
    <3>3. LoopType'
      BY <2>3, <3>1, DiskAssumption, FatAssumption DEF StartChain, LoopType
    <3>4. PlaceType' /\ HandleType'
      BY <1>0, <2>1, <2>3 DEF PlaceType, dirVars, TypeInv, HandleType
    <3> QED BY <1>1, <3>2, <3>3, <3>4 DEF TypeInv
  <2> QED BY <1>5, <2>2, <2>3 DEF FinishLoadSearch
<1> QED BY <1>2, <1>3, <1>4, <1>5

LEMMA FileTypes ==
  TypeInv /\ (OpenChainDone \/ ReadStep \/ LoadChainDone \/ LoadStep) => TypeInv'
<1> SUFFICES ASSUME TypeInv, OpenChainDone \/ ReadStep \/ LoadChainDone \/ LoadStep
             PROVE  TypeInv'
  OBVIOUS
<1>0. Mounted /\ UNCHANGED dirVars /\ CardType
  BY DEF OpenChainDone, ReadStep, LoadChainDone, LoadStep, Mounted, TypeInv
<1>1. ASSUME UNCHANGED sdVars PROVE CardType'
  BY <1>0, <1>1 DEF CardType, sdVars
<1>2. CASE OpenChainDone
  <2>1. UNCHANGED sdVars /\ (Return(-1) \/ Return(job.fd))
    BY <1>2 DEF OpenChainDone
  <2>2. JobType' /\ LoopType' /\ pc' = "prompt"
    BY <2>1, ReturnType
  <2>3. HandleType'
    <3>1. CASE Abandon
      BY <3>1 DEF Abandon, TypeInv, HandleType, HandleSet
    <3>2. CASE handles' = [handles EXCEPT ![job.fd].clusters = ll, ![job.fd].overflow = ChainOverflow]
      <4>1. ll \in Seq(Nat) /\ Len(ll) <= LLSZ /\ ChainOverflow \in BOOLEAN
        BY DEF TypeInv, LoopType, ChainOverflow, InChain
      <4>2. CASE job.fd \in Fds
        <5>1. \A s \in Seq(Nat), b \in BOOLEAN :
                LET hs == [handles EXCEPT ![job.fd].clusters = s, ![job.fd].overflow = b]
                IN hs \in [Fds -> HandleSet]
                   /\ \A g \in Fds : hs[g].clusters = IF g = job.fd THEN s ELSE handles[g].clusters
          BY <4>2, HandleUpdates DEF TypeInv
        <5>2. handles' \in [Fds -> HandleSet]
              /\ \A g \in Fds : handles'[g].clusters = IF g = job.fd THEN ll ELSE handles[g].clusters
          <6> HIDE DEF ChainOverflow
          <6> QED BY <3>2, <4>1, <5>1, Zenon
        <5> QED BY <4>1, <5>2 DEF TypeInv, HandleType
      <4>3. CASE job.fd \notin Fds
        BY <3>2, <4>3 DEF TypeInv, HandleType
      <4> QED BY <4>2, <4>3
    <3> QED BY <1>2, <3>1, <3>2 DEF OpenChainDone
  <2>4. PlaceType'
    BY <1>0, <2>2 DEF TypeInv, PlaceType, dirVars
  <2> QED BY <1>1, <2>1, <2>2, <2>3, <2>4 DEF TypeInv
<1>3. CASE ReadStep
  <2> DEFINE h == handles[job.fd]
             index == (h.offset \div SECTOR) \div part.spc
             from == h.offset % SECTOR
             n == Portion(from)
             lba == DataLba(part, h.clusters[index + 1], (h.offset \div SECTOR) % part.spc)
  <2>1. job.fd \in Fds
    BY <1>3 DEF ReadStep, TypeInv, JobType
  <2>2. CASE Return(Len(mem)) /\ UNCHANGED <<sdVars, handles, mem>>
    BY <1>0, <1>1, <2>2, EndTypes
  <2>3. CASE ReadRefused(lba) /\ Return(Len(mem)) /\ UNCHANGED <<handles, mem>>
    <3> HIDE DEF lba
    <3> QED BY <1>0, <2>3, ReadType, EndTypes
  <2>4. CASE /\ ReadSector(lba) /\ handles' = [handles EXCEPT ![job.fd].offset = @ + n]
             /\ job' = [job EXCEPT !.want = @ - n] /\ UNCHANGED <<pc, loopVars, ret>>
    <3>1. CardType'
      <4> HIDE DEF lba
      <4> QED BY <1>0, <2>4, ReadType
    <3>2. n \in Nat /\ n <= job.want /\ job.want \in Nat
      <4>1. h.offset \in Nat
        BY <2>1 DEF TypeInv, HandleType, HandleSet
      <4>2. from \in 0..(SECTOR - 1) /\ SECTOR \in Nat
        <5> HIDE DEF h
        <5> QED BY <4>1, FatAssumption
      <4>3. job.want \in Nat
        BY DEF TypeInv, JobType
      <4> HIDE DEF from, h
      <4> QED BY <4>2, <4>3 DEF Portion, Smaller
    <3>3. HandleType'
      <4> HIDE DEF n, lba
      <4>1. \A m \in Nat :
              LET hs == [handles EXCEPT ![job.fd].offset = @ + m]
              IN hs \in [Fds -> HandleSet] /\ \A g \in Fds : hs[g].clusters = handles[g].clusters
        BY <2>1, HandleUpdates DEF TypeInv
      <4>2. handles' \in [Fds -> HandleSet] /\ \A g \in Fds : handles'[g].clusters = handles[g].clusters
        BY <2>4, <3>2, <4>1, Zenon
      <4> QED BY <4>2 DEF TypeInv, HandleType
    <3>4. JobType'
      <4> DEFINE m == job.want - n
      <4>1. m \in Nat
        <5> HIDE DEF n
        <5> QED BY <3>2
      <4>2. job' = [job EXCEPT !.want = m]
        BY <2>4
      <4> HIDE DEF m
      <4>3. job' = [op |-> job.op, name |-> job.name, fd |-> job.fd, want |-> m]
        BY <4>2 DEF TypeInv, JobType
      <4>4. job'.op = job.op /\ job'.name = job.name /\ job'.fd = job.fd /\ job'.want = m
        BY <4>3
      <4> QED BY <2>1, <4>1, <4>3, <4>4 DEF TypeInv, JobType
    <3>5. pc' = "reading"
      BY <1>3, <2>4 DEF ReadStep
    <3>6. LoopType' /\ PlaceType'
      BY <1>0, <2>4, <3>5 DEF TypeInv, LoopType, PlaceType, dirVars, loopVars
    <3> QED BY <3>1, <3>3, <3>4, <3>6 DEF TypeInv
  <2> QED BY <1>3, <2>2, <2>3, <2>4 DEF ReadStep
<1>4. CASE LoadChainDone
  <2>1. UNCHANGED <<sdVars, handles>>
    BY <1>4 DEF LoadChainDone
  <2>2. CASE Return(ERR)
    BY <1>0, <1>1, <2>1, <2>2, EndTypes
  <2>3. CASE pc' = "loading" /\ ctr' = 1 /\ sec' = 0 /\ UNCHANGED <<job, ll, next, files, ret>>
    BY <1>0, <1>1, <2>1, <2>3 DEF TypeInv, PlaceType, HandleType, JobType, LoopType, dirVars
  <2> QED BY <1>4, <2>2, <2>3 DEF LoadChainDone
<1>5. CASE LoadStep
  <2>1. UNCHANGED handles
    BY <1>5 DEF LoadStep
  <2>2. CASE Return(0) /\ UNCHANGED sdVars
    BY <1>0, <1>1, <2>1, <2>2, EndTypes
  <2>3. ASSUME NEW lba, ReadRefused(lba), Return(ERR) PROVE TypeInv'
    BY <1>0, <2>1, <2>3, ReadType, EndTypes
  <2>4. ASSUME NEW lba, NEW c \in FromList, ReadSector(lba), NextSector, next' = c,
               UNCHANGED <<pc, job, ll, files, ret>>
        PROVE  TypeInv'
    <3>1. CardType'
      BY <1>0, <2>4, ReadType
    <3>2. ctr' \in Nat /\ ctr' > 0 /\ sec' \in Nat /\ next' \in Nat
      <4>1. ctr' \in Nat /\ ctr' > 0 /\ sec' \in Nat
        BY <1>5, <2>4 DEF NextSector, TypeInv, LoopType, LoadStep
      <4>2. ctr > 0 /\ (ctr <= Len(ll) => ll[ctr] \in Nat)
        BY <1>5 DEF TypeInv, LoopType, LoadStep
      <4> QED BY <2>4, <4>1, <4>2, FatAssumption DEF FromList, TypeInv, LoopType
    <3>3. pc' = "loading"
      BY <1>5, <2>4 DEF LoadStep
    <3>4. LoopType'
      BY <2>4, <3>2, <3>3 DEF TypeInv, LoopType
    <3>5. PlaceType' /\ HandleType' /\ JobType'
      BY <1>0, <2>1, <2>4, <3>3 DEF TypeInv, PlaceType, HandleType, JobType, dirVars, Mounted
    <3> QED BY <3>1, <3>4, <3>5 DEF TypeInv
  <2> QED BY <1>5, <2>2, <2>3, <2>4 DEF LoadStep
<1> QED BY <1>2, <1>3, <1>4, <1>5

LEMMA PowerTypes == (Init => TypeInv) /\ (TypeInv /\ Reset => TypeInv')
<1>1. ASSUME NEW hs, hs = [fd \in Fds |-> ClosedHandle]
      PROVE  hs \in [Fds -> HandleSet] /\ \A fd \in Fds : Len(hs[fd].clusters) <= LLSZ
  <2>1. \A s \in Seq(Nat) :
          [inUse |-> FALSE, file |-> FreeSlot, offset |-> 0, clusters |-> s, overflow |-> FALSE] \in HandleSet
    BY FreeSlotType DEF HandleSet
  <2>2. ClosedHandle \in HandleSet /\ ClosedHandle.clusters = <<>>
    <3>1. <<>> \in Seq(Nat)
      OBVIOUS
    <3> QED BY <2>1, <3>1, Zenon DEF ClosedHandle
  <2> QED BY <1>1, <2>2, DiskAssumption
<1>2. NoJob = [op |-> NoJob.op, name |-> NoJob.name, fd |-> NoJob.fd, want |-> NoJob.want]
  BY DEF NoJob
<1>3. ASSUME Init PROVE TypeInv
  <2>1. CardType
    BY <1>3, NewSectorType, CardAssumption DEF Init, CardType
  <2>2. PlaceType /\ LoopType /\ JobType
    BY <1>2, <1>3, NoJobType, DiskAssumption, FatAssumption DEF Init, PlaceType, LoopType, JobType, Mounted
  <2>3. HandleType
    BY <1>1, <1>3 DEF Init, HandleType
  <2> QED BY <2>1, <2>2, <2>3 DEF TypeInv
<1>4. ASSUME TypeInv, Reset PROVE TypeInv'
  <2>1. CardType'
    BY <1>4 DEF Reset, TypeInv, CardType
  <2>2. PlaceType' /\ LoopType' /\ JobType'
    BY <1>2, <1>4, NoJobType, DiskAssumption, FatAssumption DEF Reset, PlaceType, LoopType, JobType, Mounted
  <2>3. HandleType'
    BY <1>1, <1>4 DEF Reset, HandleType
  <2> QED BY <2>1, <2>2, <2>3 DEF TypeInv
<1> QED BY <1>3, <1>4

LEMMA TypeStep == TypeInv /\ [Next]_vars => TypeInv'
<1> SUFFICES ASSUME TypeInv, [Next]_vars PROVE TypeInv'
  OBVIOUS
<1>1. CASE UNCHANGED vars
  BY <1>1 DEF vars, sdVars, dirVars, loopVars, TypeInv, CardType, PlaceType, HandleType, JobType, LoopType, Mounted
<1>2. CASE Next
  BY <1>1, <1>2, MountTypes, CallTypes, ChainTypes, MkdirTypes, SearchTypes, FileTypes, PowerTypes
     DEF Next, Step, Halted, ListStep
<1> QED BY <1>1, <1>2

(* The path stays within fat32_fullpath, a cluster list within                *)
(* fat32_linkedlist and a handle's list, the entries of a folder within       *)
(* fat32_files, and the scan of a folder within the list of its clusters:     *)
(* whatever the card holds, whatever fails and however the calls are mixed.   *)
(* (Of a load's walk over its list nothing is said: that one has no bound.)   *)
THEOREM TypeCorrect == SpecP => []TypeOK
<1>1. InitP => TypeInv
  BY PowerTypes DEF InitP
<1>2. TypeInv /\ [NextP]_<<vars, tree>> => TypeInv'
  BY TypeStep DEF NextP
<1> QED BY <1>1, <1>2, InvImpliesTypeOK, PTL DEF SpecP

----------------------------------------------------------------------------
(* Arithmetic of the layout.                                                  *)
LEMMA DivBound ==
  ASSUME NEW n \in Nat, NEW k \in Nat \ {0}, NEW a \in 0..(k * n - 1)
  PROVE  a \div k \in 0..(n - 1)
BY SMT

LEMMA Ahead ==
  ASSUME NEW a \in Nat, NEW b \in Nat, a < b, NEW k \in Nat \ {0}, NEW s \in 0..(k - 1)
  PROVE  a * k + s < b * k
<1>1. (a + 1) * k <= b * k
  BY SMT
<1>2. (a + 1) * k = a * k + k
  BY SMT
<1>3. a * k \in Nat /\ b * k \in Nat
  BY SMT
<1> QED BY <1>1, <1>2, <1>3

(* Two places in the data area are the same sector only if they are the same  *)
(* sector of the same cluster.                                                *)
LEMMA PlaceUnique ==
  ASSUME NEW a \in Nat, NEW b \in Nat, NEW k \in Nat \ {0}, NEW s \in 0..(k - 1), NEW t \in 0..(k - 1),
         a * k + s = b * k + t
  PROVE  a = b /\ s = t
<1>0. a * k \in Nat /\ b * k \in Nat
  BY SMT
<1>1. CASE a < b
  BY <1>0, <1>1, Ahead
<1>2. CASE b < a
  BY <1>0, <1>2, Ahead
<1>3. CASE a = b
  BY <1>0, <1>3
<1> QED BY <1>1, <1>2, <1>3

(* Where the parts of a volume lie.                                           *)
CardSet(dk) == dk \in [DOMAIN dk -> Sector] /\ DOMAIN dk \subseteq Nat
LEMMA Places ==
  ASSUME NEW dk, CardSet(dk), WellLaid(dk)
  PROVE  LET p == LayoutOf(dk) IN
         /\ p.spc \in Nat \ {0} /\ p.spf \in Nat \ {0} /\ p.root \in Nat /\ p.root >= 2
         /\ p.nfats \in Nat /\ p.nfats > 1
         /\ p.fatBegin \in Nat /\ p.fat2Begin = p.fatBegin + p.spf
         /\ p.dataBegin \in Nat /\ p.dataBegin >= p.fat2Begin + p.spf
         /\ dk[0].lba \in Nat \ {0} /\ dk[0].lba < p.fatBegin
<1> DEFINE a == dk[0].lba
           b == dk[a]
           p == LayoutOf(dk)
<1>1. a \in Nat \ {0}
  BY DEF WellLaid, CardSet
<1>2. b \in BpbSet /\ b.rsv > 0
  <2>1. a \in DOMAIN dk /\ b.k = "bpb" /\ b.rsv > 0
    BY DEF WellLaid
  <2>2. b \in Sector
    BY <2>1 DEF CardSet
  <2> HIDE DEF b
  <2> QED BY <2>1, <2>2 DEF Sector, BpbSet
<1>3. p = Layout(a, b)
  BY DEF LayoutOf
<1>4. p.spc # 0 /\ p.spf # 0 /\ p.root >= 2 /\ p.nfats > 1
  <2>1. ASSUME NEW q, ValidLayout(q) PROVE q.spc # 0 /\ q.spf # 0 /\ q.root >= 2
    BY <2>1 DEF ValidLayout
  <2> QED BY <2>1 DEF WellLaid
<1> HIDE DEF a, b, p
<1>5. /\ p.spc = b.spc /\ p.root = b.root /\ p.nfats = b.nfats /\ p.spf = b.spf
      /\ p.fatBegin = a + b.rsv /\ p.fat2Begin = a + b.rsv + b.spf
      /\ p.dataBegin = a + b.rsv + b.nfats * b.spf
  BY <1>1, <1>2, <1>3, LayoutType
<1>6. b.rsv \in Nat /\ b.spc \in Nat /\ b.nfats \in Nat /\ b.spf \in Nat /\ b.root \in Nat
  BY <1>2 DEF BpbSet
<1>7. b.nfats * b.spf \in Nat /\ b.nfats * b.spf >= 2 * b.spf
  <2>1. b.nfats \in Nat /\ b.nfats > 1 /\ b.spf \in Nat
    BY <1>4, <1>5, <1>6
  <2>2. ASSUME NEW n \in Nat, n > 1, NEW f \in Nat PROVE n * f \in Nat /\ n * f >= 2 * f
    BY <2>2, SMT
  <2> QED BY <2>1, <2>2
<1>8. p.dataBegin \in Nat /\ p.dataBegin >= p.fat2Begin + p.spf
  BY <1>1, <1>5, <1>6, <1>7
<1>9. p.fatBegin \in Nat /\ p.fat2Begin = p.fatBegin + p.spf /\ a < p.fatBegin
  BY <1>1, <1>2, <1>5, <1>6
<1> QED BY <1>1, <1>4, <1>5, <1>6, <1>8, <1>9 DEF a, p

(* What can be read of a volume.                                              *)
LEMMA FetchType == ASSUME NEW dk, CardSet(dk), NEW lba PROVE
  /\ Fetch(dk, lba) \in Sector \cup {NoSector}
  /\ Slots(Fetch(dk, lba)) \in SlotSeq
  /\ \A i \in 0..(EPF - 1) : FatItem(Fetch(dk, lba), i) \in Nat
<1>1. Fetch(dk, lba) \in Sector \cup {NoSector}
  BY DEF Fetch, CardSet
<1>2. NoSector.k = "none"
  BY DEF NoSector
<1>3. Slots(NoSector) \in SlotSeq
  <2>1. Slot("other", Name("?", ""), 0, 0) \in SlotSet
    BY SlotType, NameType
  <2> QED BY <1>2, <2>1 DEF Slots, SlotSeq
<1>4. \A i \in 0..(EPF - 1) : FatItem(NoSector, i) \in Nat
  BY <1>2, DiskAssumption DEF FatItem
<1> QED BY <1>1, <1>3, <1>4, SlotsType, FatItemType

LEMMA UnreservedValue ==
  /\ \A v \in Nat : Unreserved(v) \in Nat
  /\ Unreserved(EOC) = EOC /\ Unreserved(0) = 0
BY DiskAssumption DEF Unreserved

LEMMA FatEntryType ==
  ASSUME NEW dk, CardSet(dk), NEW c \in Nat
  PROVE  FatEntry(dk, c) \in Nat /\ Fat2Entry(dk, c) \in Nat
<1>1. c % EPF \in 0..(EPF - 1)
  BY DiskAssumption
<1> QED BY <1>1, FetchType, UnreservedValue DEF FatEntry, RawEntry, Fat2Entry

LEMMA ClusterPlaces ==
  ASSUME NEW dk, CardSet(dk), WellLaid(dk), NEW c \in Clusters(dk)
  PROVE  LET p == LayoutOf(dk) IN
         /\ c \in Nat /\ c >= 2 /\ c \div EPF \in 0..(p.spf - 1) /\ c % EPF \in 0..(EPF - 1)
         /\ FatLba(p, c) = p.fatBegin + (c \div EPF)
         /\ \A s \in 0..(p.spc - 1) : DataLba(p, c, s) \in Nat /\ DataLba(p, c, s) >= p.dataBegin
<1> DEFINE p == LayoutOf(dk)
<1>1. /\ p.spc \in Nat \ {0} /\ p.spf \in Nat \ {0} /\ p.dataBegin \in Nat
  BY Places
<1>2. c \in 2..(EPF * p.spf - 1)
  BY DEF Clusters
<1> HIDE DEF p
<1>3. EPF * p.spf \in Nat
  BY <1>1, DiskAssumption
<1>4. c \in Nat /\ c >= 2 /\ c \in 0..(EPF * p.spf - 1)
  BY <1>2, <1>3
<1>5. c \div EPF \in 0..(p.spf - 1)
  BY <1>1, <1>4, DivBound, DiskAssumption
<1>6. ASSUME NEW s \in 0..(p.spc - 1) PROVE DataLba(p, c, s) \in Nat /\ DataLba(p, c, s) >= p.dataBegin
  <2>1. c - 2 \in Nat /\ (c - 2) * p.spc \in Nat
    BY <1>1, <1>4
  <2> QED BY <1>1, <2>1 DEF DataLba
<1>7. c % EPF \in 0..(EPF - 1)
  BY <1>4, DiskAssumption
<1> QED BY <1>4, <1>5, <1>6, <1>7 DEF FatLba, p

LEMMA DataLbaUnique ==
  ASSUME NEW dk, CardSet(dk), WellLaid(dk), NEW c \in Clusters(dk), NEW d \in Clusters(dk),
         NEW s \in 0..(LayoutOf(dk).spc - 1), NEW t \in 0..(LayoutOf(dk).spc - 1),
         DataLba(LayoutOf(dk), c, s) = DataLba(LayoutOf(dk), d, t)
  PROVE  c = d /\ s = t
<1> DEFINE p == LayoutOf(dk)
<1>1. p.spc \in Nat \ {0} /\ p.dataBegin \in Nat
  BY Places
<1>2. c \in Nat /\ c >= 2 /\ d \in Nat /\ d >= 2
  BY ClusterPlaces
<1>3. c - 2 \in Nat /\ d - 2 \in Nat /\ (c - 2) * p.spc \in Nat /\ (d - 2) * p.spc \in Nat
  BY <1>1, <1>2
<1>4. (c - 2) * p.spc + s = (d - 2) * p.spc + t
  <2> DEFINE x == (c - 2) * p.spc
             y == (d - 2) * p.spc
  <2>1. p.dataBegin + x + s = p.dataBegin + y + t
    BY DEF DataLba
  <2>2. x \in Nat /\ y \in Nat
    BY <1>3
  <2> HIDE DEF x, y, p
  <2>3. x + s = y + t
    BY <1>1, <2>1, <2>2
  <2> QED BY <2>3 DEF x, y
<1> HIDE DEF p
<1>5. c - 2 = d - 2 /\ s = t
  <2>1. p.spc \in Nat \ {0} /\ s \in 0..(p.spc - 1) /\ t \in 0..(p.spc - 1)
    BY <1>1 DEF p
  <2>2. ASSUME NEW a \in Nat, NEW b \in Nat, a * p.spc + s = b * p.spc + t PROVE a = b /\ s = t
    BY <2>1, <2>2, PlaceUnique
  <2> QED BY <1>3, <1>4, <2>2
<1> QED BY <1>2, <1>5

----------------------------------------------------------------------------
(* Writing one sector behind the boot sector.                                 *)
Written(dk, lba, content) == [dk EXCEPT ![lba] = content]
LEMMA WriteSame ==
  ASSUME NEW dk, CardSet(dk), WellLaid(dk), NEW lba \in Nat, lba >= LayoutOf(dk).fatBegin,
         NEW content \in Sector, NEW dk2, dk2 = Written(dk, lba, content)
  PROVE  /\ CardSet(dk2) /\ WellLaid(dk2) /\ LayoutOf(dk2) = LayoutOf(dk)
         /\ Clusters(dk2) = Clusters(dk)
         /\ \A x : x # lba => Fetch(dk2, x) = Fetch(dk, x)
         /\ IF lba \in DOMAIN dk THEN Fetch(dk2, lba) = content ELSE dk2 = dk
<1>1. CardSet(dk2) /\ DOMAIN dk2 = DOMAIN dk
  BY DEF CardSet, Written
<1>2. \A x : x # lba => Fetch(dk2, x) = Fetch(dk, x)
  BY <1>1 DEF Fetch, CardSet, Written
<1>3. IF lba \in DOMAIN dk THEN Fetch(dk2, lba) = content ELSE dk2 = dk
  BY <1>1 DEF Fetch, CardSet, Written
<1>4. lba # 0 /\ lba # dk[0].lba
  BY Places
<1>5. dk2[0] = dk[0] /\ dk2[dk[0].lba] = dk[dk[0].lba]
  <2>1. 0 \in DOMAIN dk /\ dk[0].lba \in DOMAIN dk
    BY DEF WellLaid
  <2> QED BY <1>4, <2>1 DEF CardSet, Written
<1>6. LayoutOf(dk2) = LayoutOf(dk)
  BY <1>5 DEF LayoutOf
<1>7. WellLaid(dk2)
  BY <1>1, <1>5, <1>6 DEF WellLaid
<1> QED BY <1>1, <1>2, <1>3, <1>6, <1>7 DEF Clusters

(* Outside of the FATs, no FAT entry changes.                                 *)
LEMMA WriteData ==
  ASSUME NEW dk, CardSet(dk), WellLaid(dk), NEW lba \in Nat, lba >= LayoutOf(dk).dataBegin,
         NEW content \in Sector, NEW dk2, dk2 = Written(dk, lba, content)
  PROVE  \A c \in Clusters(dk) :
           SameEntry(dk, dk2, c) /\ Fat2Entry(dk2, c) = Fat2Entry(dk, c)
<1> DEFINE p == LayoutOf(dk)
<1>1. lba >= p.fatBegin /\ p.fatBegin \in Nat /\ p.spf \in Nat /\ p.fat2Begin = p.fatBegin + p.spf
      /\ p.dataBegin \in Nat /\ p.dataBegin >= p.fat2Begin + p.spf
  BY Places
<1>2. LayoutOf(dk2) = p /\ \A x : x # lba => Fetch(dk2, x) = Fetch(dk, x)
  <2>1. lba >= LayoutOf(dk).fatBegin
    BY <1>1
  <2> HIDE DEF p
  <2>2. LayoutOf(dk2) = LayoutOf(dk) /\ \A x : x # lba => Fetch(dk2, x) = Fetch(dk, x)
    BY <2>1, WriteSame
  <2> QED BY <2>2 DEF p
<1>3. ASSUME NEW c \in Clusters(dk)
      PROVE  SameEntry(dk, dk2, c) /\ Fat2Entry(dk2, c) = Fat2Entry(dk, c)
  <2>1. c \div EPF \in 0..(p.spf - 1) /\ FatLba(p, c) = p.fatBegin + (c \div EPF)
    BY ClusterPlaces
  <2> HIDE DEF p
  <2>2. FatLba(p, c) # lba /\ p.fat2Begin + (c \div EPF) # lba
    BY <1>1, <2>1 DEF p
  <2> QED BY <1>2, <2>2 DEF FatEntry, RawEntry, Fat2Entry, p
<1> QED BY <1>3

(* mkdir takes a free cluster of the first FAT sector ...                     *)
LEMMA WriteFat ==
  ASSUME NEW dk, CardSet(dk), WellLaid(dk), NEW c \in Clusters(dk), c < EPF, FatEntry(dk, c) = 0,
         NEW dk2, LayoutOf(dk).fatBegin \in DOMAIN dk,
         dk2 = Written(dk, LayoutOf(dk).fatBegin, WithItem(dk[LayoutOf(dk).fatBegin], c, EOC))
  PROVE  /\ CardSet(dk2) /\ WellLaid(dk2) /\ LayoutOf(dk2) = LayoutOf(dk)
         /\ \A d \in Clusters(dk) : IF d = c THEN TakenEntry(dk2, d) ELSE SameEntry(dk, dk2, d)
         /\ \A d \in Clusters(dk) : Fat2Entry(dk2, d) = Fat2Entry(dk, d)
         /\ \A x : x # LayoutOf(dk).fatBegin => Fetch(dk2, x) = Fetch(dk, x)
<1> DEFINE p == LayoutOf(dk)
           lba == p.fatBegin
           content == WithItem(dk[lba], c, EOC)
<1>1. lba \in Nat /\ p.spf \in Nat \ {0} /\ p.fat2Begin = lba + p.spf
  BY Places
<1>2. c \in Nat /\ dk[lba] \in Sector /\ c % EPF = c /\ c \div EPF = 0
  BY ClusterPlaces, DiskAssumption DEF CardSet
<1>3. content \in Sector
  BY <1>2, WithItemType, DiskAssumption
<1>4. /\ CardSet(dk2) /\ WellLaid(dk2) /\ LayoutOf(dk2) = p /\ Fetch(dk2, lba) = content
      /\ \A x : x # lba => Fetch(dk2, x) = Fetch(dk, x)
  <2>1. lba >= LayoutOf(dk).fatBegin /\ dk2 = Written(dk, lba, content) /\ lba \in DOMAIN dk
    BY <1>1
  <2> HIDE DEF content, lba, p
  <2>2. /\ CardSet(dk2) /\ WellLaid(dk2) /\ LayoutOf(dk2) = LayoutOf(dk)
        /\ \A x : x # lba => Fetch(dk2, x) = Fetch(dk, x)
        /\ IF lba \in DOMAIN dk THEN Fetch(dk2, lba) = content ELSE dk2 = dk
    BY <1>1, <1>3, <2>1, WriteSame
  <2> QED BY <2>1, <2>2 DEF p
<1>5. Fetch(dk, lba) = dk[lba] /\ Unreserved(FatItem(dk[lba], c)) = 0
  <2>1. Fetch(dk, lba) = dk[lba]
    BY DEF Fetch
  <2>2. FatLba(p, c) = lba
    BY <1>1, <1>2 DEF FatLba
  <2> QED BY <1>2, <2>1, <2>2 DEF FatEntry, RawEntry
<1>6. dk[lba].k = "fat"
  BY <1>5, UnreservedValue, DiskAssumption DEF FatItem
<1>7. \A i \in 0..(EPF - 1) : FatItem(content, i) = IF i = c THEN EOC ELSE FatItem(dk[lba], i)
  <2>1. dk[lba] \in [k : {"fat"}, e : [0..(EPF - 1) -> Nat]]
    BY <1>2, <1>6 DEF Sector
  <2>2. content = [dk[lba] EXCEPT !.e[c] = EOC]
    BY <1>2, <1>6 DEF WithItem
  <2>3. content.k = "fat" /\ content.e = [dk[lba].e EXCEPT ![c] = EOC]
    BY <2>1, <2>2
  <2>4. dk[lba].e \in [0..(EPF - 1) -> Nat]
    BY <2>1
  <2> HIDE DEF content, lba
  <2> QED BY <1>6, <2>3, <2>4 DEF FatItem
<1>8. ASSUME NEW d \in Clusters(dk)
      PROVE  /\ IF d = c THEN TakenEntry(dk2, d) ELSE SameEntry(dk, dk2, d)
             /\ Fat2Entry(dk2, d) = Fat2Entry(dk, d)
  <2>1. /\ d \in Nat /\ d \div EPF \in 0..(p.spf - 1) /\ d % EPF \in 0..(EPF - 1)
        /\ FatLba(p, d) = lba + (d \div EPF)
    BY ClusterPlaces
  <2> HIDE DEF p, content, lba
  <2>2. p.fat2Begin + (d \div EPF) # lba
    BY <1>1, <2>1
  <2>3. Fat2Entry(dk2, d) = Fat2Entry(dk, d)
    BY <1>4, <2>2 DEF Fat2Entry, p
  <2>4. CASE d \div EPF = 0
    <3>1. d % EPF = d /\ FatLba(p, d) = lba
      BY <1>1, <2>1, <2>4, DiskAssumption
    <3>2. RawEntry(dk2, d) = IF d = c THEN EOC ELSE RawEntry(dk, d)
      BY <1>4, <1>5, <1>7, <2>1, <3>1 DEF RawEntry, p
    <3> QED BY <2>3, <3>2, UnreservedValue DEF FatEntry
  <2>5. CASE d \div EPF # 0
    <3>1. FatLba(p, d) # lba /\ d # c
      BY <1>1, <1>2, <2>1, <2>5
    <3> QED BY <1>4, <2>3, <3>1 DEF FatEntry, RawEntry, p
  <2> QED BY <2>4, <2>5
<1> QED BY <1>4, <1>8

(* ... and copies that sector to where the second FAT is.                     *)
LEMMA WriteMirror ==
  ASSUME NEW dk, CardSet(dk), WellLaid(dk), SecondFollows(dk), LayoutOf(dk).fatBegin \in DOMAIN dk,
         NEW dk2, dk2 = Written(dk, LayoutOf(dk).fat2Begin, dk[LayoutOf(dk).fatBegin])
  PROVE  /\ CardSet(dk2) /\ WellLaid(dk2) /\ LayoutOf(dk2) = LayoutOf(dk)
         /\ \A c \in Clusters(dk) : SameEntry(dk, dk2, c)
         /\ \A c \in Clusters(dk) : c \div EPF = 0 => Fat2Entry(dk2, c) = FatEntry(dk, c)
         /\ \A c \in Clusters(dk) : c \div EPF # 0 => Fat2Entry(dk2, c) = Fat2Entry(dk, c)
         /\ \A x : x # LayoutOf(dk).fat2Begin => Fetch(dk2, x) = Fetch(dk, x)
<1> DEFINE p == LayoutOf(dk)
           lba == p.fat2Begin
           content == dk[p.fatBegin]
<1>1. lba \in Nat /\ p.spf \in Nat \ {0} /\ lba = p.fatBegin + p.spf /\ p.fatBegin \in Nat
  BY Places
<1>2. content \in Sector
  BY DEF CardSet
<1>3. /\ CardSet(dk2) /\ WellLaid(dk2) /\ LayoutOf(dk2) = p
      /\ \A x : x # lba => Fetch(dk2, x) = Fetch(dk, x)
      /\ IF lba \in DOMAIN dk THEN Fetch(dk2, lba) = content ELSE dk2 = dk
  <2>1. lba >= LayoutOf(dk).fatBegin /\ dk2 = Written(dk, lba, content)
    BY <1>1
  <2> HIDE DEF content, lba, p
  <2>2. /\ CardSet(dk2) /\ WellLaid(dk2) /\ LayoutOf(dk2) = LayoutOf(dk)
        /\ \A x : x # lba => Fetch(dk2, x) = Fetch(dk, x)
        /\ IF lba \in DOMAIN dk THEN Fetch(dk2, lba) = content ELSE dk2 = dk
    BY <1>1, <1>2, <2>1, WriteSame
  <2> QED BY <2>2 DEF p
<1>4. Fetch(dk, p.fatBegin) = content
  BY DEF Fetch
<1>5. ASSUME NEW c \in Clusters(dk)
      PROVE  /\ SameEntry(dk, dk2, c)
             /\ c \div EPF = 0 => Fat2Entry(dk2, c) = FatEntry(dk, c)
             /\ c \div EPF # 0 => Fat2Entry(dk2, c) = Fat2Entry(dk, c)
  <2>1. /\ c \in Nat /\ c \div EPF \in 0..(p.spf - 1) /\ c % EPF \in 0..(EPF - 1)
        /\ FatLba(p, c) = p.fatBegin + (c \div EPF)
    BY ClusterPlaces
  <2>2. Fat2Entry(dk, c) = FatEntry(dk, c) \/ (Fat2Entry(dk, c) = 0 /\ FatEntry(dk, c) = EOC)
    BY DEF SecondFollows
  <2> HIDE DEF p, content, lba
  <2>3. SameEntry(dk, dk2, c)
    <3>1. FatLba(p, c) # lba
      BY <1>1, <2>1
    <3> QED BY <1>3, <3>1 DEF FatEntry, RawEntry, p
  <2>4. CASE c \div EPF # 0
    <3>1. p.fat2Begin + (c \div EPF) # lba
      BY <1>1, <2>1, <2>4 DEF lba
    <3> QED BY <1>3, <2>3, <2>4, <3>1 DEF Fat2Entry, p
  <2>5. CASE c \div EPF = 0
    <3>1. p.fat2Begin + (c \div EPF) = lba /\ FatLba(p, c) = p.fatBegin
      BY <1>1, <2>1, <2>5 DEF lba
    <3>2. CASE lba \in DOMAIN dk
      BY <1>3, <1>4, <2>3, <2>5, <3>1, <3>2 DEF FatEntry, RawEntry, Fat2Entry, p
    <3>3. CASE lba \notin DOMAIN dk
      <4>1. Fat2Entry(dk, c) = EOC
        BY <3>1, <3>3, UnreservedValue DEF Fat2Entry, Fetch, FatItem, NoSector, p
      <4> QED BY <1>3, <2>2, <2>5, <3>3, <4>1, DiskAssumption
    <3> QED BY <3>2, <3>3
  <2> QED BY <2>3, <2>4, <2>5
<1> QED BY <1>3, <1>5

----------------------------------------------------------------------------
(* The folders of a card.                                                     *)
LEMMA InFolderSlots ==
  ASSUME NEW dk, NEW D, NEW slot
  PROVE  slot \in FolderSlots(dk, D) <=>
           \E c \in D : \E s \in 0..(LayoutOf(dk).spc - 1) : \E i \in 1..SLOTS :
             slot = SlotAt(dk, c, s, i)
<1> DEFINE P == D \X (0..(LayoutOf(dk).spc - 1)) \X (1..SLOTS)
<1>1. ASSUME NEW c \in D, NEW s \in 0..(LayoutOf(dk).spc - 1), NEW i \in 1..SLOTS, slot = SlotAt(dk, c, s, i)
      PROVE  slot \in FolderSlots(dk, D)
  <2>1. <<c, s, i>> \in P
    OBVIOUS
  <2> QED BY <1>1, <2>1 DEF FolderSlots
<1>2. ASSUME slot \in FolderSlots(dk, D)
      PROVE  \E c \in D : \E s \in 0..(LayoutOf(dk).spc - 1) : \E i \in 1..SLOTS :
               slot = SlotAt(dk, c, s, i)
  <2>1. PICK a \in P : slot = SlotAt(dk, a[1], a[2], a[3])
    BY <1>2 DEF FolderSlots
  <2>2. a[1] \in D /\ a[2] \in 0..(LayoutOf(dk).spc - 1) /\ a[3] \in 1..SLOTS
    OBVIOUS
  <2> QED BY <2>1, <2>2
<1> QED BY <1>1, <1>2

LEMMA SlotsKept ==
  ASSUME NEW dk, NEW dk2, LayoutOf(dk2) = LayoutOf(dk), NEW D,
         \A c \in D : \A s \in 0..(LayoutOf(dk).spc - 1) :
           Fetch(dk2, DataLba(LayoutOf(dk), c, s)) = Fetch(dk, DataLba(LayoutOf(dk), c, s))
  PROVE  FolderSlots(dk2, D) = FolderSlots(dk, D)
<1>1. \A c \in D : \A s \in 0..(LayoutOf(dk).spc - 1) : \A i \in 1..SLOTS :
        SlotAt(dk2, c, s, i) = SlotAt(dk, c, s, i)
  BY DEF SlotAt
<1>2. \A slot : slot \in FolderSlots(dk2, D) <=> slot \in FolderSlots(dk, D)
  BY <1>1, InFolderSlots
<1> QED BY <1>2

LEMMA ConsistentKept ==
  ASSUME NEW dk, NEW dk2, LayoutOf(dk2) = LayoutOf(dk), NEW D, NEW F, Consistent(dk, D, F),
         NEW D2, D \subseteq D2, D2 \cap F = {}, ChainClosed(dk2, D2), ChainClosed(dk2, F),
         \A slot \in FolderSlots(dk2, D2) : slot \in FolderSlots(dk, D) \/ LeadsTo(slot, D2, F)
  PROVE  Consistent(dk2, D2, F)
<1>1. ASSUME NEW slot \in FolderSlots(dk2, D2) PROVE LeadsTo(slot, D2, F)
  <2>1. CASE slot \in FolderSlots(dk, D)
    <3>1. LeadsTo(slot, D, F)
      BY <2>1 DEF Consistent
    <3> QED BY <3>1 DEF LeadsTo
  <2> QED BY <2>1
<1> QED BY <1>1 DEF Consistent

LEMMA ChainClosedKept ==
  ASSUME NEW dk, NEW dk2, LayoutOf(dk2) = LayoutOf(dk), NEW X, ChainClosed(dk, X),
         \A c \in X : SameEntry(dk, dk2, c)
  PROVE  ChainClosed(dk2, X)
BY DEF ChainClosed, Allocated, Clusters

----------------------------------------------------------------------------
(* The reference reading: a chain that starts in a closed set of clusters     *)
(* stays in it, and so do the folders found from the root.                    *)
LEMMA FollowSpec ==
  ASSUME NEW dk, CardSet(dk), NEW c \in Nat
  PROVE  LET f == Follow(dk, c) IN
         /\ f \in [Nat -> Nat] /\ f[0] = c
         /\ \A n \in Nat : f[n + 1] = IF InChain(f[n]) THEN FatEntry(dk, f[n]) ELSE 0
<1> DEFINE after == [d \in Nat |-> IF InChain(d) THEN FatEntry(dk, d) ELSE 0]
           follow[n \in Nat] == IF n = 0 THEN c ELSE after[follow[n - 1]]
           step == [n \in Nat |-> after]
<1>1. after \in [Nat -> Nat]
  BY FatEntryType
<1>2. PICK f : Iterates(f, Nat, c, step)
  <2>1. IsStep(Nat, step)
    <3> HIDE DEF after
    <3> QED BY <1>1 DEF IsStep
  <2> HIDE DEF step
  <2> QED BY <2>1, Recursion
<1>3. f \in [Nat -> Nat] /\ f[0] = c /\ \A n \in Nat : f[n + 1] = after[f[n]]
  <2> HIDE DEF after
  <2> QED BY <1>2 DEF Iterates
<1>4. \E g : g = [n \in Nat |-> IF n = 0 THEN c ELSE after[g[n - 1]]]
  <2>1. ASSUME NEW n \in Nat, n # 0 PROVE f[n] = after[f[n - 1]]
    <3>1. n - 1 \in Nat /\ (n - 1) + 1 = n
      BY <2>1
    <3> HIDE DEF after
    <3> QED BY <1>3, <3>1
  <2> HIDE DEF after
  <2>2. f = [n \in Nat |-> IF n = 0 THEN c ELSE after[f[n - 1]]]
    BY <1>3, <2>1
  <2> QED BY <2>2
<1>5. follow = [n \in Nat |-> IF n = 0 THEN c ELSE after[follow[n - 1]]]
  BY <1>4, Zenon DEF follow
<1>6. Follow(dk, c) = follow
  BY DEF Follow
<1> HIDE DEF follow
<1>7. follow[0] = c /\ \A n \in Nat : follow[n + 1] = after[follow[n]]
  <2> HIDE DEF after
  <2>1. \A n \in Nat : n + 1 \in Nat /\ n + 1 # 0 /\ (n + 1) - 1 = n
    OBVIOUS
  <2> QED BY <1>5, <2>1
<1>8. \A n \in Nat : follow[n] \in Nat
  <2> DEFINE T == {n \in Nat : follow[n] \in Nat}
  <2> HIDE DEF after
  <2>1. 0 \in T
    BY <1>7
  <2>2. ASSUME NEW n \in T PROVE n + 1 \in T
    BY <1>1, <1>7
  <2>3. \A n \in Nat : n \in T
    <3> HIDE DEF T
    <3> QED BY <2>1, <2>2, Induction, T \subseteq Nat DEF T
  <2> QED BY <2>3
<1>9. follow \in [Nat -> Nat]
  <2> HIDE DEF after
  <2> QED BY <1>5, <1>8
<1> QED BY <1>6, <1>7, <1>8, <1>9

LEMMA ChainLengthSpec ==
  ASSUME NEW dk, CardSet(dk), WellLaid(dk), NEW c \in Nat
  PROVE  LET n == ChainLength(dk, c) IN
         /\ n \in 0..(EPF * LayoutOf(dk).spf)
         /\ \A i \in 0..(n - 1) : InChain(Follow(dk, c)[i])
         /\ n < EPF * LayoutOf(dk).spf => ~InChain(Follow(dk, c)[n])
<1> DEFINE N == EPF * LayoutOf(dk).spf
           f == Follow(dk, c)
           Ends(n) == /\ \A i \in 0..(n - 1) : InChain(f[i])
                      /\ n < N => ~InChain(f[n])
           T == {n \in Nat : n = N \/ ~InChain(f[n])}
<1>1. N \in Nat
  BY Places, DiskAssumption
<1>2. N \in T
  BY <1>1
<1>3. PICK n \in T : \A m \in T : n <= m
  <2> HIDE DEF N, f
  <2>1. T \in SUBSET Nat /\ T # {}
    BY <1>2
  <2> HIDE DEF T
  <2> QED BY <2>1, Least
<1>4. n \in 0..N /\ Ends(n)
  <2> HIDE DEF N, f
  <2>1. n \in Nat /\ n <= N
    BY <1>2, <1>3
  <2>2. ASSUME NEW i \in 0..(n - 1) PROVE InChain(f[i])
    <3>1. i \in Nat /\ i < n /\ i # N
      BY <1>1, <2>1
    <3>2. i \notin T
      BY <1>3, <2>1, <3>1
    <3> QED BY <3>1, <3>2
  <2>3. n < N => ~InChain(f[n])
    BY <1>1, <1>3, <2>1
  <2> QED BY <1>1, <2>1, <2>2, <2>3
<1>5. ChainLength(dk, c) = CHOOSE m \in 0..N : Ends(m)
  BY DEF ChainLength
<1>6. ChainLength(dk, c) \in 0..N /\ Ends(ChainLength(dk, c))
  <2> HIDE DEF Ends, N, f, T
  <2> QED BY <1>4, <1>5
<1> QED BY <1>6

LEMMA ChainStays ==
  ASSUME NEW dk, CardSet(dk), WellLaid(dk), NEW D, ChainClosed(dk, D), NEW c \in D \cup {0}
  PROVE  /\ Len(Chain(dk, c)) \in Nat /\ DOMAIN Chain(dk, c) = 1..Len(Chain(dk, c))
         /\ \A i \in 1..Len(Chain(dk, c)) : Chain(dk, c)[i] \in D
<1> DEFINE f == Follow(dk, c)
           n == ChainLength(dk, c)
           T == {m \in Nat : m < n => f[m] \in D}
<1>1. c \in Nat /\ (c # 0 => c \in D)
  BY ClusterPlaces DEF ChainClosed, Allocated
<1>2. f[0] = c /\ \A m \in Nat : f[m + 1] = IF InChain(f[m]) THEN FatEntry(dk, f[m]) ELSE 0
  BY <1>1, FollowSpec
<1>3. n \in Nat /\ \A i \in 0..(n - 1) : InChain(f[i])
  <2>1. EPF * LayoutOf(dk).spf \in Nat
    BY Places, DiskAssumption
  <2> QED BY <1>1, <2>1, ChainLengthSpec
<1> HIDE DEF f, n
<1>4. 0 \in T
  <2>1. 0 < n => InChain(f[0])
    BY <1>3
  <2> QED BY <1>1, <1>2, <2>1 DEF InChain
<1>5. ASSUME NEW m \in T PROVE m + 1 \in T
  <2>1. SUFFICES ASSUME m + 1 < n PROVE f[m + 1] \in D
    OBVIOUS
  <2>2. m \in Nat /\ m < n /\ m \in 0..(n - 1) /\ m + 1 \in 0..(n - 1)
    BY <1>3, <2>1
  <2>3. f[m] \in D /\ InChain(f[m]) /\ InChain(f[m + 1])
    BY <1>3, <1>5, <2>2
  <2>4. f[m + 1] = FatEntry(dk, f[m])
    BY <1>2, <2>2, <2>3
  <2> QED BY <2>3, <2>4 DEF ChainClosed
<1>6. \A m \in Nat : m \in T
  <2> HIDE DEF T
  <2> QED BY <1>4, <1>5, Induction, T \subseteq Nat DEF T
<1>7. Chain(dk, c) = [i \in 1..n |-> f[i - 1]]
  BY DEF Chain, f, n
<1>8. Len(Chain(dk, c)) = n /\ DOMAIN Chain(dk, c) = 1..n
  BY <1>3, <1>7
<1>9. ASSUME NEW i \in 1..n PROVE Chain(dk, c)[i] \in D
  BY <1>3, <1>6, <1>7
<1> QED BY <1>3, <1>8, <1>9

(* Chains that are not written are read as before.                            *)
LEMMA ChainKept ==
  ASSUME NEW dk, CardSet(dk), WellLaid(dk), NEW X, ChainClosed(dk, X), NEW c \in X \cup {0},
         NEW dk2, CardSet(dk2), WellLaid(dk2), LayoutOf(dk2) = LayoutOf(dk),
         \A x \in X : SameEntry(dk, dk2, x)
  PROVE  Chain(dk2, c) = Chain(dk, c)
<1> DEFINE f == Follow(dk, c)
           f2 == Follow(dk2, c)
           n == ChainLength(dk, c)
           n2 == ChainLength(dk2, c)
           N == EPF * LayoutOf(dk).spf
           T == {m \in Nat : m <= n => f2[m] = f[m] /\ (m < n => f[m] \in X)}
<1>1. c \in Nat /\ (c # 0 => c \in X)
  BY ClusterPlaces DEF ChainClosed, Allocated
<1>2. /\ f[0] = c /\ \A m \in Nat : f[m + 1] = IF InChain(f[m]) THEN FatEntry(dk, f[m]) ELSE 0
      /\ f2[0] = c /\ \A m \in Nat : f2[m + 1] = IF InChain(f2[m]) THEN FatEntry(dk2, f2[m]) ELSE 0
  BY <1>1, FollowSpec
<1>3. /\ n \in 0..N /\ \A i \in 0..(n - 1) : InChain(f[i])
      /\ n < N => ~InChain(f[n])
  BY <1>1, ChainLengthSpec
<1>4. /\ n2 \in 0..N /\ \A i \in 0..(n2 - 1) : InChain(f2[i])
      /\ n2 < N => ~InChain(f2[n2])
  BY <1>1, ChainLengthSpec
<1>5. N \in Nat
  BY Places, DiskAssumption
<1> HIDE DEF f, f2, n, n2, N
<1>6. 0 \in T
  <2>1. 0 < n => InChain(f[0])
    BY <1>3
  <2> QED BY <1>1, <1>2, <2>1 DEF InChain
<1>7. ASSUME NEW m \in T PROVE m + 1 \in T
  <2>1. SUFFICES ASSUME m + 1 <= n PROVE f2[m + 1] = f[m + 1] /\ (m + 1 < n => f[m + 1] \in X)
    OBVIOUS
  <2>2. m \in Nat /\ m < n /\ m <= n /\ m \in 0..(n - 1)
    BY <1>3, <1>5, <2>1
  <2>3. f2[m] = f[m] /\ f[m] \in X /\ InChain(f[m])
    BY <1>3, <1>7, <2>2
  <2>4. f[m + 1] = FatEntry(dk, f[m]) /\ f2[m + 1] = FatEntry(dk2, f[m])
    BY <1>2, <2>2, <2>3
  <2>5. f2[m + 1] = f[m + 1]
    BY <2>3, <2>4
  <2>6. m + 1 < n => f[m + 1] \in X
    <3>1. m + 1 < n => m + 1 \in 0..(n - 1)
      BY <1>3, <1>5, <2>2
    <3> QED BY <1>3, <2>3, <2>4, <3>1 DEF ChainClosed
  <2> QED BY <2>5, <2>6
<1>8. \A m \in Nat : m \in T
  <2> HIDE DEF T
  <2> QED BY <1>6, <1>7, Induction, T \subseteq Nat DEF T
<1>9. n2 = n
  <2>1. n \in Nat /\ n2 \in Nat /\ n <= N /\ n2 <= N
    BY <1>3, <1>4, <1>5
  <2>2. ~(n2 < n)
    <3>1. ASSUME n2 < n PROVE FALSE
      <4>1. f2[n2] = f[n2] /\ InChain(f[n2]) /\ ~InChain(f2[n2])
        BY <1>3, <1>4, <1>5, <1>8, <2>1, <3>1
      <4> QED BY <4>1
    <3> QED BY <3>1
  <2>3. ~(n < n2)
    <3>1. ASSUME n < n2 PROVE FALSE
      <4>1. f2[n] = f[n] /\ InChain(f2[n]) /\ ~InChain(f[n])
        BY <1>3, <1>4, <1>5, <1>8, <2>1, <3>1
      <4> QED BY <4>1
    <3> QED BY <3>1
  <2> QED BY <2>1, <2>2, <2>3
<1>10. Chain(dk, c) = [i \in 1..n |-> f[i - 1]] /\ Chain(dk2, c) = [i \in 1..n |-> f2[i - 1]]
  BY <1>9 DEF Chain, f, f2, n, n2
<1>11. ASSUME NEW i \in 1..n PROVE f2[i - 1] = f[i - 1]
  <2>1. i - 1 \in Nat /\ i - 1 <= n
    BY <1>3, <1>5
  <2> QED BY <1>8, <2>1
<1> QED BY <1>10, <1>11

(* Where the slots of a folder lie, counted through its clusters.             *)
SlotCount(dk, d) == Len(Chain(dk, d)) * LayoutOf(dk).spc * SLOTS
RankOf(dk, i) == 1 + (((i - 1) \div SLOTS) \div LayoutOf(dk).spc)
ClusterOf(dk, d, i) == Chain(dk, d)[RankOf(dk, i)]
SectorOf(dk, i) == ((i - 1) \div SLOTS) % LayoutOf(dk).spc
ItemOf(i) == 1 + ((i - 1) % SLOTS)
LEMMA SlotsPlaced ==
  ASSUME NEW dk, CardSet(dk), WellLaid(dk), NEW D, ChainClosed(dk, D), NEW d \in D
  PROVE  /\ SlotCount(dk, d) \in Nat
         /\ AllSlots(ChainSectors(dk, d)) \in [1..SlotCount(dk, d) -> SlotSet]
         /\ \A i \in 1..SlotCount(dk, d) :
              /\ ClusterOf(dk, d, i) \in D
              /\ RankOf(dk, i) \in 1..Len(Chain(dk, d))
              /\ SectorOf(dk, i) \in 0..(LayoutOf(dk).spc - 1) /\ ItemOf(i) \in 1..SLOTS
              /\ AllSlots(ChainSectors(dk, d))[i] = SlotAt(dk, ClusterOf(dk, d, i), SectorOf(dk, i), ItemOf(i))
<1> DEFINE p == LayoutOf(dk)
           chain == Chain(dk, d)
           N == Len(chain) * p.spc
           sectors == ChainSectors(dk, d)
           slots == AllSlots(sectors)
           M == N * SLOTS
<1>1. p.spc \in Nat \ {0} /\ SLOTS \in Nat \ {0}
  BY Places, DiskAssumption
<1>2. Len(chain) \in Nat /\ \A i \in 1..Len(chain) : chain[i] \in D
  BY ChainStays
<1>3. sectors = [k \in 1..N |-> Fetch(dk, DataLba(p, chain[1 + ((k - 1) \div p.spc)], (k - 1) % p.spc))]
  BY DEF ChainSectors
<1> HIDE DEF p, chain, sectors
<1>4. N \in Nat
  BY <1>1, <1>2
<1>5. Len(sectors) = N
  <2> HIDE DEF N
  <2> QED BY <1>3, <1>4
<1>6. slots = [i \in 1..M |-> Slots(sectors[1 + ((i - 1) \div SLOTS)])[1 + ((i - 1) % SLOTS)]]
  BY <1>5 DEF AllSlots
<1> HIDE DEF slots
<1>7. M \in Nat
  <2> HIDE DEF N
  <2> QED BY <1>1, <1>4
<1>8. ASSUME NEW i \in 1..M
      PROVE  /\ chain[1 + (((i - 1) \div SLOTS) \div p.spc)] \in D
             /\ 1 + (((i - 1) \div SLOTS) \div p.spc) \in 1..Len(chain)
             /\ ((i - 1) \div SLOTS) % p.spc \in 0..(p.spc - 1) /\ ItemOf(i) \in 1..SLOTS
             /\ slots[i] = Slots(Fetch(dk, DataLba(p, chain[1 + (((i - 1) \div SLOTS) \div p.spc)],
                                                      ((i - 1) \div SLOTS) % p.spc)))[ItemOf(i)]
  <2> DEFINE k == (i - 1) \div SLOTS
  <2>1. i - 1 \in 0..(SLOTS * N - 1)
    <3>1. M = SLOTS * N
      <4> HIDE DEF N
      <4> QED BY <1>1, <1>4
    <3> HIDE DEF N, M
    <3> QED BY <1>7, <3>1
  <2>2. k \in 0..(N - 1)
    <3> HIDE DEF N
    <3> QED BY <1>1, <1>4, <2>1, DivBound
  <2>3. ItemOf(i) \in 1..SLOTS
    <3> HIDE DEF N
    <3>1. i - 1 \in Nat
      BY <1>7
    <3> QED BY <1>1, <3>1 DEF ItemOf
  <2> HIDE DEF k
  <2>4. k \in 0..(p.spc * Len(chain) - 1)
    <3>1. N = p.spc * Len(chain)
      BY <1>1, <1>2
    <3> QED BY <2>2, <3>1
  <2>5. k \div p.spc \in 0..(Len(chain) - 1)
    BY <1>1, <1>2, <2>4, DivBound
  <2>6. k % p.spc \in 0..(p.spc - 1)
    <3>1. k \in Nat
      <4> HIDE DEF N
      <4> QED BY <1>4, <2>2
    <3> QED BY <1>1, <3>1
  <2>7. chain[1 + (k \div p.spc)] \in D /\ 1 + (k \div p.spc) \in 1..Len(chain)
    BY <1>2, <2>5
  <2>8. sectors[1 + k] = Fetch(dk, DataLba(p, chain[1 + (k \div p.spc)], k % p.spc))
    <3>1. 1 + k \in 1..N /\ (1 + k) - 1 = k
      <4> HIDE DEF N
      <4> QED BY <1>4, <2>2
    <3> HIDE DEF N
    <3> QED BY <1>3, <3>1
  <2>9. slots[i] = Slots(sectors[1 + k])[ItemOf(i)]
    <3> HIDE DEF M
    <3> QED BY <1>6 DEF ItemOf, k
  <2> QED BY <2>3, <2>6, <2>7, <2>8, <2>9 DEF k
<1>9. SlotCount(dk, d) = M
  BY DEF SlotCount, p, chain
<1> HIDE DEF M
<1>10. ASSUME NEW i \in 1..M
       PROVE  /\ ClusterOf(dk, d, i) \in D
              /\ RankOf(dk, i) \in 1..Len(Chain(dk, d))
              /\ SectorOf(dk, i) \in 0..(p.spc - 1) /\ ItemOf(i) \in 1..SLOTS
              /\ slots[i] = SlotAt(dk, ClusterOf(dk, d, i), SectorOf(dk, i), ItemOf(i))
  BY <1>8 DEF RankOf, ClusterOf, SectorOf, SlotAt, p, chain
<1>11. ASSUME NEW i \in 1..M PROVE slots[i] \in SlotSet
  BY <1>10, FetchType DEF SlotAt, SlotSeq
<1>12. slots \in [1..M -> SlotSet]
  BY <1>6, <1>11
<1> QED BY <1>7, <1>9, <1>10, <1>12 DEF slots, sectors, p

(* Every slot of a folder's listing is in a sector of its clusters.           *)
LEMMA DirSlotsStay ==
  ASSUME NEW dk, CardSet(dk), WellLaid(dk), NEW D, ChainClosed(dk, D), NEW d \in D
  PROVE  /\ DOMAIN DirSlots(dk, d) = 1..Len(DirSlots(dk, d)) /\ Len(DirSlots(dk, d)) \in Nat
         /\ \A i \in 1..Len(DirSlots(dk, d)) :
              DirSlots(dk, d)[i] \in FolderSlots(dk, D) /\ DirSlots(dk, d)[i] \in SlotSet
<1> DEFINE slots == AllSlots(ChainSectors(dk, d))
           M == SlotCount(dk, d)
<1>1. M \in Nat /\ slots \in [1..M -> SlotSet]
  BY SlotsPlaced
<1>2. ASSUME NEW i \in 1..M PROVE slots[i] \in FolderSlots(dk, D) /\ slots[i] \in SlotSet
  <2>1. /\ ClusterOf(dk, d, i) \in D
        /\ SectorOf(dk, i) \in 0..(LayoutOf(dk).spc - 1) /\ ItemOf(i) \in 1..SLOTS
        /\ slots[i] = SlotAt(dk, ClusterOf(dk, d, i), SectorOf(dk, i), ItemOf(i))
    BY SlotsPlaced
  <2> HIDE DEF slots, M
  <2> QED BY <1>1, <2>1, InFolderSlots
<1>3. DirSlots(dk, d) = SlotsUpToEnd(slots)
  BY DEF DirSlots
<1> HIDE DEF slots, M
<1>4. /\ EndSlot(slots) \in 0..M /\ SlotsUpToEnd(slots) \in Seq(SlotSet)
      /\ Len(SlotsUpToEnd(slots)) = IF EndSlot(slots) = 0 THEN M ELSE EndSlot(slots) - 1
      /\ \A i \in 1..Len(SlotsUpToEnd(slots)) : SlotsUpToEnd(slots)[i] = slots[i]
  BY <1>1, EndSlotType
<1>5. Len(SlotsUpToEnd(slots)) \in 0..M
  BY <1>1, <1>4
<1> QED BY <1>1, <1>2, <1>3, <1>4, <1>5

LEMMA SubFoldersStay ==
  ASSUME NEW dk, CardSet(dk), WellLaid(dk), NEW D, NEW F, Consistent(dk, D, F), NEW d \in D
  PROVE  SubFolders(dk, d) \cap Clusters(dk) \subseteq D
<1>1. SUFFICES ASSUME NEW c \in SubFolders(dk, d), c \in Clusters(dk) PROVE c \in D
  OBVIOUS
<1>2. PICK slot \in Range(DirSlots(dk, d)) : slot.t = "dir" /\ c = slot.cluster
  BY DEF SubFolders
<1>3. slot \in FolderSlots(dk, D)
  BY DirSlotsStay DEF Range, Consistent
<1>4. c # 0 /\ IsEntry(slot)
  BY <1>1, <1>2, ClusterPlaces DEF IsEntry
<1> QED BY <1>2, <1>3, <1>4 DEF Consistent, LeadsTo

LEMMA FoldersStay ==
  ASSUME NEW dk, CardSet(dk), WellLaid(dk), NEW D, NEW F, Consistent(dk, D, F)
  PROVE  Folders(dk) \subseteq D
<1> DEFINE below == [d \in Clusters(dk) |-> SubFolders(dk, d) \cap Clusters(dk)]
           Closed(S) == LayoutOf(dk).root \in S /\ \A d \in S : below[d] \subseteq S
<1>1. D \in SUBSET Clusters(dk) /\ LayoutOf(dk).root \in D
  BY DEF Consistent, ChainClosed, Allocated
<1>2. ASSUME NEW d \in D PROVE below[d] \subseteq D
  BY <1>1, SubFoldersStay
<1>3. Closed(D)
  BY <1>1, <1>2
<1>4. Folders(dk) = {c \in Clusters(dk) : \A S \in SUBSET Clusters(dk) : Closed(S) => c \in S}
  BY DEF Folders
<1> HIDE DEF Closed
<1> QED BY <1>1, <1>3, <1>4

(* So every file and folder of the namespace is one of these slots.           *)
LEMMA TreeStays ==
  ASSUME NEW dk, CardSet(dk), WellLaid(dk), NEW D, NEW F, Consistent(dk, D, F), NEW e \in Tree(dk)
  PROVE  e.dir \in D /\ e.slot \in FolderSlots(dk, D) /\ IsEntry(e.slot)
         /\ LeadsTo(e.slot, D, F)
         /\ (e.slot.cluster # 0 => e.slot.cluster \in Allocated(dk))
<1>1. PICK d \in Folders(dk) :
        \E i \in DOMAIN DirSlots(dk, d) :
          /\ IsEntry(DirSlots(dk, d)[i]) /\ e = [dir |-> d, at |-> i, slot |-> DirSlots(dk, d)[i]]
  BY DEF Tree
<1>2. d \in D
  BY FoldersStay
<1>3. PICK i \in DOMAIN DirSlots(dk, d) :
        IsEntry(DirSlots(dk, d)[i]) /\ e = [dir |-> d, at |-> i, slot |-> DirSlots(dk, d)[i]]
  BY <1>1
<1>4. DirSlots(dk, d)[i] \in FolderSlots(dk, D)
  BY <1>2, <1>3, DirSlotsStay DEF Consistent
<1>5. e.dir = d /\ e.slot = DirSlots(dk, d)[i]
  BY <1>3
<1>6. LeadsTo(e.slot, D, F) /\ D \subseteq Allocated(dk) /\ F \subseteq Allocated(dk)
  BY <1>4, <1>5 DEF Consistent, ChainClosed
<1> QED BY <1>2, <1>3, <1>4, <1>5, <1>6 DEF LeadsTo

----------------------------------------------------------------------------
(* A change of a card in good order that does no harm: the FAT entries of its *)
(* folders and files stay, and the data of the files, and what the folders    *)
(* hold, except that an unused slot may be taken.                             *)
Grown(old, new) == new = old \/ (IsUnused(old) /\ new.t # "free")
Harmless(dk, dk2, D, F) ==
  /\ CardSet(dk2) /\ WellLaid(dk2) /\ LayoutOf(dk2) = LayoutOf(dk)
  /\ \A c \in D \cup F : SameEntry(dk, dk2, c)
  /\ \A c \in F : \A s \in 0..(LayoutOf(dk).spc - 1) :
       Fetch(dk2, DataLba(LayoutOf(dk), c, s)) = Fetch(dk, DataLba(LayoutOf(dk), c, s))
  /\ \A c \in D : \A s \in 0..(LayoutOf(dk).spc - 1) : \A i \in 1..SLOTS :
       Grown(SlotAt(dk, c, s, i), SlotAt(dk2, c, s, i))

(* A change that leaves folders and files alone.                              *)
Unmoved(dk, dk2, D, F) ==
  /\ Harmless(dk, dk2, D, F) /\ DOMAIN dk2 = DOMAIN dk
  /\ \A c \in D : \A s \in 0..(LayoutOf(dk).spc - 1) :
       Fetch(dk2, DataLba(LayoutOf(dk), c, s)) = Fetch(dk, DataLba(LayoutOf(dk), c, s))

LEMMA DirGrows ==
  ASSUME NEW dk, CardSet(dk), WellLaid(dk), NEW D, NEW F, Consistent(dk, D, F),
         NEW dk2, Harmless(dk, dk2, D, F), NEW d \in D
  PROVE  /\ DOMAIN DirSlots(dk, d) = 1..Len(DirSlots(dk, d)) /\ Len(DirSlots(dk, d)) \in Nat
         /\ \A i \in DOMAIN DirSlots(dk, d) :
              i \in DOMAIN DirSlots(dk2, d) /\ Grown(DirSlots(dk, d)[i], DirSlots(dk2, d)[i])
<1> DEFINE a == AllSlots(ChainSectors(dk, d))
           a2 == AllSlots(ChainSectors(dk2, d))
           M == SlotCount(dk, d)
<1>1. ChainClosed(dk, D) /\ CardSet(dk2) /\ WellLaid(dk2) /\ LayoutOf(dk2) = LayoutOf(dk)
  BY DEF Consistent, Harmless
<1>2. ChainClosed(dk2, D) /\ Chain(dk2, d) = Chain(dk, d)
  <2>1. \A c \in D : SameEntry(dk, dk2, c)
    BY DEF Harmless
  <2> QED BY <1>1, <2>1, ChainClosedKept, ChainKept
<1>3. /\ SlotCount(dk2, d) = M
      /\ \A i : ClusterOf(dk2, d, i) = ClusterOf(dk, d, i) /\ SectorOf(dk2, i) = SectorOf(dk, i)
  BY <1>1, <1>2 DEF SlotCount, RankOf, ClusterOf, SectorOf
<1>4. M \in Nat /\ a \in [1..M -> SlotSet] /\ a2 \in [1..M -> SlotSet]
  BY <1>1, <1>2, <1>3, SlotsPlaced
<1>5. ASSUME NEW i \in 1..M PROVE Grown(a[i], a2[i])
  <2>1. /\ ClusterOf(dk, d, i) \in D
        /\ SectorOf(dk, i) \in 0..(LayoutOf(dk).spc - 1) /\ ItemOf(i) \in 1..SLOTS
        /\ a[i] = SlotAt(dk, ClusterOf(dk, d, i), SectorOf(dk, i), ItemOf(i))
    BY <1>1, SlotsPlaced
  <2>2. a2[i] = SlotAt(dk2, ClusterOf(dk, d, i), SectorOf(dk, i), ItemOf(i))
    <3>1. i \in 1..SlotCount(dk2, d)
      BY <1>3
    <3>2. a2[i] = SlotAt(dk2, ClusterOf(dk2, d, i), SectorOf(dk2, i), ItemOf(i))
      BY <1>1, <1>2, <3>1, SlotsPlaced
    <3> QED BY <1>3, <3>2
  <2> QED BY <2>1, <2>2 DEF Harmless
<1>6. DirSlots(dk, d) = SlotsUpToEnd(a) /\ DirSlots(dk2, d) = SlotsUpToEnd(a2)
  BY DEF DirSlots
<1> HIDE DEF a, a2, M
<1>7. /\ EndSlot(a) \in 0..M /\ SlotsUpToEnd(a) \in Seq(SlotSet)
      /\ (EndSlot(a) # 0 => a[EndSlot(a)].t = "free")
      /\ (\A i \in 1..M : (EndSlot(a) = 0 \/ i < EndSlot(a)) => a[i].t # "free")
      /\ Len(SlotsUpToEnd(a)) = IF EndSlot(a) = 0 THEN M ELSE EndSlot(a) - 1
      /\ \A i \in 1..Len(SlotsUpToEnd(a)) : SlotsUpToEnd(a)[i] = a[i]
  BY <1>4, EndSlotType
<1>8. /\ EndSlot(a2) \in 0..M /\ SlotsUpToEnd(a2) \in Seq(SlotSet)
      /\ (EndSlot(a2) # 0 => a2[EndSlot(a2)].t = "free")
      /\ Len(SlotsUpToEnd(a2)) = IF EndSlot(a2) = 0 THEN M ELSE EndSlot(a2) - 1
      /\ \A i \in 1..Len(SlotsUpToEnd(a2)) : SlotsUpToEnd(a2)[i] = a2[i]
  BY <1>4, EndSlotType
<1>9. Len(SlotsUpToEnd(a)) <= Len(SlotsUpToEnd(a2)) /\ Len(SlotsUpToEnd(a)) \in 0..M
  <2>1. ASSUME EndSlot(a2) # 0 PROVE EndSlot(a) # 0 /\ EndSlot(a) <= EndSlot(a2)
    <3>1. EndSlot(a2) \in 1..M
      BY <1>4, <1>8, <2>1
    <3>2. a[EndSlot(a2)].t = "free"
      BY <1>5, <1>8, <2>1, <3>1 DEF Grown
    <3> QED BY <1>4, <1>7, <3>1, <3>2
  <2> QED BY <1>4, <1>7, <1>8, <2>1
<1>10. \A i \in 1..Len(SlotsUpToEnd(a)) : i \in 1..Len(SlotsUpToEnd(a2)) /\ i \in 1..M
  BY <1>4, <1>8, <1>9
<1>11. DOMAIN SlotsUpToEnd(a) = 1..Len(SlotsUpToEnd(a)) /\ DOMAIN SlotsUpToEnd(a2) = 1..Len(SlotsUpToEnd(a2))
  BY <1>7, <1>8
<1>12. Len(SlotsUpToEnd(a)) \in Nat
  BY <1>4, <1>9
<1>13. ASSUME NEW i \in 1..Len(SlotsUpToEnd(a))
       PROVE  i \in 1..Len(SlotsUpToEnd(a2)) /\ Grown(SlotsUpToEnd(a)[i], SlotsUpToEnd(a2)[i])
  BY <1>5, <1>7, <1>8, <1>10
<1> QED BY <1>6, <1>11, <1>12, <1>13

(* So every file and folder stays where it is.                                *)
LEMMA TreeGrows ==
  ASSUME NEW dk, CardSet(dk), WellLaid(dk), NEW D, NEW F, Consistent(dk, D, F),
         NEW dk2, Harmless(dk, dk2, D, F)
  PROVE  Tree(dk) \subseteq Tree(dk2)
<1> DEFINE Below(x) == [d \in Clusters(dk) |-> SubFolders(x, d) \cap Clusters(dk)]
           Closed(x, S) == LayoutOf(dk).root \in S /\ \A d \in S : Below(x)[d] \subseteq S
<1>1. LayoutOf(dk2) = LayoutOf(dk) /\ Clusters(dk2) = Clusters(dk)
      /\ D \in SUBSET Clusters(dk) /\ LayoutOf(dk).root \in D
  BY DEF Harmless, Consistent, ChainClosed, Allocated, Clusters
<1>2. ASSUME NEW d \in D, NEW i \in DOMAIN DirSlots(dk, d), IsEntry(DirSlots(dk, d)[i])
      PROVE  i \in DOMAIN DirSlots(dk2, d) /\ DirSlots(dk2, d)[i] = DirSlots(dk, d)[i]
  BY <1>2, DirGrows DEF Grown, IsEntry, IsUnused
<1>3. ASSUME NEW d \in D PROVE SubFolders(dk, d) \subseteq SubFolders(dk2, d)
  <2>1. SUFFICES ASSUME NEW c \in SubFolders(dk, d) PROVE c \in SubFolders(dk2, d)
    OBVIOUS
  <2>2. PICK i \in DOMAIN DirSlots(dk, d) :
          /\ DirSlots(dk, d)[i].t = "dir" /\ ~IsDot(DirSlots(dk, d)[i])
          /\ c = DirSlots(dk, d)[i].cluster
    BY <2>1 DEF SubFolders, Range
  <2>3. i \in DOMAIN DirSlots(dk2, d) /\ DirSlots(dk2, d)[i] = DirSlots(dk, d)[i]
    BY <1>2, <2>2 DEF IsEntry
  <2>4. DirSlots(dk2, d)[i] \in Range(DirSlots(dk2, d))
    BY <2>3 DEF Range
  <2> QED BY <2>2, <2>3, <2>4 DEF SubFolders
<1>4. /\ Folders(dk) = {c \in Clusters(dk) : \A S \in SUBSET Clusters(dk) : Closed(dk, S) => c \in S}
      /\ Folders(dk2) = {c \in Clusters(dk) : \A S \in SUBSET Clusters(dk) : Closed(dk2, S) => c \in S}
  BY <1>1 DEF Folders
<1>5. ASSUME NEW S \in SUBSET Clusters(dk), Closed(dk2, S) PROVE Closed(dk, S \cap D)
  <2>1. ASSUME NEW d \in S \cap D PROVE Below(dk)[d] \subseteq S \cap D
    <3>1. Below(dk)[d] \subseteq Below(dk2)[d]
      BY <1>1, <1>3
    <3>2. Below(dk)[d] \subseteq D
      BY <1>1, SubFoldersStay
    <3> QED BY <1>5, <3>1, <3>2
  <2> QED BY <1>1, <1>5, <2>1
<1>6. Folders(dk) \subseteq Folders(dk2) /\ Folders(dk) \subseteq D
  <2>1. \A S \in SUBSET Clusters(dk) : S \cap D \in SUBSET Clusters(dk)
    OBVIOUS
  <2>2. Folders(dk) \subseteq Folders(dk2)
    <3> HIDE DEF Closed
    <3> QED BY <1>4, <1>5, <2>1
  <2> QED BY <2>2, FoldersStay
<1>7. ASSUME NEW e \in Tree(dk) PROVE e \in Tree(dk2)
  <2>1. PICK d \in Folders(dk) :
          \E i \in DOMAIN DirSlots(dk, d) :
            /\ IsEntry(DirSlots(dk, d)[i]) /\ ~IsDot(DirSlots(dk, d)[i])
            /\ e = [dir |-> d, at |-> i, slot |-> DirSlots(dk, d)[i]]
    BY <1>7 DEF Tree
  <2>2. PICK i \in DOMAIN DirSlots(dk, d) :
            /\ IsEntry(DirSlots(dk, d)[i]) /\ ~IsDot(DirSlots(dk, d)[i])
            /\ e = [dir |-> d, at |-> i, slot |-> DirSlots(dk, d)[i]]
    BY <2>1
  <2>3. i \in DOMAIN DirSlots(dk2, d) /\ DirSlots(dk2, d)[i] = DirSlots(dk, d)[i] /\ d \in Folders(dk2)
    BY <1>2, <1>6, <2>2
  <2> QED BY <2>2, <2>3 DEF Tree
<1> QED BY <1>7

(* A chain whose clusters keep their FAT entries and their contents reads the *)
(* same.                                                                      *)
LEMMA SectorsSame ==
  ASSUME NEW dk, CardSet(dk), WellLaid(dk), NEW X, ChainClosed(dk, X), NEW c \in X \cup {0},
         NEW dk2, CardSet(dk2), WellLaid(dk2), LayoutOf(dk2) = LayoutOf(dk),
         \A x \in X : SameEntry(dk, dk2, x),
         \A x \in X : \A s \in 0..(LayoutOf(dk).spc - 1) :
           Fetch(dk2, DataLba(LayoutOf(dk), x, s)) = Fetch(dk, DataLba(LayoutOf(dk), x, s))
  PROVE  Chain(dk2, c) = Chain(dk, c) /\ ChainSectors(dk2, c) = ChainSectors(dk, c)
<1> DEFINE p == LayoutOf(dk)
           chain == Chain(dk, c)
           N == Len(chain) * p.spc
<1>1. \A x \in X : \A s \in 0..(p.spc - 1) : Fetch(dk2, DataLba(p, x, s)) = Fetch(dk, DataLba(p, x, s))
  OBVIOUS
<1>2. Chain(dk2, c) = chain
  BY ChainKept
<1>3. Len(chain) \in Nat /\ \A i \in 1..Len(chain) : chain[i] \in X
  BY ChainStays
<1>4. p.spc \in Nat \ {0}
  BY Places
<1>5. /\ ChainSectors(dk, c)
           = [k \in 1..N |-> Fetch(dk, DataLba(p, chain[1 + ((k - 1) \div p.spc)], (k - 1) % p.spc))]
      /\ ChainSectors(dk2, c)
           = [k \in 1..N |-> Fetch(dk2, DataLba(p, chain[1 + ((k - 1) \div p.spc)], (k - 1) % p.spc))]
  BY <1>2 DEF ChainSectors
<1> HIDE DEF p, chain
<1>6. ASSUME NEW k \in 1..N
      PROVE  /\ chain[1 + ((k - 1) \div p.spc)] \in X
             /\ (k - 1) % p.spc \in 0..(p.spc - 1)
  <2>1. N = p.spc * Len(chain) /\ N \in Nat
    BY <1>3, <1>4
  <2> HIDE DEF N
  <2>2. k - 1 \in 0..(p.spc * Len(chain) - 1) /\ k - 1 \in Nat
    BY <2>1
  <2>3. (k - 1) \div p.spc \in 0..(Len(chain) - 1)
    BY <1>3, <1>4, <2>2, DivBound
  <2>4. 1 + ((k - 1) \div p.spc) \in 1..Len(chain)
    BY <1>3, <2>3
  <2> QED BY <1>3, <1>4, <2>2, <2>4
<1>7. ChainSectors(dk2, c) = ChainSectors(dk, c)
  <2>1. \A k \in 1..N : Fetch(dk2, DataLba(p, chain[1 + ((k - 1) \div p.spc)], (k - 1) % p.spc))
                        = Fetch(dk, DataLba(p, chain[1 + ((k - 1) \div p.spc)], (k - 1) % p.spc))
    BY <1>1, <1>6
  <2> HIDE DEF N
  <2> QED BY <1>5, <2>1
<1> QED BY <1>2, <1>7 DEF chain

(* And every file keeps its bytes.                                            *)
LEMMA FilesSame ==
  ASSUME NEW dk, CardSet(dk), WellLaid(dk), NEW D, NEW F, Consistent(dk, D, F),
         NEW dk2, Harmless(dk, dk2, D, F), NEW slot, slot.cluster \in F \cup {0}
  PROVE  FileBytes(dk2, slot) = FileBytes(dk, slot)
<1>1. ChainClosed(dk, F) /\ CardSet(dk2) /\ WellLaid(dk2) /\ LayoutOf(dk2) = LayoutOf(dk)
      /\ (\A c \in F : SameEntry(dk, dk2, c))
      /\ \A c \in F : \A s \in 0..(LayoutOf(dk).spc - 1) :
           Fetch(dk2, DataLba(LayoutOf(dk), c, s)) = Fetch(dk, DataLba(LayoutOf(dk), c, s))
  BY DEF Consistent, Harmless
<1>2. ChainSectors(dk2, slot.cluster) = ChainSectors(dk, slot.cluster)
  BY <1>1, SectorsSame
<1> QED BY <1>2 DEF FileBytes
----------------------------------------------------------------------------
(* The four writes of mkdir and touch, on a card in good order.               *)
LEMMA InClusters ==
  ASSUME NEW dk, CardSet(dk), WellLaid(dk), NEW D, NEW F, Consistent(dk, D, F), NEW c \in D \cup F
  PROVE  /\ c \in Clusters(dk) /\ FatEntry(dk, c) # 0
         /\ \A s \in 0..(LayoutOf(dk).spc - 1) :
              DataLba(LayoutOf(dk), c, s) \in Nat /\ DataLba(LayoutOf(dk), c, s) >= LayoutOf(dk).dataBegin
<1>1. c \in Clusters(dk) /\ FatEntry(dk, c) # 0
  BY DEF Consistent, ChainClosed, Allocated
<1> QED BY <1>1, ClusterPlaces

LEMMA ElsewhereHarmless ==
  ASSUME NEW dk, CardSet(dk), WellLaid(dk), NEW D, NEW F, Consistent(dk, D, F),
         NEW lba \in Nat, lba >= LayoutOf(dk).fatBegin, NEW content \in Sector,
         NEW dk2, dk2 = Written(dk, lba, content),
         \A c \in D \cup F : SameEntry(dk, dk2, c),
         \A c \in D \cup F : \A s \in 0..(LayoutOf(dk).spc - 1) : DataLba(LayoutOf(dk), c, s) # lba
  PROVE  Unmoved(dk, dk2, D, F) /\ Consistent(dk2, D, F)
<1>1. /\ CardSet(dk2) /\ WellLaid(dk2) /\ LayoutOf(dk2) = LayoutOf(dk)
      /\ \A x : x # lba => Fetch(dk2, x) = Fetch(dk, x)
  BY WriteSame
<1>2. \A c \in D \cup F : \A s \in 0..(LayoutOf(dk).spc - 1) :
        Fetch(dk2, DataLba(LayoutOf(dk), c, s)) = Fetch(dk, DataLba(LayoutOf(dk), c, s))
  BY <1>1
<1>3. Unmoved(dk, dk2, D, F)
  <2>1. Harmless(dk, dk2, D, F)
    BY <1>1, <1>2 DEF Harmless, Grown, SlotAt
  <2>2. DOMAIN dk2 = DOMAIN dk
    BY DEF Written, CardSet
  <2> QED BY <1>2, <2>1, <2>2 DEF Unmoved
<1>4. FolderSlots(dk2, D) = FolderSlots(dk, D)
  BY <1>1, <1>2, SlotsKept
<1>5. ChainClosed(dk2, D) /\ ChainClosed(dk2, F)
  BY <1>1, ChainClosedKept DEF Consistent
<1> QED BY <1>3, <1>4, <1>5, <1>1 DEF Consistent

LEMMA TakeFat ==
  ASSUME NEW dk, CardSet(dk), WellLaid(dk), SecondFollows(dk), NEW D, NEW F, Consistent(dk, D, F),
         NEW c \in Clusters(dk), c < EPF, FatEntry(dk, c) = 0,
         NEW dk2, LayoutOf(dk).fatBegin \in DOMAIN dk,
         dk2 = Written(dk, LayoutOf(dk).fatBegin, WithItem(dk[LayoutOf(dk).fatBegin], c, EOC))
  PROVE  /\ Unmoved(dk, dk2, D, F) /\ Consistent(dk2, D, F) /\ SecondFollows(dk2)
         /\ TakenEntry(dk2, c)
<1> DEFINE lba == LayoutOf(dk).fatBegin
           content == WithItem(dk[lba], c, EOC)
<1>1. /\ LayoutOf(dk2) = LayoutOf(dk)
      /\ \A d \in Clusters(dk) : IF d = c THEN TakenEntry(dk2, d) ELSE SameEntry(dk, dk2, d)
      /\ \A d \in Clusters(dk) : Fat2Entry(dk2, d) = Fat2Entry(dk, d)
  BY WriteFat
<1>2. lba \in Nat /\ content \in Sector /\ lba < LayoutOf(dk).dataBegin /\ LayoutOf(dk).dataBegin \in Nat
  <2>1. /\ lba \in Nat /\ LayoutOf(dk).spf \in Nat \ {0} /\ LayoutOf(dk).fat2Begin = lba + LayoutOf(dk).spf
        /\ LayoutOf(dk).dataBegin \in Nat
        /\ LayoutOf(dk).dataBegin >= LayoutOf(dk).fat2Begin + LayoutOf(dk).spf
    BY Places
  <2>2. c \in Nat /\ dk[lba] \in Sector
    BY ClusterPlaces DEF CardSet
  <2>3. content \in Sector
    BY <2>2, WithItemType, DiskAssumption
  <2> HIDE DEF lba
  <2> QED BY <2>1, <2>3
<1>3. \A d \in D \cup F : SameEntry(dk, dk2, d)
  BY <1>1, InClusters
<1>4. \A d \in D \cup F : \A s \in 0..(LayoutOf(dk).spc - 1) : DataLba(LayoutOf(dk), d, s) # lba
  <2>1. ASSUME NEW d \in D \cup F, NEW s \in 0..(LayoutOf(dk).spc - 1)
        PROVE  DataLba(LayoutOf(dk), d, s) # lba
    <3>1. DataLba(LayoutOf(dk), d, s) \in Nat /\ DataLba(LayoutOf(dk), d, s) >= LayoutOf(dk).dataBegin
      BY InClusters
    <3> QED BY <1>2, <3>1
  <2> QED BY <2>1
<1>5. Unmoved(dk, dk2, D, F) /\ Consistent(dk2, D, F)
  <2>1. dk2 = Written(dk, lba, content) /\ lba >= LayoutOf(dk).fatBegin
    BY <1>2
  <2> HIDE DEF content, lba
  <2> QED BY <1>2, <1>3, <1>4, <2>1, ElsewhereHarmless
<1>6. SecondFollows(dk2)
  <2>1. Clusters(dk2) = Clusters(dk)
    BY <1>1 DEF Clusters
  <2>2. EOC # 0
    BY DiskAssumption
  <2> QED BY <1>1, <2>1, <2>2 DEF SecondFollows
<1> QED BY <1>1, <1>5, <1>6

LEMMA TakeMirror ==
  ASSUME NEW dk, CardSet(dk), WellLaid(dk), SecondFollows(dk), NEW D, NEW F, Consistent(dk, D, F),
         LayoutOf(dk).fatBegin \in DOMAIN dk,
         NEW dk2, dk2 = Written(dk, LayoutOf(dk).fat2Begin, dk[LayoutOf(dk).fatBegin])
  PROVE  /\ Unmoved(dk, dk2, D, F) /\ Consistent(dk2, D, F) /\ SecondFollows(dk2)
         /\ \A c \in Clusters(dk) : SameEntry(dk, dk2, c)
         /\ \A c \in Clusters(dk2) : c \div EPF = 0 => Fat2Entry(dk2, c) = FatEntry(dk2, c)
<1> DEFINE lba == LayoutOf(dk).fat2Begin
           content == dk[LayoutOf(dk).fatBegin]
<1>1. /\ LayoutOf(dk2) = LayoutOf(dk)
      /\ \A c \in Clusters(dk) : SameEntry(dk, dk2, c)
      /\ \A c \in Clusters(dk) : c \div EPF = 0 => Fat2Entry(dk2, c) = FatEntry(dk, c)
      /\ \A c \in Clusters(dk) : c \div EPF # 0 => Fat2Entry(dk2, c) = Fat2Entry(dk, c)
  BY WriteMirror
<1>2. lba \in Nat /\ content \in Sector /\ lba < LayoutOf(dk).dataBegin /\ LayoutOf(dk).dataBegin \in Nat
      /\ lba >= LayoutOf(dk).fatBegin
  <2>1. /\ LayoutOf(dk).fatBegin \in Nat /\ LayoutOf(dk).spf \in Nat \ {0}
        /\ lba = LayoutOf(dk).fatBegin + LayoutOf(dk).spf
        /\ LayoutOf(dk).dataBegin \in Nat
        /\ LayoutOf(dk).dataBegin >= lba + LayoutOf(dk).spf
    BY Places
  <2>2. content \in Sector
    BY DEF CardSet
  <2> HIDE DEF lba
  <2> QED BY <2>1, <2>2
<1>3. \A d \in D \cup F : SameEntry(dk, dk2, d)
  BY <1>1, InClusters
<1>4. \A d \in D \cup F : \A s \in 0..(LayoutOf(dk).spc - 1) : DataLba(LayoutOf(dk), d, s) # lba
  <2>1. ASSUME NEW d \in D \cup F, NEW s \in 0..(LayoutOf(dk).spc - 1)
        PROVE  DataLba(LayoutOf(dk), d, s) # lba
    <3>1. DataLba(LayoutOf(dk), d, s) \in Nat /\ DataLba(LayoutOf(dk), d, s) >= LayoutOf(dk).dataBegin
      BY InClusters
    <3> QED BY <1>2, <3>1
  <2> QED BY <2>1
<1>5. Unmoved(dk, dk2, D, F) /\ Consistent(dk2, D, F)
  <2>1. dk2 = Written(dk, lba, content)
    OBVIOUS
  <2> HIDE DEF content, lba
  <2> QED BY <1>2, <1>3, <1>4, <2>1, ElsewhereHarmless
<1>6. Clusters(dk2) = Clusters(dk)
  BY <1>1 DEF Clusters
<1>7. SecondFollows(dk2)
  <2>1. ASSUME NEW c \in Clusters(dk)
        PROVE  Fat2Entry(dk2, c) = FatEntry(dk2, c) \/ (Fat2Entry(dk2, c) = 0 /\ FatEntry(dk2, c) = EOC)
    <3>1. Fat2Entry(dk, c) = FatEntry(dk, c) \/ (Fat2Entry(dk, c) = 0 /\ FatEntry(dk, c) = EOC)
      BY DEF SecondFollows
    <3>2. CASE c \div EPF = 0
      BY <1>1, <3>2
    <3>3. CASE c \div EPF # 0
      BY <1>1, <3>1, <3>3
    <3> QED BY <3>2, <3>3
  <2> QED BY <1>6, <2>1 DEF SecondFollows
<1> QED BY <1>1, <1>5, <1>6, <1>7

LEMMA TakeData ==
  ASSUME NEW dk, CardSet(dk), WellLaid(dk), SecondFollows(dk), NEW D, NEW F, Consistent(dk, D, F),
         NEW c \in Clusters(dk), c \notin D \cup F, NEW s \in 0..(LayoutOf(dk).spc - 1),
         NEW content \in Sector, NEW dk2, dk2 = Written(dk, DataLba(LayoutOf(dk), c, s), content)
  PROVE  /\ Unmoved(dk, dk2, D, F) /\ Consistent(dk2, D, F) /\ SecondFollows(dk2)
         /\ Clusters(dk2) = Clusters(dk)
         /\ \A d \in Clusters(dk) : SameEntry(dk, dk2, d) /\ Fat2Entry(dk2, d) = Fat2Entry(dk, d)
         /\ \A t \in 0..(LayoutOf(dk).spc - 1) : t # s =>
              \A i \in 1..SLOTS : SlotAt(dk2, c, t, i) = SlotAt(dk, c, t, i)
         /\ \A i \in 1..SLOTS : SlotAt(dk2, c, s, i) = Slots(content)[i] \/ SlotAt(dk2, c, s, i).t = "other"
<1> DEFINE lba == DataLba(LayoutOf(dk), c, s)
<1>1. lba \in Nat /\ lba >= LayoutOf(dk).dataBegin
  BY ClusterPlaces
<1>2. lba >= LayoutOf(dk).fatBegin
  <2>1. /\ LayoutOf(dk).fatBegin \in Nat /\ LayoutOf(dk).spf \in Nat
        /\ LayoutOf(dk).fat2Begin = LayoutOf(dk).fatBegin + LayoutOf(dk).spf
        /\ LayoutOf(dk).dataBegin \in Nat /\ LayoutOf(dk).dataBegin >= LayoutOf(dk).fat2Begin + LayoutOf(dk).spf
    BY Places
  <2> HIDE DEF lba
  <2> QED BY <1>1, <2>1
<1> dk2 = Written(dk, lba, content)
  OBVIOUS
<1>3. \A d \in D \cup F : \A t \in 0..(LayoutOf(dk).spc - 1) : DataLba(LayoutOf(dk), d, t) # lba
  BY InClusters, DataLbaUnique
<1>4. \A t \in 0..(LayoutOf(dk).spc - 1) : t # s => DataLba(LayoutOf(dk), c, t) # lba
  BY DataLbaUnique
<1> HIDE DEF lba
<1>5. /\ LayoutOf(dk2) = LayoutOf(dk) /\ Clusters(dk2) = Clusters(dk)
      /\ \A x : x # lba => Fetch(dk2, x) = Fetch(dk, x)
      /\ IF lba \in DOMAIN dk THEN Fetch(dk2, lba) = content ELSE dk2 = dk
  BY <1>1, <1>2, WriteSame
<1>6. \A d \in Clusters(dk) : SameEntry(dk, dk2, d) /\ Fat2Entry(dk2, d) = Fat2Entry(dk, d)
  BY <1>1, WriteData
<1>7. Unmoved(dk, dk2, D, F) /\ Consistent(dk2, D, F)
  <2>1. \A d \in D \cup F : SameEntry(dk, dk2, d)
    BY <1>6, InClusters
  <2> QED BY <1>1, <1>2, <1>3, <2>1, ElsewhereHarmless
<1>8. SecondFollows(dk2)
  BY <1>5, <1>6 DEF SecondFollows
<1>9. \A t \in 0..(LayoutOf(dk).spc - 1) : t # s =>
        \A i \in 1..SLOTS : SlotAt(dk2, c, t, i) = SlotAt(dk, c, t, i)
  BY <1>4, <1>5 DEF SlotAt
<1>10. \A i \in 1..SLOTS : SlotAt(dk2, c, s, i) = Slots(content)[i] \/ SlotAt(dk2, c, s, i).t = "other"
  <2>1. CASE lba \in DOMAIN dk
    BY <1>5, <2>1 DEF SlotAt, lba
  <2>2. CASE lba \notin DOMAIN dk
    <3>1. Fetch(dk2, lba) = NoSector
      BY <1>5, <2>2 DEF Fetch
    <3>2. \A i \in 1..SLOTS : Slots(NoSector)[i].t = "other"
      BY DEF Slots, NoSector, Slot
    <3> QED BY <1>5, <3>1, <3>2 DEF SlotAt, lba
  <2> QED BY <2>1, <2>2
<1> QED BY <1>5, <1>6, <1>7, <1>8, <1>9, <1>10

(* An entry added in an unused slot of the first sector of a folder; D2 has   *)
(* the folder it is for besides D.                                            *)
LEMMA TakeSlot ==
  ASSUME NEW dk, CardSet(dk), WellLaid(dk), SecondFollows(dk), NEW D, NEW F, Consistent(dk, D, F),
         NEW d \in D, DataLba(LayoutOf(dk), d, 0) \in DOMAIN dk,
         UnusedSlot(dk[DataLba(LayoutOf(dk), d, 0)]) # 0,
         NEW entry \in SlotSet, entry.t # "free",
         NEW D2, D \subseteq D2, D2 \cap F = {}, ChainClosed(dk, D2), LeadsTo(entry, D2, F),
         \A c \in D2 \ D : \A s \in 0..(LayoutOf(dk).spc - 1) : \A i \in 1..SLOTS :
           LeadsTo(SlotAt(dk, c, s, i), D2, F),
         NEW dk2, dk2 = Written(dk, DataLba(LayoutOf(dk), d, 0), WithSlot(dk[DataLba(LayoutOf(dk), d, 0)], entry))
  PROVE  /\ Harmless(dk, dk2, D, F) /\ Consistent(dk2, D2, F) /\ SecondFollows(dk2)
         /\ DOMAIN dk2 = DOMAIN dk /\ \A c \in Clusters(dk) : SameEntry(dk, dk2, c)
         /\ LET n == UnusedSlot(dk[DataLba(LayoutOf(dk), d, 0)])
            IN /\ n \in 1..SLOTS /\ IsUnused(SlotAt(dk, d, 0, n))
               /\ \A i \in 1..SLOTS : i < n => ~IsUnused(SlotAt(dk, d, 0, i))
               /\ \A c \in D \cup D2 : \A s \in 0..(LayoutOf(dk).spc - 1) : \A i \in 1..SLOTS :
                    SlotAt(dk2, c, s, i) =
                      IF c = d /\ s = 0 /\ i = n THEN entry ELSE SlotAt(dk, c, s, i)
<1> DEFINE lba == DataLba(LayoutOf(dk), d, 0)
           old == dk[lba]
           content == WithSlot(old, entry)
           n == UnusedSlot(old)
<1>0. LayoutOf(dk).spc \in Nat \ {0} /\ 0 \in 0..(LayoutOf(dk).spc - 1)
  BY Places
<1>1. lba \in Nat /\ lba >= LayoutOf(dk).dataBegin /\ lba >= LayoutOf(dk).fatBegin
  <2>1. lba \in Nat /\ lba >= LayoutOf(dk).dataBegin
    BY <1>0, InClusters
  <2>2. /\ LayoutOf(dk).fatBegin \in Nat /\ LayoutOf(dk).spf \in Nat
        /\ LayoutOf(dk).fat2Begin = LayoutOf(dk).fatBegin + LayoutOf(dk).spf
        /\ LayoutOf(dk).dataBegin \in Nat /\ LayoutOf(dk).dataBegin >= LayoutOf(dk).fat2Begin + LayoutOf(dk).spf
    BY Places
  <2> HIDE DEF lba
  <2> QED BY <2>1, <2>2
<1>2. old \in Sector /\ content \in Sector /\ Fetch(dk, lba) = old
  BY WithSlotType DEF CardSet, Fetch
<1>3. \A c \in D \cup F \cup D2 : \A t \in 0..(LayoutOf(dk).spc - 1) :
        (c # d \/ t # 0) => DataLba(LayoutOf(dk), c, t) # lba
  <2>1. d \in Clusters(dk) /\ \A c \in D \cup F \cup D2 : c \in Clusters(dk)
    BY InClusters DEF ChainClosed, Allocated
  <2> QED BY <1>0, <2>1, DataLbaUnique
<1>4. n \in 1..SLOTS /\ IsUnused(Slots(old)[n]) /\ Slots(old) \in SlotSeq
      /\ Slots(content) = [Slots(old) EXCEPT ![n] = entry]
      /\ \A i \in 1..SLOTS : i < n => ~IsUnused(Slots(old)[i])
  <2>1. n \in 0..SLOTS /\ IsUnused(Slots(old)[n]) /\ n # 0
        /\ \A i \in 1..SLOTS : i < n => ~IsUnused(Slots(old)[i])
    BY <1>2, UnusedType
  <2>2. Slots(old) \in SlotSeq
    BY <1>2, SlotsType
  <2>3. Slots(content) = [Slots(old) EXCEPT ![n] = entry]
    BY DEF Slots, WithSlot
  <2> QED BY <2>1, <2>2, <2>3, DiskAssumption
<1>5. /\ CardSet(dk2) /\ WellLaid(dk2) /\ LayoutOf(dk2) = LayoutOf(dk) /\ Clusters(dk2) = Clusters(dk)
      /\ (\A x : x # lba => Fetch(dk2, x) = Fetch(dk, x)) /\ Fetch(dk2, lba) = content
  <2>1. dk2 = Written(dk, lba, content) /\ lba \in DOMAIN dk
    OBVIOUS
  <2> HIDE DEF content, lba
  <2> QED BY <1>1, <1>2, <2>1, WriteSame
<1>6. \A c \in Clusters(dk) : SameEntry(dk, dk2, c) /\ Fat2Entry(dk2, c) = Fat2Entry(dk, c)
  <2>1. dk2 = Written(dk, lba, content)
    OBVIOUS
  <2> HIDE DEF content, lba
  <2> QED BY <1>1, <1>2, <2>1, WriteData
<1>7. SecondFollows(dk2)
  BY <1>5, <1>6 DEF SecondFollows
<1>8. \A i \in 1..SLOTS :
        /\ SlotAt(dk, d, 0, i) = Slots(old)[i]
        /\ SlotAt(dk2, d, 0, i) = IF i = n THEN entry ELSE Slots(old)[i]
  <2>1. \A i \in 1..SLOTS : SlotAt(dk, d, 0, i) = Slots(old)[i] /\ SlotAt(dk2, d, 0, i) = Slots(content)[i]
    <3> HIDE DEF content, old
    <3> QED BY <1>2, <1>5 DEF SlotAt
  <2> HIDE DEF content, old, n
  <2> QED BY <1>4, <2>1 DEF SlotSeq
<1>9. \A c \in D \cup D2 : \A s \in 0..(LayoutOf(dk).spc - 1) : \A i \in 1..SLOTS :
        (c # d \/ s # 0) => SlotAt(dk2, c, s, i) = SlotAt(dk, c, s, i)
  <2> HIDE DEF lba, content, old, n
  <2> QED BY <1>3, <1>5 DEF SlotAt
<1>10. Harmless(dk, dk2, D, F)
  <2>1. \A c \in D \cup F : SameEntry(dk, dk2, c)
    BY <1>6, InClusters
  <2>2. \A c \in F : c # d
    BY DEF Consistent
  <2>3. \A c \in F : \A s \in 0..(LayoutOf(dk).spc - 1) :
          Fetch(dk2, DataLba(LayoutOf(dk), c, s)) = Fetch(dk, DataLba(LayoutOf(dk), c, s))
    <3> HIDE DEF lba, content, old, n
    <3> QED BY <1>3, <1>5, <2>2
  <2>4. ASSUME NEW c \in D, NEW s \in 0..(LayoutOf(dk).spc - 1), NEW i \in 1..SLOTS
        PROVE  Grown(SlotAt(dk, c, s, i), SlotAt(dk2, c, s, i))
    <3> HIDE DEF lba, content, old, n
    <3>1. CASE c = d /\ s = 0
      BY <1>4, <1>8, <3>1 DEF Grown
    <3>2. CASE c # d \/ s # 0
      BY <1>9, <3>2 DEF Grown
    <3> QED BY <3>1, <3>2
  <2> QED BY <1>5, <2>1, <2>3, <2>4 DEF Harmless
<1>11. ChainClosed(dk2, D2) /\ ChainClosed(dk2, F)
  <2>1. ChainClosed(dk, F) /\ (\A c \in D2 : c \in Clusters(dk)) /\ (\A c \in F : c \in Clusters(dk))
    BY DEF Consistent, ChainClosed, Allocated
  <2> QED BY <1>5, <1>6, <2>1, ChainClosedKept
<1>12. \A slot \in FolderSlots(dk2, D2) : slot \in FolderSlots(dk, D) \/ LeadsTo(slot, D2, F)
  <2>1. SUFFICES ASSUME NEW slot \in FolderSlots(dk2, D2)
                 PROVE  slot \in FolderSlots(dk, D) \/ LeadsTo(slot, D2, F)
    OBVIOUS
  <2>2. PICK c \in D2, s \in 0..(LayoutOf(dk).spc - 1), i \in 1..SLOTS : slot = SlotAt(dk2, c, s, i)
    BY <1>5, InFolderSlots
  <2> HIDE DEF lba, content, old, n
  <2>3. CASE c = d /\ s = 0
    <3>1. CASE i = n
      BY <1>8, <2>2, <2>3, <3>1
    <3>2. CASE i # n
      <4>1. slot = SlotAt(dk, d, 0, i)
        BY <1>8, <2>2, <2>3, <3>2
      <4> QED BY <1>0, <4>1, InFolderSlots
    <3> QED BY <3>1, <3>2
  <2>4. CASE c # d \/ s # 0
    <3>1. slot = SlotAt(dk, c, s, i)
      BY <1>9, <2>2, <2>4
    <3>2. CASE c \in D
      BY <3>1, <3>2, InFolderSlots
    <3>3. CASE c \notin D
      BY <3>1, <3>3
    <3> QED BY <3>2, <3>3
  <2> QED BY <2>3, <2>4
<1>13. Consistent(dk2, D2, F)
  BY <1>5, <1>11, <1>12, ConsistentKept
<1>14. DOMAIN dk2 = DOMAIN dk
  <2> HIDE DEF lba, content
  <2> QED BY DEF Written, CardSet, lba, content
<1>15. /\ IsUnused(SlotAt(dk, d, 0, n)) /\ \A i \in 1..SLOTS : i < n => ~IsUnused(SlotAt(dk, d, 0, i))
       /\ \A c \in D \cup D2 : \A s \in 0..(LayoutOf(dk).spc - 1) : \A i \in 1..SLOTS :
            SlotAt(dk2, c, s, i) = IF c = d /\ s = 0 /\ i = n THEN entry ELSE SlotAt(dk, c, s, i)
  <2> HIDE DEF lba, content, old, n
  <2> QED BY <1>4, <1>8, <1>9
<1> QED BY <1>4, <1>6, <1>7, <1>10, <1>13, <1>14, <1>15
----------------------------------------------------------------------------
(* The invariant.  D holds the folders and F the files' clusters, as in       *)
(* InGoodOrder; the routines only ever stand in D, and mkdir's new cluster is *)
(* in neither until its entry is written.                                     *)
Laid(p, q) ==
  /\ p.spc = q.spc /\ p.root = q.root
  /\ p.fatBegin = q.fatBegin /\ p.fat2Begin = q.fat2Begin /\ p.dataBegin = q.dataBegin
CardInv(D, F) ==
  /\ tree = Tree(disk) /\ ignoreCrc = FALSE
  /\ WellLaid(disk) /\ SecondFollows(disk) /\ Consistent(disk, D, F)
MountInv ==
  /\ Mounted => Laid(part, LayoutOf(disk))
  /\ pc = "bpb" => sdbuf = disk[0]
FolderInv(D, F) ==
  /\ Mounted => cur.cluster \in D /\ \A i \in 1..Len(path) : path[i].cluster \in D
  /\ pc = "chain" /\ ~IsFileChain => (InChain(next) => next \in D)
  /\ (pc = "chain" /\ ~IsFileChain) \/ pc = "scan" => \A i \in 1..Len(ll) : ll[i] \in D
  /\ pc \in {"chain", "scan", "search"} => \A i \in 1..Len(files) : LeadsTo(files[i], D, F)

(* What mkdir has done so far: the cluster it took, its entry in both FATs,   *)
(* the sectors it has cleared, and the sector in the buffer.                  *)
Linking == pc \in {"slotread", "slotwrite"}
Making == pc \in {"fatread", "fatwrite", "mirror", "clear"} \/ (Linking /\ job.op = "mkdir")
Cleared(dk, c, D, F, s) == \A i \in 1..SLOTS : LeadsTo(SlotAt(dk, c, s, i), D \cup {c}, F)
FatStage ==
  /\ pc \in {"fatread", "fatwrite"} => FatEntry(disk, next) = 0
  /\ Making /\ pc \notin {"fatread", "fatwrite"} => TakenEntry(disk, next)
  /\ pc \in {"fatwrite", "mirror"} =>
       LayoutOf(disk).fatBegin \in DOMAIN disk /\ sdbuf = disk[LayoutOf(disk).fatBegin]
  /\ pc = "clear" => \A c \in Clusters(disk) : c \div EPF = 0 => Fat2Entry(disk, c) = FatEntry(disk, c)
ClearStage(D, F) ==
  /\ pc = "clear" => /\ sec \in 0..(LayoutOf(disk).spc - 1)
                     /\ \A s \in 0..(sec - 1) : Cleared(disk, next, D, F, s)
  /\ Linking /\ job.op = "mkdir" =>
       \A s \in 0..(LayoutOf(disk).spc - 1) : Cleared(disk, next, D, F, s)
LinkStage ==
  pc = "slotwrite" =>
    LET lba == DataLba(LayoutOf(disk), cur.cluster, 0)
    IN lba \in DOMAIN disk /\ sdbuf = disk[lba] /\ UnusedSlot(sdbuf) # 0
MakeInv(D, F) ==
  /\ pc \in {"boot", "mbr", "bpb", "label", "prompt", "findfree"} => next = 0
  /\ pc \in {"boot", "mbr", "bpb", "label", "prompt", "findfree", "fatread", "fatwrite", "mirror"} => sec = 0
  /\ pc \in {"findfree", "fatread", "fatwrite", "mirror", "clear"} => job.op = "mkdir"
  /\ Linking /\ job.op # "mkdir" => next = 0
  /\ Making => next \in Clusters(disk) /\ next < EPF /\ next \notin D \cup F
  /\ FatStage /\ ClearStage(D, F) /\ LinkStage
VolInv(D, F) == CardInv(D, F) /\ MountInv /\ FolderInv(D, F) /\ MakeInv(D, F)

TreeStep == tree' = IF disk' = disk THEN tree ELSE Tree(disk')
NoYes == "yes" \notin Faults

(* Nobody answers Y: a read either brings the sector or is refused.           *)
LEMMA GoodRead ==
  ASSUME NoYes, ignoreCrc = FALSE, NEW lba, ReadSector(lba)
  PROVE  lba \in DOMAIN disk /\ sdbuf' = disk[lba] /\ disk' = disk /\ ignoreCrc' = FALSE
BY DEF NoYes, ReadSector

LEMMA CardQuiet ==
  ASSUME NEW D, NEW F, CardInv(D, F), TreeStep, disk' = disk, ignoreCrc' = FALSE
  PROVE  CardInv(D, F)'
BY DEF CardInv, TreeStep

LEMMA AnyRead ==
  ASSUME NoYes, NEW D, NEW F, CardInv(D, F), TreeStep, NEW lba, ReadSector(lba) \/ ReadRefused(lba)
  PROVE  CardInv(D, F)' /\ disk' = disk
<1>1. disk' = disk /\ ignoreCrc' = FALSE
  BY GoodRead DEF ReadRefused, CardInv
<1> QED BY <1>1, CardQuiet

(* mkdir's stages say nothing of a routine that reads.                        *)
LEMMA NotMaking ==
  ASSUME NEW D, NEW F,
         \/ pc' \in {"chain", "scan", "search", "paging", "reading", "loading", "halted"}
         \/ pc' \in {"boot", "mbr", "bpb", "label", "prompt"} /\ next' = 0 /\ sec' = 0
  PROVE  MakeInv(D, F)'
BY DEF MakeInv, FatStage, ClearStage, LinkStage, Making, Linking

(* A routine that is over.                                                    *)
LEMMA Over ==
  ASSUME NEW D, NEW F, VolInv(D, F), Mounted, NEW D2, CardInv(D2, F)', D \subseteq D2,
         LayoutOf(disk') = LayoutOf(disk), NEW v, Return(v), UNCHANGED dirVars
  PROVE  VolInv(D2, F)'
<1>1. pc' = "prompt" /\ next' = 0 /\ sec' = 0
  BY DEF Return
<1>2. MountInv'
  BY <1>1 DEF VolInv, MountInv, dirVars, Mounted
<1>3. FolderInv(D2, F)'
  BY <1>1 DEF VolInv, FolderInv, dirVars, Mounted
<1>4. MakeInv(D2, F)'
  BY <1>1, NotMaking
<1> QED BY <1>2, <1>3, <1>4 DEF VolInv

LEMMA VolMount ==
  ASSUME NoYes, TypeInv, NEW D, NEW F, VolInv(D, F), TreeStep, Mount
  PROVE  VolInv(D, F)'
<1>1. pc \in {"boot", "mbr", "bpb", "label"} /\ next = 0 /\ sec = 0
  <2>1. pc \in {"boot", "mbr", "bpb", "label"}
    BY DEF Mount, BootSd, ReadMbr, ReadPartition, ReadLabel
  <2> QED BY <2>1 DEF VolInv, MakeInv
<1>2. CASE BootSd
  <2>1. pc' \in {"boot", "mbr", "halted"} /\ disk' = disk /\ ignoreCrc' = ignoreCrc /\ next' = 0 /\ sec' = 0
    BY <1>1, <1>2 DEF BootSd, sdVars
  <2>2. CardInv(D, F)'
    BY <2>1, CardQuiet DEF VolInv, CardInv
  <2>3. MountInv' /\ FolderInv(D, F)'
    BY <2>1 DEF MountInv, FolderInv, Mounted
  <2>4. MakeInv(D, F)'
    BY <2>1, NotMaking
  <2> QED BY <2>2, <2>3, <2>4 DEF VolInv
<1>4. CASE ReadMbr
  <2>1. CardInv(D, F)' /\ disk' = disk
    BY <1>4, AnyRead DEF ReadMbr, Mounting, VolInv
  <2>2. pc' \in {"bpb", "halted"} /\ next' = 0 /\ sec' = 0
    BY <1>1, <1>4 DEF ReadMbr, Mounting, loopVars
  <2>3. pc' = "bpb" => sdbuf' = disk'[0]
    BY <1>4, GoodRead DEF ReadMbr, Mounting, VolInv, CardInv
  <2>4. MountInv' /\ FolderInv(D, F)'
    BY <2>2, <2>3 DEF MountInv, FolderInv, Mounted
  <2>5. MakeInv(D, F)'
    BY <2>2, NotMaking
  <2> QED BY <2>1, <2>4, <2>5 DEF VolInv
<1>5. CASE ReadPartition
  <2>1. CardInv(D, F)' /\ disk' = disk
    BY <1>5, AnyRead DEF ReadPartition, Mounting, VolInv
  <2>2. pc' \in {"label", "halted"} /\ next' = 0 /\ sec' = 0
    BY <1>1, <1>5 DEF ReadPartition, Mounting, loopVars
  <2>3. CASE pc' = "label"
    <3>1. sdbuf = disk[0] /\ pc = "bpb"
      BY <1>5 DEF ReadPartition, VolInv, MountInv
    <3>2. /\ ReadSector(sdbuf.lba) /\ part' = Layout(sdbuf.lba, sdbuf')
          /\ cur' = [name |-> Name("", ""), cluster |-> part'.root] /\ path' = <<cur'>>
      BY <1>5, <2>3 DEF ReadPartition, Mounting
    <3>3. sdbuf' = disk[disk[0].lba]
      BY <3>1, <3>2, GoodRead DEF VolInv, CardInv
    <3>4. part' = LayoutOf(disk)
      BY <3>1, <3>2, <3>3 DEF LayoutOf
    <3>5. cur'.cluster = part'.root /\ Len(path') = 1 /\ path'[1].cluster = part'.root
      BY <3>2
    <3>6. part'.root \in D
      BY <3>4 DEF VolInv, CardInv, Consistent
    <3>7. MountInv'
      BY <2>1, <2>3, <3>4 DEF MountInv, Laid
    <3>8. FolderInv(D, F)'
      BY <2>3, <3>5, <3>6 DEF FolderInv
    <3>9. MakeInv(D, F)'
      BY <2>2, NotMaking
    <3> QED BY <2>1, <3>7, <3>8, <3>9 DEF VolInv
  <2>4. CASE pc' = "halted"
    <3>1. MountInv' /\ FolderInv(D, F)'
      BY <2>4 DEF MountInv, FolderInv, Mounted
    <3> QED BY <2>1, <2>4, <3>1, NotMaking DEF VolInv
  <2> QED BY <2>2, <2>3, <2>4
<1>6. CASE ReadLabel
  <2>1. CardInv(D, F)' /\ disk' = disk
    BY <1>6, AnyRead DEF ReadLabel, Mounting, VolInv
  <2>2. pc' \in {"prompt", "halted"} /\ next' = 0 /\ sec' = 0
    BY <1>1, <1>6 DEF ReadLabel, Mounting, loopVars
  <2>3. pc' = "prompt" => UNCHANGED <<cur, path>> /\ part' = [part EXCEPT !.label = Slots(sdbuf')[1].name]
    BY <1>6 DEF ReadLabel, Mounting
  <2>4. part \in PartSet /\ Laid(part, LayoutOf(disk)) /\ pc = "label"
    BY <1>6 DEF ReadLabel, TypeInv, PlaceType, VolInv, MountInv, Mounted
  <2>5. pc' = "prompt" => Laid(part', LayoutOf(disk'))
    BY <2>1, <2>3, <2>4 DEF Laid, PartSet
  <2>6. MountInv'
    BY <2>2, <2>5 DEF MountInv, Mounted
  <2>7. FolderInv(D, F)'
    BY <2>2, <2>3, <2>4 DEF VolInv, FolderInv, Mounted
  <2> QED BY <2>1, <2>2, <2>6, <2>7, NotMaking DEF VolInv
<1> QED BY <1>2, <1>4, <1>5, <1>6 DEF Mount
LEMMA VolShow ==
  ASSUME TypeInv, NEW D, NEW F, VolInv(D, F), TreeStep, NEW op, NEW v, NEW text, Show(op, v, text),
         part' = part, cur'.cluster \in D, \A i \in 1..Len(path') : path'[i].cluster \in D
  PROVE  VolInv(D, F)'
<1>1. /\ pc = "prompt" /\ pc' = "prompt" /\ disk' = disk /\ ignoreCrc' = ignoreCrc
      /\ next' = next /\ sec' = sec
  BY DEF Show, sdVars, loopVars
<1>2. CardInv(D, F)'
  BY <1>1, CardQuiet DEF VolInv, CardInv
<1>3. MountInv' /\ FolderInv(D, F)'
  BY <1>1 DEF VolInv, MountInv, FolderInv, Mounted
<1>4. MakeInv(D, F)'
  <2>1. next' = 0 /\ sec' = 0
    BY <1>1 DEF VolInv, MakeInv
  <2> QED BY <1>1, <2>1, NotMaking
<1> QED BY <1>2, <1>3, <1>4 DEF VolInv

LEMMA VolReadDir ==
  ASSUME TypeInv, NEW D, NEW F, VolInv(D, F), TreeStep, NEW op, NEW nm, ReadDir(op, nm)
  PROVE  VolInv(D, F)'
<1>1. /\ pc = "prompt" /\ pc' = "chain" /\ disk' = disk /\ ignoreCrc' = ignoreCrc /\ UNCHANGED <<part, cur, path>>
      /\ next' = cur.cluster /\ ll' = <<>> /\ files' = <<>>
  BY DEF ReadDir, Begin, StartChain, sdVars, dirVars
<1>2. CardInv(D, F)'
  BY <1>1, CardQuiet DEF VolInv, CardInv
<1>3. MountInv'
  BY <1>1 DEF VolInv, MountInv, Mounted
<1>4. cur.cluster \in D /\ \A i \in 1..Len(path) : path[i].cluster \in D
  BY <1>1 DEF VolInv, FolderInv, Mounted
<1>5. FolderInv(D, F)'
  BY <1>1, <1>4 DEF FolderInv
<1>6. MakeInv(D, F)'
  BY <1>1, NotMaking
<1> QED BY <1>2, <1>3, <1>5, <1>6 DEF VolInv

LEMMA VolCalls ==
  ASSUME TypeInv, NEW D, NEW F, VolInv(D, F), TreeStep, Call
  PROVE  VolInv(D, F)'
<1>0. pc = "prompt"
  BY DEF Call, ChdirRoot, ChdirUp, ListDir, ReadDir, Begin, Getcwd, PrintPartitionInfo, ChdirName, Mkdir, Touch,
         Open, LoadFile, Close, Read, Immediate, Show
<1>1. /\ path \in Seq(FolderSet) /\ path # <<>>
      /\ cur.cluster \in D /\ \A i \in 1..Len(path) : path[i].cluster \in D
  BY <1>0 DEF TypeInv, PlaceType, VolInv, FolderInv, Mounted
<1>2. next = 0 /\ sec = 0
  BY <1>0 DEF VolInv, MakeInv
<1>3. ASSUME NEW op, NEW v, NEW text, Show(op, v, text), UNCHANGED dirVars PROVE VolInv(D, F)'
  BY <1>1, <1>3, VolShow DEF dirVars
<1>4. CASE ListDir
  BY <1>4, VolReadDir DEF ListDir
<1>5. CASE Getcwd \/ PrintPartitionInfo
  BY <1>3, <1>5 DEF Getcwd, PrintPartitionInfo
<1>6. CASE ChdirRoot
  <2>1. cur' = path[1] /\ path' = <<path[1]>> /\ part' = part /\ Show("chdir", 0, <<>>)
    BY <1>6 DEF ChdirRoot, Immediate
  <2>2. path[1].cluster \in D
    BY <1>1
  <2>3. Len(path') = 1 /\ path'[1] = path[1]
    BY <2>1
  <2> QED BY <2>1, <2>2, <2>3, VolShow
<1>7. CASE ChdirUp
  <2>1. /\ part' = part /\ Show("chdir", 0, <<>>)
        /\ path' = IF Len(path) > 1 THEN Front(path) ELSE path
        /\ cur' = IF Len(path) > 1 THEN Last(Front(path)) ELSE cur
    BY <1>7 DEF ChdirUp, Immediate
  <2>2. CASE Len(path) > 1
    <3>1. /\ Len(Front(path)) = Len(path) - 1 /\ Len(path) \in Nat
          /\ \A i \in 1..Len(Front(path)) : Front(path)[i] = path[i]
      BY <1>1, <2>2 DEF Front
    <3>2. Last(Front(path)) = path[Len(path) - 1]
      BY <2>2, <3>1 DEF Last
    <3>3. \A i \in 1..(Len(path) - 1) : i \in 1..Len(path)
      BY <3>1
    <3>4. Len(path) - 1 \in 1..Len(path)
      BY <2>2, <3>1
    <3>5. cur'.cluster \in D /\ \A i \in 1..Len(path') : path'[i].cluster \in D
      BY <1>1, <2>1, <2>2, <3>1, <3>2, <3>3, <3>4
    <3> QED BY <2>1, <3>5, VolShow
  <2>3. CASE ~(Len(path) > 1)
    BY <1>1, <2>1, <2>3, VolShow
  <2> QED BY <2>2, <2>3
<1>8. ASSUME NEW arg, ChdirName(arg) \/ Open(arg) \/ LoadFile(arg) PROVE VolInv(D, F)'
  BY <1>3, <1>8, VolReadDir DEF ChdirName, Open, LoadFile, Immediate
<1>9. ASSUME NEW op \in {"mkdir", "touch"}, NEW nm, NEW at, Begin(op, nm, at),
             at = IF op = "mkdir" THEN "findfree" ELSE "slotread",
             UNCHANGED <<sdVars, loopVars>>, UNCHANGED <<dirVars, handles>>
      PROVE  VolInv(D, F)'
  <2>1. /\ pc' = at /\ job' = [NoJob EXCEPT !.op = op, !.name = nm] /\ disk' = disk /\ ignoreCrc' = ignoreCrc
        /\ next' = next /\ sec' = sec
    BY <1>9 DEF Begin, sdVars, loopVars
  <2>2. job'.op = op
    BY <2>1 DEF NoJob
  <2>3. CardInv(D, F)'
    BY <2>1, CardQuiet DEF VolInv, CardInv
  <2>4. MountInv' /\ FolderInv(D, F)'
    BY <1>0, <1>9, <2>1 DEF VolInv, MountInv, FolderInv, Mounted, dirVars
  <2>5. MakeInv(D, F)'
    BY <1>2, <1>9, <2>1, <2>2 DEF MakeInv, FatStage, ClearStage, LinkStage, Making, Linking
  <2> QED BY <2>3, <2>4, <2>5 DEF VolInv
<1>10. ASSUME NEW arg, Mkdir(arg) \/ Touch(arg) PROVE VolInv(D, F)'
  <2>1. CASE Mkdir(arg)
    BY <1>3, <1>9, <2>1 DEF Mkdir, Immediate
  <2>2. CASE Touch(arg)
    BY <1>3, <1>9, <2>2 DEF Touch, Immediate
  <2> QED BY <1>10, <2>1, <2>2
<1>11. ASSUME NEW fd, Close(fd) PROVE VolInv(D, F)'
  BY <1>3, <1>11 DEF Close, Immediate
<1>12. ASSUME NEW fd, NEW len, Read(fd, len) PROVE VolInv(D, F)'
  <2>1. CASE Immediate("read", 0) /\ UNCHANGED dirVars
    BY <1>3, <2>1 DEF Immediate
  <2>2. CASE pc' = "reading" /\ UNCHANGED <<sdVars, loopVars, dirVars>>
    <3>1. CardInv(D, F)'
      BY <2>2, CardQuiet DEF VolInv, CardInv, sdVars
    <3>2. MountInv' /\ FolderInv(D, F)'
      BY <1>0, <2>2 DEF VolInv, MountInv, FolderInv, Mounted, dirVars, sdVars
    <3> QED BY <2>2, <3>1, <3>2, NotMaking DEF VolInv
  <2> QED BY <1>12, <2>1, <2>2 DEF Read
<1> QED
  BY <1>4, <1>5, <1>6, <1>7, <1>8, <1>10, <1>11, <1>12 DEF Call

LEMMA VolChain ==
  ASSUME NoYes, TypeInv, NEW D, NEW F, VolInv(D, F), TreeStep, FollowChain \/ DirChainDone \/ ScanSector
  PROVE  VolInv(D, F)'
<1>0. pc \in {"chain", "scan"} /\ Mounted /\ UNCHANGED dirVars
  BY DEF FollowChain, DirChainDone, ScanSector, Mounted
<1>1. /\ Laid(part, LayoutOf(disk)) /\ cur.cluster \in D /\ \A i \in 1..Len(path) : path[i].cluster \in D
      /\ ll \in Seq(Nat) /\ files \in Seq(SlotSet) /\ CardSet(disk) /\ WellLaid(disk)
      /\ Consistent(disk, D, F) /\ ChainClosed(disk, D) /\ ignoreCrc = FALSE
  BY <1>0 DEF VolInv, MountInv, FolderInv, CardInv, TypeInv, CardType, LoopType, CardSet, Consistent
<1>2. CardInv(D, F)' /\ disk' = disk
  <2>1. CASE DirChainDone
    BY <2>1, CardQuiet DEF DirChainDone, sdVars, VolInv, CardInv
  <2>2. CASE FollowChain \/ ScanSector
    BY <2>2, AnyRead DEF FollowChain, ScanSector, VolInv
  <2> QED BY <2>1, <2>2
<1>3. ASSUME NEW v, Return(v) PROVE VolInv(D, F)'
  BY <1>0, <1>2, <1>3, Over
<1>4. ASSUME pc' \in {"chain", "scan", "search"} PROVE MountInv' /\ MakeInv(D, F)'
  BY <1>0, <1>1, <1>2, <1>4, NotMaking DEF MountInv, dirVars
<1>5. CASE FollowChain
  <2>1. CASE ReadRefused(FatLba(part, next)) /\ ChainRefused
    BY <1>3, <2>1 DEF ChainRefused
  <2>2. CASE /\ ReadSector(FatLba(part, next))
             /\ ll' = Append(ll, next) /\ next' = FatItem(sdbuf', next % EPF)
             /\ UNCHANGED <<handles, pc, job, ctr, sec, files, ret>>
    <3>1. pc = "chain" /\ pc' = "chain" /\ InChain(next) /\ job' = job /\ files' = files
      BY <1>5, <2>2 DEF FollowChain, ChainGoesOn
    <3>2. ASSUME ~IsFileChain PROVE (InChain(next') => next' \in D) /\ \A i \in 1..Len(ll') : ll'[i] \in D
      <4>1. next \in D /\ \A i \in 1..Len(ll) : ll[i] \in D
        BY <3>1, <3>2 DEF VolInv, FolderInv
      <4>2. FatLba(part, next) \in DOMAIN disk /\ sdbuf' = disk[FatLba(part, next)]
        BY <1>1, <2>2, GoodRead
      <4>3. FatLba(part, next) = FatLba(LayoutOf(disk), next)
        BY <1>1 DEF Laid, FatLba
      <4>4. next' = FatEntry(disk, next)
        BY <1>1, <2>2, <4>1, <4>2, <4>3 DEF ChainClosed, RawEntry, Fetch
      <4>5. InChain(next') => next' \in D
        BY <1>1, <4>1, <4>4 DEF ChainClosed
      <4>6. Len(ll') = Len(ll) + 1 /\ \A i \in 1..Len(ll') : ll'[i] = IF i <= Len(ll) THEN ll[i] ELSE next
        BY <1>1, <2>2
      <4>7. \A i \in 1..Len(ll') : i <= Len(ll) => i \in 1..Len(ll)
        BY <1>1, <4>6
      <4> QED BY <4>1, <4>5, <4>6, <4>7
    <3>3. FolderInv(D, F)'
      BY <1>0, <1>1, <3>1, <3>2 DEF VolInv, FolderInv, IsFileChain, dirVars
    <3> QED BY <1>2, <1>4, <3>1, <3>3 DEF VolInv
  <2> QED BY <1>5, <2>1, <2>2 DEF FollowChain
<1>6. CASE DirChainDone
  <2>1. pc = "chain" /\ ~IsFileChain /\ pc' \in {"search", "scan"} /\ UNCHANGED <<ll, files>>
    BY <1>6 DEF DirChainDone
  <2>2. FolderInv(D, F)'
    BY <1>0, <1>1, <2>1 DEF VolInv, FolderInv, dirVars
  <2> QED BY <1>2, <1>4, <2>1, <2>2 DEF VolInv
<1>7. CASE ScanSector
  <2> DEFINE lba == DataLba(part, ll[ctr], sec)
             found == EntriesIn(Slots(sdbuf'))
  <2>1. CASE \E v : Return(v)
    BY <1>3, <2>1
  <2>2. CASE /\ ReadSector(lba) /\ files' = files \o found
             /\ pc' \in {"scan", "search"} /\ UNCHANGED ll
    <3>1. pc = "scan" /\ ctr \in 1..Len(ll) /\ sec \in 0..(part.spc - 1)
      BY <1>7 DEF ScanSector, TypeInv, LoopType
    <3>2. (\A i \in 1..Len(ll) : ll[i] \in D) /\ \A i \in 1..Len(files) : LeadsTo(files[i], D, F)
      BY <3>1 DEF VolInv, FolderInv
    <3>3. ll[ctr] \in D /\ sec \in 0..(LayoutOf(disk).spc - 1)
      BY <1>1, <3>1, <3>2 DEF Laid
    <3>4. lba = DataLba(LayoutOf(disk), ll[ctr], sec)
      BY <1>1 DEF Laid, DataLba
    <3>5. lba \in DOMAIN disk /\ sdbuf' = disk[lba]
      BY <1>1, <2>2, GoodRead
    <3> HIDE DEF lba
    <3>6. sdbuf' = Fetch(disk, lba) /\ Slots(sdbuf') \in SlotSeq
      BY <1>1, <3>5, SlotsType DEF Fetch, CardSet
    <3>7. \A i \in 1..SLOTS : LeadsTo(Slots(sdbuf')[i], D, F)
      <4>1. ASSUME NEW i \in 1..SLOTS PROVE Slots(sdbuf')[i] \in FolderSlots(disk, D)
        <5>1. Slots(sdbuf')[i] = SlotAt(disk, ll[ctr], sec, i)
          BY <3>4, <3>6 DEF SlotAt
        <5> QED BY <3>3, <5>1, InFolderSlots
      <4> QED BY <1>1, <4>1 DEF Consistent
    <3>8. found \in Seq(SlotSet) /\ \A k \in 1..Len(found) : LeadsTo(found[k], D, F)
      <4>1. /\ found \in Seq(SlotSet)
            /\ \A k \in 1..Len(found) : \E i \in 1..SLOTS : found[k] = Slots(sdbuf')[i]
        BY <3>6, EntriesType
      <4> HIDE DEF found
      <4> QED BY <3>7, <4>1
    <3> HIDE DEF found
    <3>9. \A i \in 1..Len(files') : LeadsTo(files'[i], D, F)
      <4>1. /\ Len(files') = Len(files) + Len(found)
            /\ \A i \in 1..Len(files') : files'[i] = IF i <= Len(files) THEN files[i] ELSE found[i - Len(files)]
        BY <1>1, <2>2, <3>8
      <4>2. Len(files) \in Nat /\ Len(found) \in Nat
        BY <1>1, <3>8
      <4>3. \A i \in 1..Len(files') : IF i <= Len(files) THEN i \in 1..Len(files) ELSE i - Len(files) \in 1..Len(found)
        BY <4>1, <4>2
      <4> QED BY <3>2, <3>8, <4>1, <4>3
    <3>10. FolderInv(D, F)'
      BY <1>0, <1>1, <2>2, <3>2, <3>9 DEF FolderInv, dirVars
    <3> QED BY <1>2, <1>4, <2>2, <3>10 DEF VolInv
  <2>3. \/ \E v : Return(v)
        \/ ReadSector(lba) /\ files' = files \o found /\ pc' \in {"scan", "search"} /\ UNCHANGED ll
    <3>1. pc = "scan"
      BY <1>7 DEF ScanSector
    <3> HIDE DEF lba, found
    <3> QED BY <1>7, <3>1 DEF ScanSector, lba, found
  <2> QED BY <2>1, <2>2, <2>3
<1> QED BY <1>5, <1>6, <1>7
LEMMA VolSearch ==
  ASSUME TypeInv, NEW D, NEW F, VolInv(D, F), TreeStep,
         FinishChdir \/ ListStep \/ FinishOpenSearch \/ FinishLoadSearch
  PROVE  VolInv(D, F)'
<1>0. /\ pc \in {"search", "paging"} /\ Mounted
      /\ disk' = disk /\ ignoreCrc' = ignoreCrc /\ part' = part
  BY ListingSteps DEF FinishChdir, FinishOpenSearch, FinishLoadSearch, Mounted, sdVars, dirVars
<1>1. /\ Laid(part, LayoutOf(disk)) /\ cur.cluster \in D /\ \A i \in 1..Len(path) : path[i].cluster \in D
      /\ pc = "search" => \A i \in 1..Len(files) : LeadsTo(files[i], D, F)
      /\ path \in Seq(FolderSet) /\ path # <<>>
  BY <1>0 DEF VolInv, MountInv, FolderInv, TypeInv, PlaceType
<1>2. CardInv(D, F)'
  BY <1>0, CardQuiet DEF VolInv, CardInv
<1>3. ASSUME NEW v, Return(v), UNCHANGED dirVars PROVE VolInv(D, F)'
  BY <1>0, <1>2, <1>3, Over
<1>4. ASSUME NEW c, StartChain(c), pc' = "chain", UNCHANGED dirVars, IsFileChain' PROVE VolInv(D, F)'
  <2>1. files' = <<>>
    BY <1>4 DEF StartChain
  <2>2. FolderInv(D, F)' /\ MountInv'
    BY <1>0, <1>1, <1>4, <2>1 DEF FolderInv, MountInv, dirVars
  <2> QED BY <1>2, <1>4, <2>2, NotMaking DEF VolInv
<1>5. CASE ListStep
  <2>1. UNCHANGED dirVars
    BY <1>5, ListingSteps
  <2>2. CASE pc' = "paging"
    <3>1. MountInv' /\ FolderInv(D, F)'
      BY <1>0, <1>1, <2>1, <2>2 DEF MountInv, FolderInv, dirVars
    <3> QED BY <1>2, <2>2, <3>1, NotMaking DEF VolInv
  <2> QED BY <1>3, <1>5, <2>1, <2>2, ListingSteps
<1>6. CASE FinishChdir
  <2> DEFINE at == SearchDir("dir")
             folder == [name |-> files[at].name, cluster |-> files[at].cluster]
  <2>1. pc = "search" /\ \E v : Return(v)
    BY <1>6 DEF FinishChdir
  <2>2. pc' = "prompt" /\ next' = 0 /\ sec' = 0
    BY <2>1 DEF Return
  <2>3. at # 0 /\ files[at].cluster # 0 => folder.cluster \in D
    <3>1. at # 0 => at \in 1..Len(files) /\ files[at].t = "dir"
      BY SearchType DEF TypeInv
    <3> HIDE DEF at
    <3>2. at # 0 => LeadsTo(files[at], D, F)
      BY <1>1, <2>1, <3>1
    <3> QED BY <3>1, <3>2 DEF LeadsTo, IsEntry
  <2>4. cur'.cluster \in D /\ \A i \in 1..Len(path') : path'[i].cluster \in D
    <3>1. CASE UNCHANGED <<cur, path>>
      BY <1>1, <3>1
    <3>2. CASE cur' = path[1] /\ path' = <<path[1]>>
      <4>1. path[1].cluster \in D
        BY <1>1
      <4>2. Len(path') = 1 /\ path'[1] = path[1]
        BY <3>2
      <4> QED BY <3>2, <4>1, <4>2
    <3>3. CASE at # 0 /\ files[at].cluster # 0 /\ cur' = folder /\ (path' = path \/ path' = Append(path, cur'))
      <4>1. cur'.cluster \in D
        BY <2>3, <3>3
      <4>2. CASE path' = path
        BY <1>1, <4>1, <4>2
      <4>3. CASE path' = Append(path, cur')
        <5>1. /\ Len(path') = Len(path) + 1 /\ Len(path) \in Nat
              /\ \A i \in 1..Len(path') : path'[i] = IF i <= Len(path) THEN path[i] ELSE cur'
          BY <1>1, <4>3
        <5>2. \A i \in 1..Len(path') : i <= Len(path) => i \in 1..Len(path)
          BY <5>1
        <5> QED BY <1>1, <4>1, <5>1, <5>2
      <4> QED BY <3>3, <4>2, <4>3
    <3>4. \/ UNCHANGED <<cur, path>>
          \/ cur' = path[1] /\ path' = <<path[1]>>
          \/ at # 0 /\ files[at].cluster # 0 /\ cur' = folder /\ (path' = path \/ path' = Append(path, cur'))
      BY <1>6 DEF FinishChdir, PathWith
    <3> QED BY <3>1, <3>2, <3>3, <3>4
  <2>5. FolderInv(D, F)' /\ MountInv'
    BY <1>0, <1>1, <2>2, <2>4 DEF FolderInv, MountInv
  <2> QED BY <1>2, <2>2, <2>5, NotMaking DEF VolInv
<1>7. CASE FinishOpenSearch
  <2>1. CASE Return(-1)
    BY <1>3, <1>7, <2>1 DEF FinishOpenSearch
  <2>2. CASE /\ FreeFds # {} /\ job' = [job EXCEPT !.fd = FirstOf(FreeFds)]
             /\ StartChain(files[SearchDir("file")].cluster) /\ pc' = "chain"
    <3>1. FirstOf(FreeFds) \in Nat
      <4>1. FreeFds \in SUBSET Nat
        BY DEF FreeFds, Fds
      <4> QED BY <2>2, <4>1, FirstOfIn
    <3>2. job' = [op |-> job.op, name |-> job.name, fd |-> FirstOf(FreeFds), want |-> job.want]
      BY <2>2 DEF TypeInv, JobType
    <3>3. IsFileChain'
      BY <3>1, <3>2 DEF IsFileChain
    <3> QED BY <1>4, <1>7, <2>2, <3>3 DEF FinishOpenSearch
  <2> QED BY <1>7, <2>1, <2>2 DEF FinishOpenSearch
<1>8. CASE FinishLoadSearch
  <2> DEFINE at == SearchDir("file")
  <2>1. CASE Return(ERR)
    BY <1>3, <1>8, <2>1 DEF FinishLoadSearch
  <2>2. CASE /\ Loadable(at) /\ job' = [job EXCEPT !.want = files[at].size + 1]
             /\ StartChain(files[at].cluster) /\ pc' = "chain"
    <3>1. files[at].size \in Nat
      <4>1. files[at] \in SlotSet
        BY <2>2, SearchType DEF TypeInv, Loadable
      <4> QED BY <4>1 DEF SlotSet
    <3>2. IsFileChain'
      <4> DEFINE n == files[at].size + 1
      <4>1. n \in Nat /\ n > 0 /\ job' = [job EXCEPT !.want = n]
        BY <2>2, <3>1
      <4> HIDE DEF n
      <4>2. job' = [op |-> job.op, name |-> job.name, fd |-> job.fd, want |-> n]
        BY <4>1 DEF TypeInv, JobType
      <4> QED BY <4>1, <4>2 DEF IsFileChain
    <3> QED BY <1>4, <1>8, <2>2, <3>2 DEF FinishLoadSearch
  <2> QED BY <1>8, <2>1, <2>2 DEF FinishLoadSearch
<1> QED BY <1>5, <1>6, <1>7, <1>8

LEMMA VolFile ==
  ASSUME NoYes, TypeInv, NEW D, NEW F, VolInv(D, F), TreeStep,
         OpenChainDone \/ ReadStep \/ LoadChainDone \/ LoadStep
  PROVE  VolInv(D, F)'
<1>0. pc \in {"chain", "reading", "loading"} /\ Mounted /\ UNCHANGED dirVars
  BY DEF OpenChainDone, ReadStep, LoadChainDone, LoadStep, Mounted
<1>1. CardInv(D, F)' /\ disk' = disk
  <2>1. CASE UNCHANGED sdVars
    BY <2>1, CardQuiet DEF sdVars, VolInv, CardInv
  <2>2. CASE \E lba : ReadSector(lba) \/ ReadRefused(lba)
    BY <2>2, AnyRead DEF VolInv
  <2>3. UNCHANGED sdVars \/ \E lba : ReadSector(lba) \/ ReadRefused(lba)
    <3>1. CASE OpenChainDone \/ LoadChainDone
      BY <3>1 DEF OpenChainDone, LoadChainDone
    <3>2. CASE ReadStep
      BY <3>2 DEF ReadStep
    <3>3. CASE LoadStep
      BY <3>3 DEF LoadStep
    <3> QED BY <3>1, <3>2, <3>3
  <2> QED BY <2>1, <2>2, <2>3
<1>2. (\E v : Return(v)) \/ pc' \in {"reading", "loading"}
  <2>1. CASE OpenChainDone
    BY <2>1 DEF OpenChainDone
  <2>2. CASE LoadChainDone
    BY <2>2 DEF LoadChainDone
  <2>3. CASE ReadStep
    <3>1. pc = "reading"
      BY <2>3 DEF ReadStep
    <3> QED BY <2>3, <3>1 DEF ReadStep
  <2>4. CASE LoadStep
    <3>1. pc = "loading"
      BY <2>4 DEF LoadStep
    <3> QED BY <2>4, <3>1 DEF LoadStep
  <2> QED BY <2>1, <2>2, <2>3, <2>4
<1>3. CASE \E v : Return(v)
  BY <1>0, <1>1, <1>3, Over
<1>4. CASE pc' \in {"reading", "loading"}
  <2>1. MountInv' /\ FolderInv(D, F)'
    BY <1>0, <1>1, <1>4 DEF VolInv, MountInv, FolderInv, dirVars, Mounted
  <2> QED BY <1>1, <1>4, <2>1, NotMaking DEF VolInv
<1> QED BY <1>2, <1>3, <1>4
(* Steps of mkdir and touch.                                                  *)
LEMMA CardWritten ==
  ASSUME NEW D, NEW F, CardInv(D, F), TreeStep, ignoreCrc' = ignoreCrc, Harmless(disk, disk', D, F),
         NEW D2, Consistent(disk', D2, F), SecondFollows(disk')
  PROVE  CardInv(D2, F)' /\ LayoutOf(disk') = LayoutOf(disk)
BY DEF CardInv, TreeStep, Harmless

LEMMA MakeGoesOn ==
  ASSUME NEW D, NEW F, VolInv(D, F), Mounted, LayoutOf(disk') = LayoutOf(disk), UNCHANGED dirVars,
         pc' \in {"findfree", "fatread", "fatwrite", "mirror", "clear", "slotread", "slotwrite"}
  PROVE  MountInv' /\ FolderInv(D, F)'
BY DEF VolInv, MountInv, FolderInv, Mounted, dirVars

LEMMA MakePlaces ==
  ASSUME TypeInv, NEW D, NEW F, VolInv(D, F), Mounted
  PROVE  /\ CardSet(disk) /\ WellLaid(disk) /\ SecondFollows(disk) /\ Consistent(disk, D, F)
         /\ ignoreCrc = FALSE /\ cur.cluster \in D
         /\ part.spc = LayoutOf(disk).spc /\ part.fatBegin = LayoutOf(disk).fatBegin
         /\ \A c, s : DataLba(part, c, s) = DataLba(LayoutOf(disk), c, s)
         /\ FolderLba = DataLba(LayoutOf(disk), cur.cluster, 0)
         /\ Making => /\ next \in Clusters(disk) /\ next \in Nat /\ next % EPF = next /\ next \div EPF = 0
                      /\ FatLba(part, next) = LayoutOf(disk).fatBegin
                      /\ MirrorLba(next) = LayoutOf(disk).fat2Begin
<1>1. /\ CardSet(disk) /\ WellLaid(disk) /\ SecondFollows(disk) /\ Consistent(disk, D, F)
      /\ ignoreCrc = FALSE /\ cur.cluster \in D /\ Laid(part, LayoutOf(disk))
  BY DEF TypeInv, CardType, CardSet, VolInv, CardInv, MountInv, FolderInv
<1>2. /\ part.spc = LayoutOf(disk).spc /\ part.fatBegin = LayoutOf(disk).fatBegin
      /\ part.fat2Begin = LayoutOf(disk).fat2Begin
      /\ \A c, s : DataLba(part, c, s) = DataLba(LayoutOf(disk), c, s)
  BY <1>1 DEF Laid, DataLba
<1>3. LayoutOf(disk).fatBegin \in Nat /\ LayoutOf(disk).fat2Begin \in Nat
  <2>1. LayoutOf(disk).fat2Begin = LayoutOf(disk).fatBegin + LayoutOf(disk).spf
        /\ LayoutOf(disk).fatBegin \in Nat /\ LayoutOf(disk).spf \in Nat
    BY <1>1, Places
  <2> QED BY <2>1
<1>4. ASSUME Making
      PROVE  /\ next \in Clusters(disk) /\ next \in Nat /\ next % EPF = next /\ next \div EPF = 0
             /\ FatLba(part, next) = LayoutOf(disk).fatBegin
             /\ MirrorLba(next) = LayoutOf(disk).fat2Begin
  <2>1. next \in Clusters(disk) /\ next < EPF /\ next \in Nat
    BY <1>4 DEF VolInv, MakeInv, TypeInv, LoopType
  <2>2. next % EPF = next /\ next \div EPF = 0
    BY <2>1, DiskAssumption
  <2>3. FatLba(part, next) = LayoutOf(disk).fatBegin
    BY <1>2, <1>3, <2>2 DEF FatLba
  <2>4. MirrorLba(next) = LayoutOf(disk).fat2Begin
    BY <1>2, <1>3, <2>3 DEF MirrorLba
  <2> QED BY <2>1, <2>2, <2>3, <2>4
<1> QED BY <1>1, <1>2, <1>4 DEF FolderLba

(* The cluster mkdir takes is free.                                           *)
LEMMA VolFindFree ==
  ASSUME NoYes, TypeInv, NEW D, NEW F, VolInv(D, F), TreeStep, FindFreeCluster
  PROVE  VolInv(D, F)' /\ disk' = disk
<1>0. pc = "findfree" /\ Mounted /\ UNCHANGED dirVars
  BY DEF FindFreeCluster, Mounted
<1>1. CardInv(D, F)' /\ disk' = disk
  BY AnyRead DEF FindFreeCluster, VolInv
<1>2. CASE Return(ERR)
  BY <1>0, <1>1, <1>2, Over
<1>3. CASE /\ ReadSector(part.fatBegin) /\ FreeClusters(sdbuf') # {}
           /\ next' = FirstOf(FreeClusters(sdbuf')) /\ pc' = "fatread"
           /\ UNCHANGED <<job, ll, ctr, sec, files, ret>>
  <2>1. /\ CardSet(disk) /\ WellLaid(disk) /\ Consistent(disk, D, F) /\ ignoreCrc = FALSE
        /\ part.fatBegin = LayoutOf(disk).fatBegin
    BY <1>0, MakePlaces
  <2>2. sdbuf' = Fetch(disk, LayoutOf(disk).fatBegin)
    BY <1>3, <2>1, GoodRead DEF Fetch
  <2>3. next' \in FreeClusters(sdbuf')
    <3>1. FreeClusters(sdbuf') \in SUBSET Nat
      BY DiskAssumption, FatAssumption DEF FreeClusters
    <3> QED BY <1>3, <3>1, FirstOfIn
  <2>4. next' \in FIRST_FREE..(EPF - 1) /\ Unreserved(FatItem(sdbuf', next')) = 0
    BY <2>3 DEF FreeClusters
  <2>5. next' \in Nat /\ next' >= 2 /\ next' < EPF
    BY <2>4, DiskAssumption, FatAssumption
  <2>6. next' \in Clusters(disk)
    <3>1. LayoutOf(disk).spf \in Nat \ {0}
      BY <2>1, Places
    <3>2. \A f \in Nat \ {0} : EPF * f \in Nat /\ EPF * f >= EPF
      BY DiskAssumption
    <3>3. EPF * LayoutOf(disk).spf \in Nat /\ EPF * LayoutOf(disk).spf >= EPF
      BY <3>1, <3>2
    <3>4. next' \in 2..(EPF * LayoutOf(disk).spf - 1)
      BY <2>5, <3>3, DiskAssumption
    <3> QED BY <3>4 DEF Clusters
  <2>7. FatEntry(disk, next') = 0
    <3>1. next' % EPF = next' /\ next' \div EPF = 0
      <4>1. \A n \in Nat : n < EPF => n % EPF = n /\ n \div EPF = 0
        BY DiskAssumption
      <4> QED BY <2>5, <4>1
    <3>2. FatLba(LayoutOf(disk), next') = LayoutOf(disk).fatBegin
      <4>1. LayoutOf(disk).fatBegin \in Nat
        BY <2>1, Places
      <4> QED BY <3>1, <4>1 DEF FatLba
    <3> QED BY <2>2, <2>4, <3>1, <3>2 DEF FatEntry, RawEntry
  <2>8. next' \notin D \cup F
    BY <2>1, <2>7, InClusters
  <2>9. job'.op = "mkdir" /\ sec' = 0
    BY <1>0, <1>3 DEF VolInv, MakeInv
  <2>10. Clusters(disk') = Clusters(disk) /\ FatEntry(disk', next') = 0
    BY <1>1, <2>7
  <2>11. MakeInv(D, F)'
    BY <1>3, <2>5, <2>6, <2>8, <2>9, <2>10 DEF MakeInv, FatStage, ClearStage, LinkStage, Making, Linking
  <2>12. MountInv' /\ FolderInv(D, F)'
    BY <1>0, <1>1, <1>3, MakeGoesOn
  <2> QED BY <1>1, <2>11, <2>12 DEF VolInv
<1> QED BY <1>1, <1>2, <1>3 DEF FindFreeCluster

LEMMA VolReadFat ==
  ASSUME NoYes, TypeInv, NEW D, NEW F, VolInv(D, F), TreeStep, ReadFatSector
  PROVE  VolInv(D, F)' /\ disk' = disk
<1>0. pc = "fatread" /\ Mounted /\ UNCHANGED dirVars /\ Making
  BY DEF ReadFatSector, Mounted, Making
<1>1. CardInv(D, F)' /\ disk' = disk
  BY AnyRead DEF ReadFatSector, VolInv
<1>2. CASE Return(ERR)
  BY <1>0, <1>1, <1>2, Over
<1>3. CASE ReadSector(FatLba(part, next)) /\ pc' = "fatwrite" /\ UNCHANGED <<job, loopVars, ret>>
  <2>1. ignoreCrc = FALSE /\ FatLba(part, next) = LayoutOf(disk).fatBegin
    BY <1>0, MakePlaces
  <2>2. LayoutOf(disk).fatBegin \in DOMAIN disk /\ sdbuf' = disk[LayoutOf(disk).fatBegin]
    BY <1>3, <2>1, GoodRead
  <2>3. next' = next /\ sec' = sec /\ job' = job
    BY <1>3 DEF loopVars
  <2>4. /\ job.op = "mkdir" /\ sec = 0 /\ next \in Clusters(disk) /\ next < EPF /\ next \notin D \cup F
        /\ FatEntry(disk, next) = 0
    BY <1>0 DEF VolInv, MakeInv, FatStage
  <2>5. MakeInv(D, F)'
    BY <1>1, <1>3, <2>2, <2>3, <2>4 DEF MakeInv, FatStage, ClearStage, LinkStage, Making, Linking
  <2>6. MountInv' /\ FolderInv(D, F)'
    BY <1>0, <1>1, <1>3, MakeGoesOn
  <2> QED BY <1>1, <2>5, <2>6 DEF VolInv
<1> QED BY <1>1, <1>2, <1>3 DEF ReadFatSector

(* Its FAT entry is written ...                                               *)
LEMMA WriteOutcome ==
  ASSUME NEW lba, NEW content, WriteSector(lba, content) \/ FailOnWrite(lba, content)
  PROVE  /\ disk' = disk \/ disk' = Written(disk, lba, content)
         /\ sdbuf' = content /\ ignoreCrc' = ignoreCrc
         /\ WriteSector(lba, content) => disk' = Written(disk, lba, content)
BY DEF WriteSector, FailOnWrite, WriteFailed, Written

LEMMA VolWriteFat ==
  ASSUME TypeInv, NEW D, NEW F, VolInv(D, F), TreeStep, WriteFatSector
  PROVE  VolInv(D, F)' /\ (disk' = disk \/ Unmoved(disk, disk', D, F))
<1> DEFINE lba == LayoutOf(disk).fatBegin
           content == WithItem(sdbuf, next, EOC)
<1>0. pc = "fatwrite" /\ Mounted /\ UNCHANGED dirVars /\ Making
  BY DEF WriteFatSector, Mounted, Making
<1>1. /\ CardSet(disk) /\ WellLaid(disk) /\ SecondFollows(disk) /\ Consistent(disk, D, F)
      /\ FatLba(part, next) = lba /\ next \in Clusters(disk)
  BY <1>0, MakePlaces
<1>2. /\ job.op = "mkdir" /\ sec = 0 /\ next < EPF /\ next \notin D \cup F
      /\ FatEntry(disk, next) = 0 /\ lba \in DOMAIN disk /\ sdbuf = disk[lba]
  BY <1>0 DEF VolInv, MakeInv, FatStage
<1>3. ASSUME disk' = Written(disk, lba, content)
      PROVE  /\ Unmoved(disk, disk', D, F) /\ Consistent(disk', D, F) /\ SecondFollows(disk')
             /\ TakenEntry(disk', next) /\ disk'[lba] = content /\ lba \in DOMAIN disk'
  <2>1. disk' = Written(disk, lba, WithItem(disk[lba], next, EOC))
    BY <1>2, <1>3
  <2>2. disk'[lba] = content /\ lba \in DOMAIN disk'
    <3> HIDE DEF content, lba
    <3> QED BY <1>2, <1>3 DEF Written
  <2> QED BY <1>1, <1>2, <2>1, <2>2, TakeFat
<1>4. /\ disk' = disk \/ disk' = Written(disk, lba, content)
      /\ sdbuf' = content /\ ignoreCrc' = ignoreCrc
      /\ \/ pc' = "mirror" /\ UNCHANGED <<job, loopVars>> /\ disk' = Written(disk, lba, content)
         \/ Return(ERR)
  <2>1. /\ WriteSector(lba, content) \/ FailOnWrite(lba, content)
        /\ FailOnWrite(lba, content) => Return(ERR)
        /\ \/ WriteSector(lba, content) /\ pc' = "mirror" /\ UNCHANGED <<job, loopVars>>
           \/ FailOnWrite(lba, content)
    BY <1>1 DEF WriteFatSector, FailOnWrite
  <2> HIDE DEF lba, content
  <2> QED BY <2>1, WriteOutcome
<1>5. CardInv(D, F)' /\ LayoutOf(disk') = LayoutOf(disk) /\ (disk' = disk \/ Unmoved(disk, disk', D, F))
  <2> HIDE DEF lba, content
  <2>1. CASE disk' = disk
    BY <1>4, <2>1, CardQuiet DEF VolInv, CardInv
  <2>2. CASE disk' = Written(disk, lba, content)
    BY <1>3, <1>4, <2>2, CardWritten DEF VolInv, Unmoved
  <2> QED BY <1>4, <2>1, <2>2
<1>6. CASE Return(ERR)
  BY <1>0, <1>5, <1>6, Over
<1>7. CASE pc' = "mirror" /\ UNCHANGED <<job, loopVars>> /\ disk' = Written(disk, lba, content)
  <2>1. next' = next /\ sec' = sec /\ job' = job
    BY <1>7 DEF loopVars
  <2>2. LayoutOf(disk') = LayoutOf(disk) /\ Clusters(disk') = Clusters(disk)
    BY <1>5 DEF Clusters
  <2>3. TakenEntry(disk', next') /\ sdbuf' = disk'[lba] /\ lba \in DOMAIN disk'
    <3> HIDE DEF content, lba
    <3> QED BY <1>3, <1>4, <1>7, <2>1
  <2>4. MakeInv(D, F)'
    BY <1>1, <1>2, <1>7, <2>1, <2>2, <2>3 DEF MakeInv, FatStage, ClearStage, LinkStage, Making, Linking
  <2>5. MountInv' /\ FolderInv(D, F)'
    BY <1>0, <1>5, <1>7, MakeGoesOn
  <2> QED BY <1>5, <2>4, <2>5 DEF VolInv
<1> QED BY <1>4, <1>5, <1>6, <1>7
(* ... and the sector of it copied to the second FAT ...                      *)
LEMMA VolMirror ==
  ASSUME TypeInv, NEW D, NEW F, VolInv(D, F), TreeStep, MirrorFatSector
  PROVE  VolInv(D, F)' /\ (disk' = disk \/ Unmoved(disk, disk', D, F))
<1> DEFINE lba == LayoutOf(disk).fat2Begin
           first == LayoutOf(disk).fatBegin
<1>0. pc = "mirror" /\ Mounted /\ UNCHANGED dirVars /\ Making
  BY DEF MirrorFatSector, Mounted, Making
<1>1. /\ CardSet(disk) /\ WellLaid(disk) /\ SecondFollows(disk) /\ Consistent(disk, D, F)
      /\ MirrorLba(next) = lba /\ next \in Clusters(disk) /\ next \in Nat
  BY <1>0, MakePlaces
<1>2. /\ job.op = "mkdir" /\ sec = 0 /\ next < EPF /\ next \notin D \cup F
      /\ TakenEntry(disk, next) /\ first \in DOMAIN disk /\ sdbuf = disk[first]
  BY <1>0 DEF VolInv, MakeInv, FatStage
<1>3. ASSUME disk' = Written(disk, lba, sdbuf)
      PROVE  /\ Unmoved(disk, disk', D, F) /\ Consistent(disk', D, F) /\ SecondFollows(disk')
             /\ TakenEntry(disk', next)
             /\ \A c \in Clusters(disk') : c \div EPF = 0 => Fat2Entry(disk', c) = FatEntry(disk', c)
  BY <1>1, <1>2, <1>3, TakeMirror
<1>4. /\ disk' = disk \/ disk' = Written(disk, lba, sdbuf)
      /\ ignoreCrc' = ignoreCrc
      /\ \/ pc' = "clear" /\ UNCHANGED <<job, loopVars>> /\ disk' = Written(disk, lba, sdbuf)
         \/ Return(ERR)
  <2>1. /\ WriteSector(lba, sdbuf) \/ FailOnWrite(lba, sdbuf)
        /\ FailOnWrite(lba, sdbuf) => Return(ERR)
        /\ \/ WriteSector(lba, sdbuf) /\ pc' = "clear" /\ UNCHANGED <<job, loopVars>>
           \/ FailOnWrite(lba, sdbuf)
    BY <1>1 DEF MirrorFatSector, FailOnWrite
  <2> HIDE DEF lba
  <2> QED BY <2>1, WriteOutcome
<1>5. CardInv(D, F)' /\ LayoutOf(disk') = LayoutOf(disk) /\ (disk' = disk \/ Unmoved(disk, disk', D, F))
  <2> HIDE DEF lba, first
  <2>1. CASE disk' = disk
    BY <1>4, <2>1, CardQuiet DEF VolInv, CardInv
  <2>2. CASE disk' = Written(disk, lba, sdbuf)
    BY <1>3, <1>4, <2>2, CardWritten DEF VolInv, Unmoved
  <2> QED BY <1>4, <2>1, <2>2
<1>6. CASE Return(ERR)
  BY <1>0, <1>5, <1>6, Over
<1>7. CASE pc' = "clear" /\ UNCHANGED <<job, loopVars>> /\ disk' = Written(disk, lba, sdbuf)
  <2>1. next' = next /\ sec' = 0 /\ job'.op = "mkdir"
    BY <1>2, <1>7 DEF loopVars
  <2>2. LayoutOf(disk') = LayoutOf(disk) /\ Clusters(disk') = Clusters(disk)
    BY <1>5 DEF Clusters
  <2>3. /\ TakenEntry(disk', next')
        /\ \A c \in Clusters(disk') : c \div EPF = 0 => Fat2Entry(disk', c) = FatEntry(disk', c)
    BY <1>3, <1>7, <2>1
  <2>4. FatStage'
    BY <1>7, <2>3 DEF FatStage
  <2>5. ClearStage(D, F)'
    <3>1. 0 \in 0..(LayoutOf(disk').spc - 1)
      BY <1>1, <2>2, Places
    <3> QED BY <1>7, <2>1, <3>1 DEF ClearStage, Linking
  <2>6. MakeInv(D, F)'
    BY <1>1, <1>2, <1>7, <2>1, <2>2, <2>4, <2>5 DEF MakeInv, LinkStage, Making, Linking
  <2>7. MountInv' /\ FolderInv(D, F)'
    BY <1>0, <1>5, <1>7, MakeGoesOn
  <2> QED BY <1>5, <2>6, <2>7 DEF VolInv
<1> QED BY <1>4, <1>5, <1>6, <1>7

(* ... the new folder's sectors are written one by one ...                    *)
LEMMA NewDirLeads ==
  ASSUME TypeInv, NEW D, NEW F, cur.cluster \in D, cur.cluster \in Nat
  PROVE  /\ NewDirSector \in Sector
         /\ \A i \in 1..SLOTS : LeadsTo(Slots(NewDirSector)[i], D \cup {next}, F)
<1>1. next \in Nat
  BY DEF TypeInv, LoopType
<1>2. NewDirSector \in Sector
  BY <1>1, NewSectorType DEF NewDirSector
<1>3. ASSUME NEW i \in 1..SLOTS PROVE LeadsTo(Slots(NewDirSector)[i], D \cup {next}, F)
  <2>1. LeadsTo(FreeSlot, D \cup {next}, F)
    BY DEF LeadsTo, IsEntry, FreeSlot, Slot
  <2>2. CASE sec # 0
    <3>1. Slots(NewDirSector)[i] = FreeSlot
      BY <2>2 DEF NewDirSector, ZeroSector, Slots
    <3> QED BY <2>1, <3>1
  <2>3. CASE sec = 0
    <3>1. Slots(NewDirSector)[i] = CASE i = 1 -> Slot("dir", DotName, next, 0)
                                     [] i = 2 -> Slot("dir", DotDotName, cur.cluster, 0)
                                     [] OTHER -> FreeSlot
      BY <2>3 DEF NewDirSector, DotSector, Slots
    <3>2. /\ LeadsTo(Slot("dir", DotName, next, 0), D \cup {next}, F)
          /\ LeadsTo(Slot("dir", DotDotName, cur.cluster, 0), D \cup {next}, F)
      BY DEF LeadsTo, IsEntry, Slot
    <3> QED BY <2>1, <3>1, <3>2
  <2> QED BY <2>2, <2>3
<1> QED BY <1>2, <1>3

LEMMA VolClear ==
  ASSUME TypeInv, NEW D, NEW F, VolInv(D, F), TreeStep, ClearCluster
  PROVE  VolInv(D, F)' /\ (disk' = disk \/ Unmoved(disk, disk', D, F))
<1> DEFINE lba == DataLba(LayoutOf(disk), next, sec)
           content == NewDirSector
<1>0. pc = "clear" /\ Mounted /\ UNCHANGED dirVars /\ Making
  BY DEF ClearCluster, Mounted, Making
<1>1. /\ CardSet(disk) /\ WellLaid(disk) /\ SecondFollows(disk) /\ Consistent(disk, D, F)
      /\ DataLba(part, next, sec) = lba /\ next \in Clusters(disk) /\ next \in Nat
      /\ cur.cluster \in D /\ part.spc = LayoutOf(disk).spc
  BY <1>0, MakePlaces
<1>2. /\ job.op = "mkdir" /\ next < EPF /\ next \notin D \cup F /\ TakenEntry(disk, next)
      /\ \A c \in Clusters(disk) : c \div EPF = 0 => Fat2Entry(disk, c) = FatEntry(disk, c)
      /\ sec \in 0..(LayoutOf(disk).spc - 1) /\ \A s \in 0..(sec - 1) : Cleared(disk, next, D, F, s)
  BY <1>0 DEF VolInv, MakeInv, FatStage, ClearStage
<1>3. content \in Sector /\ \A i \in 1..SLOTS : LeadsTo(Slots(content)[i], D \cup {next}, F)
  <2>1. cur.cluster \in Nat
    BY <1>1, InClusters, ClusterPlaces
  <2> QED BY <1>1, <2>1, NewDirLeads
<1> HIDE DEF content
<1>4. ASSUME disk' = Written(disk, lba, content)
      PROVE  /\ Unmoved(disk, disk', D, F) /\ Consistent(disk', D, F) /\ SecondFollows(disk')
             /\ Clusters(disk') = Clusters(disk) /\ TakenEntry(disk', next)
             /\ \A c \in Clusters(disk) : c \div EPF = 0 => Fat2Entry(disk', c) = FatEntry(disk', c)
             /\ \A s \in 0..sec : Cleared(disk', next, D, F, s)
  <2>1. /\ Unmoved(disk, disk', D, F) /\ Consistent(disk', D, F) /\ SecondFollows(disk')
        /\ Clusters(disk') = Clusters(disk)
        /\ \A c \in Clusters(disk) : SameEntry(disk, disk', c) /\ Fat2Entry(disk', c) = Fat2Entry(disk, c)
        /\ \A t \in 0..(LayoutOf(disk).spc - 1) : t # sec =>
             \A i \in 1..SLOTS : SlotAt(disk', next, t, i) = SlotAt(disk, next, t, i)
        /\ \A i \in 1..SLOTS : SlotAt(disk', next, sec, i) = Slots(content)[i] \/ SlotAt(disk', next, sec, i).t = "other"
    BY <1>1, <1>2, <1>3, <1>4, TakeData
  <2>2. Cleared(disk', next, D, F, sec)
    <3>1. \A slot : slot.t = "other" => LeadsTo(slot, D \cup {next}, F)
      BY DEF LeadsTo, IsEntry
    <3> QED BY <1>3, <2>1, <3>1 DEF Cleared
  <2>3. ASSUME NEW s \in 0..sec, s # sec PROVE Cleared(disk', next, D, F, s)
    <3>1. s \in 0..(sec - 1) /\ s \in 0..(LayoutOf(disk).spc - 1)
      <4>1. LayoutOf(disk).spc \in Nat
        BY <1>1, Places
      <4> QED BY <1>2, <2>3, <4>1
    <3>2. Cleared(disk, next, D, F, s)
      BY <1>2, <3>1
    <3> QED BY <2>1, <2>3, <3>1, <3>2 DEF Cleared
  <2> QED BY <1>1, <1>2, <2>1, <2>2, <2>3
<1>5. /\ disk' = disk \/ disk' = Written(disk, lba, content)
      /\ ignoreCrc' = ignoreCrc
      /\ \/ /\ IF MoreToClear THEN sec' = sec + 1 /\ pc' = pc ELSE sec' = 0 /\ pc' = "slotread"
            /\ UNCHANGED <<job, next>> /\ disk' = Written(disk, lba, content)
         \/ Return(ERR)
  <2>1. /\ WriteSector(lba, content) \/ FailOnWrite(lba, content)
        /\ FailOnWrite(lba, content) => Return(ERR)
        /\ \/ /\ WriteSector(lba, content)
              /\ IF MoreToClear THEN sec' = sec + 1 /\ pc' = pc ELSE sec' = 0 /\ pc' = "slotread"
              /\ UNCHANGED <<job, next>>
           \/ FailOnWrite(lba, content)
    BY <1>1 DEF ClearCluster, FailOnWrite, content
  <2> HIDE DEF lba
  <2> QED BY <2>1, WriteOutcome
<1>6. CardInv(D, F)' /\ LayoutOf(disk') = LayoutOf(disk) /\ (disk' = disk \/ Unmoved(disk, disk', D, F))
  <2> HIDE DEF lba
  <2>1. CASE disk' = disk
    BY <1>5, <2>1, CardQuiet DEF VolInv, CardInv
  <2>2. CASE disk' = Written(disk, lba, content)
    BY <1>4, <1>5, <2>2, CardWritten DEF VolInv, Unmoved
  <2> QED BY <1>5, <2>1, <2>2
<1>7. CASE Return(ERR)
  BY <1>0, <1>6, <1>7, Over
<1>8. CASE /\ IF MoreToClear THEN sec' = sec + 1 /\ pc' = pc ELSE sec' = 0 /\ pc' = "slotread"
           /\ UNCHANGED <<job, next>> /\ disk' = Written(disk, lba, content)
  <2>1. /\ TakenEntry(disk', next') /\ Clusters(disk') = Clusters(disk)
        /\ \A c \in Clusters(disk') : c \div EPF = 0 => Fat2Entry(disk', c) = FatEntry(disk', c)
        /\ \A s \in 0..sec : Cleared(disk', next', D, F, s)
    BY <1>4, <1>8
  <2>2. pc' \in {"clear", "slotread"}
    BY <1>0, <1>8
  <2>3. FatStage'
    BY <2>1, <2>2 DEF FatStage
  <2>4. ClearStage(D, F)'
    <3>1. LayoutOf(disk).spc \in Nat \ {0} /\ LayoutOf(disk').spc = LayoutOf(disk).spc
      BY <1>1, <1>6, Places
    <3>2. CASE MoreToClear
      <4>1. sec' = sec + 1 /\ pc' = "clear" /\ sec + 1 < LayoutOf(disk).spc
        BY <1>0, <1>1, <1>8, <3>2 DEF MoreToClear
      <4>2. sec' \in 0..(LayoutOf(disk').spc - 1) /\ sec' - 1 = sec
        BY <1>2, <3>1, <4>1
      <4> QED BY <2>1, <4>1, <4>2 DEF ClearStage, Linking
    <3>3. CASE ~MoreToClear
      <4>1. pc' = "slotread" /\ LayoutOf(disk').spc - 1 = sec
        BY <1>1, <1>2, <1>8, <3>1, <3>3 DEF MoreToClear
      <4> QED BY <2>1, <4>1 DEF ClearStage, Linking
    <3> QED BY <3>2, <3>3
  <2>5. MakeInv(D, F)'
    BY <1>1, <1>2, <1>8, <2>1, <2>2, <2>3, <2>4 DEF MakeInv, LinkStage, Making, Linking
  <2>6. MountInv' /\ FolderInv(D, F)'
    BY <1>0, <1>6, <2>2, MakeGoesOn
  <2> QED BY <1>6, <2>5, <2>6 DEF VolInv
<1> QED BY <1>5, <1>6, <1>7, <1>8
(* ... and at last its entry in the folder it is in.                          *)
LEMMA VolReadFolder ==
  ASSUME NoYes, TypeInv, NEW D, NEW F, VolInv(D, F), TreeStep, ReadFolderSector
  PROVE  VolInv(D, F)' /\ disk' = disk
<1>0. pc = "slotread" /\ Mounted /\ UNCHANGED dirVars
  BY DEF ReadFolderSector, Mounted
<1>1. CardInv(D, F)' /\ disk' = disk
  BY AnyRead DEF ReadFolderSector, VolInv
<1>2. CASE Return(ERR)
  BY <1>0, <1>1, <1>2, Over
<1>3. CASE /\ ReadSector(FolderLba) /\ UnusedSlot(sdbuf') # 0 /\ pc' = "slotwrite"
           /\ UNCHANGED <<job, loopVars, ret>>
  <2>1. ignoreCrc = FALSE /\ FolderLba = DataLba(LayoutOf(disk), cur.cluster, 0)
    BY <1>0, MakePlaces
  <2>2. FolderLba \in DOMAIN disk /\ sdbuf' = disk[FolderLba]
    BY <1>3, <2>1, GoodRead
  <2>3. next' = next /\ sec' = sec /\ job' = job /\ cur' = cur
    BY <1>0, <1>3 DEF loopVars, dirVars
  <2>4. LinkStage'
    BY <1>1, <1>3, <2>1, <2>2, <2>3 DEF LinkStage
  <2>5. FatStage' /\ ClearStage(D, F)'
    BY <1>0, <1>1, <1>3, <2>3 DEF VolInv, MakeInv, FatStage, ClearStage, Making, Linking
  <2>6. MakeInv(D, F)'
    BY <1>0, <1>1, <1>3, <2>3, <2>4, <2>5 DEF VolInv, MakeInv, Making, Linking
  <2>7. MountInv' /\ FolderInv(D, F)'
    BY <1>0, <1>1, <1>3, MakeGoesOn
  <2> QED BY <1>1, <2>6, <2>7 DEF VolInv
<1> QED BY <1>1, <1>2, <1>3 DEF ReadFolderSector

(* What is so when that entry is to be written; D2 has the new folder.        *)
LEMMA LinkReady ==
  ASSUME TypeInv, NEW D, NEW F, VolInv(D, F), pc = "slotwrite"
  PROVE  /\ CardSet(disk) /\ WellLaid(disk) /\ SecondFollows(disk) /\ Consistent(disk, D, F)
         /\ FolderLba = DataLba(LayoutOf(disk), cur.cluster, 0) /\ cur.cluster \in D
         /\ FolderLba \in DOMAIN disk /\ sdbuf = disk[FolderLba] /\ UnusedSlot(disk[FolderLba]) # 0
         /\ NewEntry \in SlotSet /\ NewEntry.t # "free" /\ NewEntry.cluster = next
         /\ NewEntry.t = IF job.op = "mkdir" THEN "dir" ELSE "file"
         /\ \E D2 :
           /\ D \subseteq D2 /\ D2 \cap F = {} /\ ChainClosed(disk, D2) /\ LeadsTo(NewEntry, D2, F)
           /\ \A c \in D2 \ D : \A s \in 0..(LayoutOf(disk).spc - 1) : \A i \in 1..SLOTS :
                LeadsTo(SlotAt(disk, c, s, i), D2, F)
<1> DEFINE lba == DataLba(LayoutOf(disk), cur.cluster, 0)
           E2 == IF job.op = "mkdir" THEN D \cup {next} ELSE D
<1>0. Mounted /\ Linking
  BY DEF Mounted, Linking
<1>1. /\ CardSet(disk) /\ WellLaid(disk) /\ SecondFollows(disk) /\ Consistent(disk, D, F)
      /\ FolderLba = lba /\ cur.cluster \in D
  BY <1>0, MakePlaces
<1>2. lba \in DOMAIN disk /\ sdbuf = disk[lba] /\ UnusedSlot(disk[lba]) # 0
  BY <1>0 DEF VolInv, MakeInv, LinkStage
<1>3. NewEntry \in SlotSet /\ NewEntry.t # "free" /\ NewEntry.cluster = next
      /\ NewEntry.t = IF job.op = "mkdir" THEN "dir" ELSE "file"
  <2>1. next \in Nat /\ job.name \in NameSet
    BY DEF TypeInv, LoopType, JobType
  <2>2. NewEntry \in SlotSet
    BY <2>1, SlotType DEF NewEntry
  <2> QED BY <2>2 DEF NewEntry, Slot
<1>4. /\ D \subseteq E2 /\ E2 \cap F = {} /\ ChainClosed(disk, E2) /\ LeadsTo(NewEntry, E2, F)
      /\ \A c \in E2 \ D : \A s \in 0..(LayoutOf(disk).spc - 1) : \A i \in 1..SLOTS :
           LeadsTo(SlotAt(disk, c, s, i), E2, F)
  <2>1. CASE job.op = "mkdir"
    <3>1. /\ next \in Clusters(disk) /\ next \notin D \cup F /\ TakenEntry(disk, next)
          /\ \A s \in 0..(LayoutOf(disk).spc - 1) : Cleared(disk, next, D, F, s)
      BY <1>0, <2>1 DEF VolInv, MakeInv, FatStage, ClearStage, Making, Linking
    <3>2. E2 = D \cup {next}
      BY <2>1
    <3> HIDE DEF E2
    <3>3. ChainClosed(disk, E2)
      <4>1. EOC # 0 /\ ~InChain(EOC)
        BY DiskAssumption DEF InChain
      <4> QED BY <1>1, <3>1, <3>2, <4>1 DEF Consistent, ChainClosed, Allocated
    <3>4. E2 \cap F = {} /\ LeadsTo(NewEntry, E2, F)
      BY <1>1, <1>3, <2>1, <3>1, <3>2 DEF Consistent, LeadsTo
    <3>5. \A c \in E2 \ D : \A s \in 0..(LayoutOf(disk).spc - 1) : \A i \in 1..SLOTS :
            LeadsTo(SlotAt(disk, c, s, i), E2, F)
      BY <3>1, <3>2 DEF Cleared
    <3> QED BY <3>2, <3>3, <3>4, <3>5
  <2>2. CASE job.op # "mkdir"
    <3>1. next = 0 /\ E2 = D
      BY <1>0, <2>2 DEF VolInv, MakeInv
    <3> QED BY <1>1, <1>3, <3>1 DEF Consistent, LeadsTo
  <2> QED BY <2>1, <2>2
<1> HIDE DEF E2
<1> QED BY <1>1, <1>2, <1>3, <1>4

(* The new folder's cluster is one of the folders' from then on.              *)
LEMMA VolWriteFolder ==
  ASSUME TypeInv, NEW D, NEW F, VolInv(D, F), TreeStep, WriteFolderSector
  PROVE  /\ \E D2 : VolInv(D2, F)'
         /\ disk' = disk \/ Harmless(disk, disk', D, F)
         /\ disk' # disk => disk' = Written(disk, FolderLba, WithSlot(disk[FolderLba], NewEntry))
<1> DEFINE lba == FolderLba
<1>0. pc = "slotwrite" /\ Mounted /\ UNCHANGED dirVars
  BY DEF WriteFolderSector, Mounted
<1>1. /\ CardSet(disk) /\ WellLaid(disk) /\ SecondFollows(disk) /\ Consistent(disk, D, F)
      /\ lba = DataLba(LayoutOf(disk), cur.cluster, 0) /\ cur.cluster \in D
      /\ lba \in DOMAIN disk /\ sdbuf = disk[lba] /\ UnusedSlot(disk[lba]) # 0
      /\ NewEntry \in SlotSet /\ NewEntry.t # "free"
  BY <1>0, LinkReady
<1>5. PICK D2 :
        /\ D \subseteq D2 /\ D2 \cap F = {} /\ ChainClosed(disk, D2) /\ LeadsTo(NewEntry, D2, F)
        /\ \A c \in D2 \ D : \A s \in 0..(LayoutOf(disk).spc - 1) : \A i \in 1..SLOTS :
             LeadsTo(SlotAt(disk, c, s, i), D2, F)
  BY <1>0, LinkReady
<1> HIDE DEF lba
<1>6. /\ disk' = disk \/ disk' = Written(disk, lba, WithSlot(disk[lba], NewEntry))
      /\ ignoreCrc' = ignoreCrc /\ \E v : Return(v)
  <2>1. /\ \/ WriteSector(lba, WithSlot(disk[lba], NewEntry))
           \/ FailOnWrite(lba, WithSlot(disk[lba], NewEntry))
        /\ \E v : Return(v)
    BY <1>1 DEF WriteFolderSector, FailOnWrite, lba
  <2> QED BY <2>1, WriteOutcome
<1>7. CASE disk' = disk
  <2>1. CardInv(D, F)'
    BY <1>6, <1>7, CardQuiet DEF VolInv, CardInv
  <2>2. VolInv(D, F)'
    BY <1>0, <1>6, <1>7, <2>1, Over
  <2> QED BY <1>7, <2>2
<1>8. CASE disk' = Written(disk, lba, WithSlot(disk[lba], NewEntry))
  <2>1. Harmless(disk, disk', D, F) /\ Consistent(disk', D2, F) /\ SecondFollows(disk')
    BY <1>1, <1>5, <1>8, TakeSlot
  <2>2. CardInv(D2, F)' /\ LayoutOf(disk') = LayoutOf(disk)
    BY <1>6, <2>1, CardWritten DEF VolInv
  <2>3. VolInv(D2, F)'
    BY <1>0, <1>5, <1>6, <2>2, Over
  <2> QED BY <1>8, <2>1, <2>3 DEF lba
<1> QED BY <1>6, <1>7, <1>8
----------------------------------------------------------------------------
(* The card: any in good order; and what is proved of it.                     *)
GoodCards == NoYes /\ \A card \in Cards : InGoodOrder(card)
VolumeInv == TypeInv /\ \E D, F : VolInv(D, F)

LEMMA VolInit == GoodCards /\ InitP => VolumeInv
<1> SUFFICES ASSUME GoodCards, InitP PROVE VolumeInv
  OBVIOUS
<1>1. TypeInv
  BY PowerTypes DEF InitP
<1>2. PICK D, F : Consistent(disk, D, F)
  BY DEF GoodCards, InGoodOrder, InitP, Init
<1>3. CardInv(D, F)
  BY <1>2 DEF GoodCards, InGoodOrder, InitP, Init, CardInv
<1>4. pc = "boot" /\ next = 0 /\ sec = 0
  BY DEF InitP, Init
<1>5. MountInv /\ FolderInv(D, F)
  BY <1>4 DEF MountInv, FolderInv, Mounted
<1>6. MakeInv(D, F)
  BY <1>4 DEF MakeInv, FatStage, ClearStage, LinkStage, Making, Linking
<1> QED BY <1>1, <1>3, <1>5, <1>6 DEF VolumeInv, VolInv

LEMMA VolStep ==
  ASSUME NoYes, TypeInv, NEW D, NEW F, VolInv(D, F), [NextP]_<<vars, tree>>
  PROVE  /\ \E D2 : VolInv(D2, F)'
         /\ disk' = disk \/ Harmless(disk, disk', D, F)
         /\ disk' = disk \/ Unmoved(disk, disk', D, F) \/ WriteFolderSector
<1>1. CASE UNCHANGED <<vars, tree>>
  <2>1. VolInv(D, F)'
    <3>1. CardInv(D, F)'
      BY <1>1 DEF vars, sdVars, VolInv, CardInv
    <3>2. MountInv' /\ FolderInv(D, F)'
      BY <1>1 DEF vars, sdVars, dirVars, loopVars, VolInv, MountInv, FolderInv, Mounted, IsFileChain
    <3>3. MakeInv(D, F)'
      BY <1>1 DEF vars, sdVars, dirVars, loopVars, VolInv, MakeInv, FatStage, ClearStage, LinkStage, Making, Linking
    <3> QED BY <3>1, <3>2, <3>3 DEF VolInv
  <2> QED BY <1>1, <2>1 DEF vars, sdVars
<1>2. CASE NextP
  <2> TreeStep
    BY <1>2 DEF NextP, TreeStep
  <2>0. ASSUME VolInv(D, F)', disk' = disk
        PROVE  (\E D2 : VolInv(D2, F)') /\ disk' = disk
    BY <2>0
  <2>1. CASE Mount
    <3>1. disk' = disk
      BY <2>1, AnyRead DEF Mount, BootSd, ReadMbr, ReadPartition, ReadLabel, Mounting, sdVars, VolInv
    <3> QED BY <2>0, <2>1, <3>1, VolMount
  <2>2. CASE Call
    <3>1. disk' = disk
      BY <2>2 DEF Call, ChdirRoot, ChdirUp, ListDir, ReadDir, Getcwd, PrintPartitionInfo, ChdirName,
                  Mkdir, Touch, Open, LoadFile, Close, Read, Immediate, Show, sdVars
    <3> QED BY <2>0, <2>2, <3>1, VolCalls
  <2>3. CASE FollowChain \/ DirChainDone \/ ScanSector
    <3>1. disk' = disk
      BY <2>3, AnyRead DEF FollowChain, DirChainDone, ScanSector, sdVars, VolInv
    <3> QED BY <2>0, <2>3, <3>1, VolChain
  <2>4. CASE FinishChdir \/ ListStep \/ FinishOpenSearch \/ FinishLoadSearch
    <3>1. disk' = disk
      BY <2>4, ListingSteps DEF FinishChdir, FinishOpenSearch, FinishLoadSearch, sdVars
    <3> QED BY <2>0, <2>4, <3>1, VolSearch
  <2>5. CASE OpenChainDone \/ ReadStep \/ LoadChainDone \/ LoadStep
    <3>1. disk' = disk
      <4>1. CASE OpenChainDone \/ LoadChainDone
        BY <4>1 DEF OpenChainDone, LoadChainDone, sdVars
      <4>2. CASE ReadStep
        BY <4>2, AnyRead DEF ReadStep, sdVars, VolInv
      <4>3. CASE LoadStep
        BY <4>3, AnyRead DEF LoadStep, sdVars, VolInv
      <4> QED BY <2>5, <4>1, <4>2, <4>3
    <3> QED BY <2>0, <2>5, <3>1, VolFile
  <2>6. CASE FindFreeCluster \/ ReadFatSector \/ ReadFolderSector
    BY <2>0, <2>6, VolFindFree, VolReadFat, VolReadFolder
  <2>7. CASE WriteFatSector \/ MirrorFatSector \/ ClearCluster
    BY <2>7, VolWriteFat, VolMirror, VolClear DEF Unmoved
  <2>8. CASE WriteFolderSector
    BY <2>8, VolWriteFolder
  <2>9. CASE Reset
    <3>1. pc' = "boot" /\ next' = 0 /\ sec' = 0 /\ disk' = disk /\ ignoreCrc' = FALSE
      BY <2>9 DEF Reset
    <3>2. CardInv(D, F)'
      BY <3>1, CardQuiet DEF VolInv
    <3>3. MountInv' /\ FolderInv(D, F)'
      BY <3>1 DEF MountInv, FolderInv, Mounted
    <3> QED BY <2>0, <3>1, <3>2, <3>3, NotMaking DEF VolInv
  <2>10. CASE Halted
    <3>1. UNCHANGED vars /\ tree' = tree
      BY <1>2, <2>10 DEF Halted, NextP, vars, sdVars
    <3> QED BY <1>1, <3>1
  <2> QED BY <1>2, <2>1, <2>2, <2>3, <2>4, <2>5, <2>6, <2>7, <2>8, <2>9, <2>10 DEF NextP, Next, Step, ListStep
<1> QED BY <1>1, <1>2

LEMMA VolumeStep == GoodCards /\ VolumeInv /\ [NextP]_<<vars, tree>> => VolumeInv'
<1> SUFFICES ASSUME GoodCards, VolumeInv, [NextP]_<<vars, tree>> PROVE VolumeInv'
  OBVIOUS
<1>1. TypeInv'
  BY TypeStep DEF NextP, VolumeInv
<1>2. PICK D, F : VolInv(D, F)
  BY DEF VolumeInv
<1>3. \E D2 : VolInv(D2, F)'
  BY <1>2, VolStep DEF GoodCards, VolumeInv
<1> QED BY <1>1, <1>3 DEF VolumeInv

(* On a card in good order the second FAT is never ahead of the first: the    *)
(* two differ only in clusters that a mkdir took which did not get as far as  *)
(* the mirror step, and not at all in that sector once one did - with reads   *)
(* and writes that fail and resets at any point, for every layout.            *)
THEOREM SecondFatCorrect == GoodCards => (SpecP => []SecondFat)
<1> SUFFICES ASSUME GoodCards PROVE SpecP => []SecondFat
  OBVIOUS
<1>1. VolumeInv => SecondFat
  <2> SUFFICES ASSUME VolumeInv PROVE SecondFat
    OBVIOUS
  <2>1. PICK D, F : VolInv(D, F)
    BY DEF VolumeInv
  <2>2. pc = "clear" => next \div EPF = 0
    <3>1. pc = "clear" => next < EPF /\ next \in Nat
      BY <2>1 DEF VolInv, MakeInv, Making, VolumeInv, TypeInv, LoopType
    <3> QED BY <3>1, DiskAssumption
  <2> QED BY <2>1, <2>2 DEF SecondFat, VolInv, CardInv, MakeInv, FatStage
<1> QED BY <1>1, VolInit, VolumeStep, PTL DEF SpecP

(* Whatever fails and wherever mkdir is cut off, no file or folder that can   *)
(* be found refers to a cluster that the FAT calls free.                      *)
THEOREM EntriesCorrect == GoodCards => (SpecP => []EntriesAllocated)
<1> SUFFICES ASSUME GoodCards PROVE SpecP => []EntriesAllocated
  OBVIOUS
<1>1. VolumeInv => EntriesAllocated
  <2> SUFFICES ASSUME VolumeInv, NEW e \in tree, e.slot.cluster # 0
               PROVE  FatEntry(disk, e.slot.cluster) # 0
    BY DEF EntriesAllocated
  <2>1. PICK D, F : VolInv(D, F)
    BY DEF VolumeInv
  <2>2. e \in Tree(disk) /\ CardSet(disk) /\ WellLaid(disk) /\ Consistent(disk, D, F)
    BY <2>1 DEF VolInv, CardInv, VolumeInv, TypeInv, CardType, CardSet
  <2>3. e.slot.cluster \in Allocated(disk)
    BY <2>2, TreeStays
  <2> QED BY <2>3 DEF Allocated
<1> QED BY <1>1, VolInit, VolumeStep, PTL DEF SpecP

(* What a step that writes the card leaves as it was.                         *)
LEMMA WriteKeeps ==
  ASSUME GoodCards, VolumeInv, [NextP]_<<vars, tree>>
  PROVE  /\ tree \subseteq tree'
         /\ disk' # disk =>
              \A e \in tree : e.slot.t = "file" => FileBytes(disk', e.slot) = FileBytes(disk, e.slot)
<1>1. PICK D, F : VolInv(D, F)
  BY DEF VolumeInv
<1>2. disk' = disk \/ Harmless(disk, disk', D, F)
  BY <1>1, VolStep DEF GoodCards, VolumeInv
<1>3. /\ tree = Tree(disk) /\ CardSet(disk) /\ WellLaid(disk) /\ Consistent(disk, D, F)
      /\ tree' = tree \/ (disk' # disk /\ tree' = Tree(disk'))
  BY <1>1 DEF VolInv, CardInv, VolumeInv, TypeInv, CardType, CardSet, NextP
<1>4. tree \subseteq tree'
  BY <1>2, <1>3, TreeGrows
<1>5. ASSUME disk' # disk, NEW e \in tree, e.slot.t = "file"
      PROVE  FileBytes(disk', e.slot) = FileBytes(disk, e.slot)
  <2>1. LeadsTo(e.slot, D, F) /\ IsEntry(e.slot)
    BY <1>3, TreeStays
  <2>2. e.slot.cluster \in F \cup {0}
    BY <1>5, <2>1 DEF LeadsTo
  <2> QED BY <1>2, <1>3, <1>5, <2>2, FilesSame
<1> QED BY <1>4, <1>5

(* No file or folder of such a card ever disappears or changes.               *)
THEOREM EntriesStayCorrect == GoodCards => (SpecP => EntriesStay)
<1> SUFFICES ASSUME GoodCards PROVE SpecP => EntriesStay
  OBVIOUS
<1>1. VolumeInv /\ [NextP]_<<vars, tree>> => [tree \subseteq tree']_<<vars, tree>>
  BY WriteKeeps
<1> QED BY <1>1, VolInit, VolumeStep, PTL DEF SpecP, EntriesStay

(* And no step of mkdir or touch, completed or not, changes a byte of a file. *)
THEOREM FilesKept == GoodCards => (SpecP => FilesKeepContents)
<1> SUFFICES ASSUME GoodCards PROVE SpecP => FilesKeepContents
  OBVIOUS
<1>1. VolumeInv /\ [NextP]_<<vars, tree>> =>
        [disk' # disk =>
           \A e \in tree : e.slot.t = "file" =>
           /\ e \in tree'
           /\ FileBytes(disk', e.slot) = FileBytes(disk, e.slot)]_vars
  BY WriteKeeps
<1> QED BY <1>1, VolInit, VolumeStep, PTL DEF SpecP, FilesKeepContents

(* What is written back to a folder's sector is what is stored there with the *)
(* new entry added.                                                           *)
THEOREM WritesBackCorrect == GoodCards => (SpecP => WritesBackWhatIsThere)
<1> SUFFICES ASSUME GoodCards PROVE SpecP => WritesBackWhatIsThere
  OBVIOUS
<1> DEFINE Back == pc = "slotwrite" /\ disk' # disk =>
                     disk'[FolderLba] = WithSlot(disk[FolderLba], NewEntry)
<1>1. VolumeInv /\ [NextP]_<<vars, tree>> => [Back]_vars
  <2> SUFFICES ASSUME VolumeInv, [NextP]_<<vars, tree>>, pc = "slotwrite", disk' # disk
               PROVE  disk'[FolderLba] = WithSlot(disk[FolderLba], NewEntry)
    OBVIOUS
  <2>1. PICK D, F : VolInv(D, F)
    BY DEF VolumeInv
  <2>2. WriteFolderSector /\ TreeStep
    <3>1. NextP
      BY DEF vars, sdVars
    <3>2. ~Mount /\ ~Call /\ ~(FollowChain \/ DirChainDone \/ ScanSector)
      BY DEF Mount, BootSd, ReadMbr, ReadPartition, ReadLabel, Call, ChdirRoot, ChdirUp, ListDir, ReadDir, Begin,
             Getcwd, PrintPartitionInfo, ChdirName, Mkdir, Touch, Open, LoadFile, Close, Read, Immediate, Show,
             FollowChain, DirChainDone, ScanSector
    <3>3. ~(FinishChdir \/ FinishList \/ ListingKey \/ FinishOpenSearch \/ FinishLoadSearch)
          /\ ~(OpenChainDone \/ ReadStep \/ LoadChainDone \/ LoadStep)
      BY DEF FinishChdir, FinishList, ListingKey, FinishOpenSearch, FinishLoadSearch, OpenChainDone, ReadStep,
             LoadChainDone, LoadStep
    <3>4. ~(FindFreeCluster \/ ReadFatSector \/ ReadFolderSector \/ WriteFatSector \/ MirrorFatSector \/ ClearCluster)
      BY DEF FindFreeCluster, ReadFatSector, ReadFolderSector, WriteFatSector, MirrorFatSector, ClearCluster
    <3>5. ~Reset /\ ~Halted
      BY DEF Reset, Halted
    <3> QED BY <3>1, <3>2, <3>3, <3>4, <3>5 DEF NextP, Next, Step, TreeStep
  <2>3. disk' = Written(disk, FolderLba, WithSlot(disk[FolderLba], NewEntry))
    BY <2>1, <2>2, VolWriteFolder DEF VolumeInv
  <2>4. FolderLba \in DOMAIN disk /\ CardSet(disk)
    <3>1. Mounted
      BY DEF Mounted
    <3> QED BY <2>1, <3>1, MakePlaces DEF VolumeInv, VolInv, MakeInv, LinkStage
  <2> QED BY <2>3, <2>4 DEF Written, CardSet
<1> QED BY <1>1, VolInit, VolumeStep, PTL DEF SpecP, WritesBackWhatIsThere
=============================================================================
