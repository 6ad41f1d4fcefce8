---------------------------- MODULE Reads_proofs ----------------------------
(* That open, read and load deliver the bytes of the file, on every card in   *)
(* good order and whatever else is done in between.  The bytes of a chain are *)
(* a sequence; a routine has copied a stretch of it, sector by sector.        *)
EXTENDS Tree_proofs

USE DEF SameEntry, TakenEntry

(* Stretches of a sequence.                                                   *)
LEMMA Stretch ==
  ASSUME NEW S, NEW B \in Seq(S), NEW a \in Nat, NEW b \in Nat, a <= b, b <= Len(B)
  PROVE  /\ SubSeq(B, a + 1, b) \in Seq(S) /\ Len(SubSeq(B, a + 1, b)) = b - a
         /\ \A i \in 1..(b - a) : SubSeq(B, a + 1, b)[i] = B[a + i]
<1> DEFINE x == SubSeq(B, a + 1, b)
<1>1. Len(B) \in Nat /\ \A i \in 1..Len(B) : B[i] \in S
  OBVIOUS
<1>2. x = [i \in 1..(b - a) |-> B[a + i]]
  <2>1. \A i \in 1..(b - a) : i + (a + 1) - 1 = a + i
    OBVIOUS
  <2>2. b - (a + 1) + 1 = b - a
    OBVIOUS
  <2> QED BY <1>1, <2>1, <2>2
<1>3. \A i \in 1..(b - a) : B[a + i] \in S
  BY <1>1
<1>4. b - a \in Nat
  OBVIOUS
<1>5. x \in Seq(S) /\ Len(x) = b - a
  BY <1>2, <1>3, <1>4
<1> QED BY <1>2, <1>5

LEMMA StretchesJoin ==
  ASSUME NEW S, NEW B \in Seq(S), NEW a \in Nat, NEW b \in Nat, NEW c \in Nat, a <= b, b <= c, c <= Len(B)
  PROVE  SubSeq(B, a + 1, b) \o SubSeq(B, b + 1, c) = SubSeq(B, a + 1, c)
<1> DEFINE x == SubSeq(B, a + 1, b)
           y == SubSeq(B, b + 1, c)
           z == SubSeq(B, a + 1, c)
<1>1. Len(B) \in Nat /\ b <= Len(B) /\ a <= c
  OBVIOUS
<1>2. x \in Seq(S) /\ Len(x) = b - a /\ \A i \in 1..(b - a) : x[i] = B[a + i]
  BY <1>1, Stretch
<1>3. y \in Seq(S) /\ Len(y) = c - b /\ \A i \in 1..(c - b) : y[i] = B[b + i]
  BY <1>1, Stretch
<1>4. z \in Seq(S) /\ Len(z) = c - a /\ \A i \in 1..(c - a) : z[i] = B[a + i]
  BY <1>1, Stretch
<1> DEFINE u == b - a
           v == c - b
<1>5a. u \in Nat /\ v \in Nat /\ u + v = c - a /\ Len(x) = u /\ Len(y) = v
  BY <1>2, <1>3
<1> HIDE DEF x, y, z, u, v
<1>5b. /\ x \o y \in Seq(S) /\ Len(x \o y) = Len(x) + Len(y)
       /\ \A i \in 1..(Len(x) + Len(y)) : (x \o y)[i] = IF i <= Len(x) THEN x[i] ELSE y[i - Len(x)]
  BY <1>2, <1>3, ConcatProperties
<1>5. /\ x \o y \in Seq(S) /\ Len(x \o y) = c - a
      /\ \A i \in 1..(c - a) : (x \o y)[i] = IF i <= b - a THEN x[i] ELSE y[i - (b - a)]
  BY <1>5a, <1>5b DEF u
<1>6. ASSUME NEW i \in 1..(c - a) PROVE (x \o y)[i] = z[i]
  <2>1. CASE i <= b - a
    <3>1. i \in 1..(b - a)
      BY <2>1
    <3>2. x[i] = B[a + i] /\ z[i] = B[a + i] /\ (x \o y)[i] = x[i]
      BY <1>2, <1>4, <1>5, <2>1, <3>1
    <3> QED BY <3>2
  <2>2. CASE ~(i <= b - a)
    <3>1. i - (b - a) \in 1..(c - b) /\ b + (i - (b - a)) = a + i
      BY <2>2
    <3> QED BY <1>3, <1>4, <1>5, <2>2, <3>1
  <2> QED BY <2>1, <2>2
<1>7. x \o y = z
  BY <1>4, <1>5, <1>6, SeqEqual
<1> QED BY <1>7 DEF x, y, z

----------------------------------------------------------------------------
(* The bytes of a chain, and the stretch of them that one sector holds.       *)
Bytes(dk, c) ==
  [i \in 1..(Len(ChainSectors(dk, c)) * SECTOR) |->
     <<ChainSectors(dk, c)[1 + ((i - 1) \div SECTOR)], (i - 1) % SECTOR>>]

LEMMA SectorsSpec ==
  ASSUME NEW dk, CardSet(dk), WellLaid(dk), NEW c \in Nat
  PROVE  /\ Len(ChainSectors(dk, c)) = Len(Chain(dk, c)) * LayoutOf(dk).spc
         /\ Len(ChainSectors(dk, c)) \in Nat
         /\ \A k \in 1..Len(ChainSectors(dk, c)) :
              ChainSectors(dk, c)[k] =
                Fetch(dk, DataLba(LayoutOf(dk), Chain(dk, c)[1 + ((k - 1) \div LayoutOf(dk).spc)],
                                  (k - 1) % LayoutOf(dk).spc))
<1> DEFINE n == Len(Chain(dk, c)) * LayoutOf(dk).spc
           g(k) == Fetch(dk, DataLba(LayoutOf(dk), Chain(dk, c)[1 + ((k - 1) \div LayoutOf(dk).spc)],
                                     (k - 1) % LayoutOf(dk).spc))
<1>1. n \in Nat
  BY ChainSpec, Places
<1>2. ChainSectors(dk, c) = [k \in 1..n |-> g(k)]
  BY DEF ChainSectors
<1> HIDE DEF n, g
<1>3. Len(ChainSectors(dk, c)) = n
  BY <1>1, <1>2
<1> QED BY <1>1, <1>2, <1>3 DEF n, g

LEMMA BytesSpec ==
  ASSUME NEW dk, CardSet(dk), WellLaid(dk), NEW c \in Nat
  PROVE  /\ Bytes(dk, c) \in Seq(Range(Bytes(dk, c)))
         /\ Len(Bytes(dk, c)) = Len(ChainSectors(dk, c)) * SECTOR /\ Len(Bytes(dk, c)) \in Nat
<1> DEFINE n == Len(ChainSectors(dk, c)) * SECTOR
           b(i) == <<ChainSectors(dk, c)[1 + ((i - 1) \div SECTOR)], (i - 1) % SECTOR>>
<1>1. n \in Nat
  BY SectorsSpec, FatAssumption
<1>2. Bytes(dk, c) = [i \in 1..n |-> b(i)]
  BY DEF Bytes
<1> HIDE DEF n, b
<1>3. Bytes(dk, c) \in [1..n -> Range(Bytes(dk, c))]
  BY <1>2 DEF Range
<1>4. Len(Bytes(dk, c)) = n
  BY <1>1, <1>2
<1> QED BY <1>1, <1>3, <1>4 DEF n

LEMMA FileIsStretch ==
  ASSUME NEW dk, CardSet(dk), WellLaid(dk), NEW slot, slot.cluster \in Nat, slot.size \in Nat
  PROVE  /\ FileBytes(dk, slot) = SubSeq(Bytes(dk, slot.cluster), 1, Len(FileBytes(dk, slot)))
         /\ Len(FileBytes(dk, slot)) = Smaller(slot.size, Len(Bytes(dk, slot.cluster)))
         /\ Len(FileBytes(dk, slot)) \in Nat
         /\ Len(FileBytes(dk, slot)) <= slot.size /\ Len(FileBytes(dk, slot)) <= Len(Bytes(dk, slot.cluster))
         /\ FileBytes(dk, slot) \in Seq(Range(Bytes(dk, slot.cluster)))
<1> DEFINE c == slot.cluster
           B == Bytes(dk, c)
           m == Len(B)
           n == Smaller(slot.size, m)
           b(i) == <<ChainSectors(dk, c)[1 + ((i - 1) \div SECTOR)], (i - 1) % SECTOR>>
<1>1. B \in Seq(Range(B)) /\ m = Len(ChainSectors(dk, c)) * SECTOR /\ m \in Nat
  BY BytesSpec
<1>2. n \in 0..m /\ n <= slot.size
  BY <1>1 DEF Smaller
<1>3. FileBytes(dk, slot) = [i \in 1..n |-> b(i)]
  BY <1>1 DEF FileBytes
<1>4. \A i \in 1..m : B[i] = b(i)
  BY <1>1 DEF Bytes
<1> HIDE DEF c, B, m, n, b
<1>5. Len(FileBytes(dk, slot)) = n
  BY <1>2, <1>3
<1>6. SubSeq(B, 1, n) \in Seq(Range(B)) /\ Len(SubSeq(B, 1, n)) = n /\ \A i \in 1..n : SubSeq(B, 1, n)[i] = B[i]
  <2>1. n \in Nat /\ 0 <= n /\ n <= Len(B) /\ n - 0 = n /\ 0 + 1 = 1
    BY <1>1, <1>2 DEF m
  <2>2. SubSeq(B, 0 + 1, n) \in Seq(Range(B)) /\ Len(SubSeq(B, 0 + 1, n)) = n - 0
        /\ \A i \in 1..(n - 0) : SubSeq(B, 0 + 1, n)[i] = B[0 + i]
    BY <1>1, <2>1, Stretch
  <2>3. \A i \in 1..n : 0 + i = i
    OBVIOUS
  <2> QED BY <2>1, <2>2, <2>3
<1>7. FileBytes(dk, slot) = SubSeq(B, 1, n)
  <2> DEFINE x == SubSeq(B, 1, n)
  <2>1. x = [i \in 1..n |-> x[i]]
    BY <1>2, <1>6
  <2>2. \A i \in 1..n : x[i] = b(i)
    BY <1>1, <1>2, <1>4, <1>6 DEF m
  <2> QED BY <1>3, <2>1, <2>2
<1> QED BY <1>1, <1>2, <1>5, <1>6, <1>7 DEF c, B, m, n

(* n bytes of the sector with number k, from the one with number a on.        *)
InStretch(dk, c, k, a, n) ==
  LET at == k * SECTOR + a
  IN  /\ at \in Nat /\ at + n <= Len(Bytes(dk, c))
      /\ SubSeq(Bytes(dk, c), at + 1, at + n) = BytesOf(ChainSectors(dk, c)[k + 1], a, n)
LEMMA SectorIsStretch ==
  ASSUME NEW dk, CardSet(dk), WellLaid(dk), NEW c \in Nat, NEW k \in Nat, k < Len(ChainSectors(dk, c)),
         NEW a \in 0..(SECTOR - 1), NEW n \in 0..(SECTOR - a)
  PROVE  InStretch(dk, c, k, a, n)
<1> DEFINE B == Bytes(dk, c)
           p == k * SECTOR + a
           m == Len(ChainSectors(dk, c))
           from == ChainSectors(dk, c)[k + 1]
<1>0. SECTOR \in Nat \ {0} /\ m \in Nat /\ n \in Nat /\ a \in Nat
  BY FatAssumption, SectorsSpec
<1>1. B \in Seq(Range(B)) /\ Len(B) = m * SECTOR /\ Len(B) \in Nat
  BY BytesSpec
<1>2. p \in Nat /\ p + n <= Len(B)
  <2>1. k * SECTOR + SECTOR <= m * SECTOR
    <3>1. k * SECTOR + (SECTOR - 1) < m * SECTOR
      <4>1. SECTOR - 1 \in 0..(SECTOR - 1) /\ k < m
        BY <1>0
      <4> HIDE DEF m
      <4> QED BY <1>0, <4>1, Ahead
    <3>2. k * SECTOR \in Nat /\ m * SECTOR \in Nat
      BY <1>0
    <3> QED BY <1>0, <3>1, <3>2
  <2>2. k * SECTOR \in Nat
    BY <1>0
  <2> QED BY <1>0, <1>1, <2>1, <2>2
<1>3. \A i \in 1..n : p + i \in 1..Len(B) /\ B[p + i] = <<from, a + i - 1>>
  <2> TAKE i \in 1..n
  <2>1. p + i \in 1..Len(B)
    BY <1>1, <1>2, <1>0
  <2>2. a + i - 1 \in 0..(SECTOR - 1)
    BY <1>0
  <2>3. (p + i) - 1 = k * SECTOR + (a + i - 1)
    BY <1>0
  <2>4. ((p + i) - 1) \div SECTOR = k /\ ((p + i) - 1) % SECTOR = a + i - 1
    <3> DEFINE s == a + i - 1
    <3>1. s \in 0..(SECTOR - 1) /\ (p + i) - 1 = k * SECTOR + s
      BY <2>2, <2>3
    <3> HIDE DEF s, p
    <3>2. (k * SECTOR + s) \div SECTOR = k /\ (k * SECTOR + s) % SECTOR = s
      BY <1>0, <3>1, DivModOf
    <3> QED BY <3>1, <3>2 DEF s
  <2>5. B[p + i] = <<ChainSectors(dk, c)[1 + (((p + i) - 1) \div SECTOR)], ((p + i) - 1) % SECTOR>>
    <3>1. p + i \in 1..(m * SECTOR)
      BY <1>1, <2>1
    <3> HIDE DEF p
    <3> QED BY <3>1 DEF Bytes
  <2>6. 1 + k = k + 1
    OBVIOUS
  <2> QED BY <2>1, <2>4, <2>5, <2>6
<1>4. SubSeq(B, p + 1, p + n) = BytesOf(from, a, n)
  <2> HIDE DEF B, p, m, from
  <2>1. p + n \in Nat /\ p <= p + n /\ (p + n) - p = n
    BY <1>0, <1>2
  <2>2. /\ SubSeq(B, p + 1, p + n) \in Seq(Range(B)) /\ Len(SubSeq(B, p + 1, p + n)) = n
        /\ \A i \in 1..n : SubSeq(B, p + 1, p + n)[i] = B[p + i]
    <3> DEFINE q == p + n
    <3>1. q \in Nat /\ p <= q /\ q <= Len(B) /\ q - p = n
      BY <1>2, <2>1
    <3> HIDE DEF q
    <3>2. /\ SubSeq(B, p + 1, q) \in Seq(Range(B)) /\ Len(SubSeq(B, p + 1, q)) = q - p
          /\ \A i \in 1..(q - p) : SubSeq(B, p + 1, q)[i] = B[p + i]
      BY <1>1, <1>2, <3>1, Stretch
    <3> QED BY <3>1, <3>2 DEF q
  <2> DEFINE x == SubSeq(B, p + 1, p + n)
  <2>3. x = [i \in 1..n |-> x[i]]
    BY <1>0, <2>2
  <2>4. \A i \in 1..n : x[i] = <<from, a + i - 1>>
    BY <1>3, <2>2
  <2> QED BY <2>3, <2>4 DEF BytesOf
<1> QED BY <1>2, <1>4 DEF B, p, from, InStretch
----------------------------------------------------------------------------
(* The list, once the loop that reads a chain is over.                        *)
LEMMA ListDone ==
  ASSUME TypeInv, WellLaid(disk), NEW c \in Nat, Followed(c), ~ChainGoesOn
  PROVE  /\ ll = UpTo(LLSZ, Chain(disk, c)) /\ (ChainOverflow <=> Len(Chain(disk, c)) > LLSZ)
         /\ ~ChainOverflow => ll = Chain(disk, c)
<1> DEFINE C == Chain(disk, c)
           f == Follow(disk, c)
           n == Len(ll)
           m == Len(C)
<1>1. /\ CardSet(disk) /\ ll \in Seq(Nat) /\ n \in Nat /\ n <= LLSZ
      /\ LLSZ \in Nat /\ EPF * LayoutOf(disk).spf \in Nat /\ LLSZ < EPF * LayoutOf(disk).spf
  BY ListsAreShort DEF TypeInv, CardType, CardSet, LoopType
<1>2. /\ m \in Nat /\ DOMAIN C = 1..m /\ \A i \in 1..m : C[i] = f[i - 1] /\ InChain(C[i])
      /\ m < EPF * LayoutOf(disk).spf => ~InChain(f[m])
  BY <1>1, ChainSpec DEF ChainEnds
<1>3. (\A i \in 1..n : ll[i] = f[i - 1] /\ InChain(ll[i])) /\ next = f[n]
  BY DEF Followed
<1>4. C = [i \in 1..m |-> C[i]]
  BY <1>2 DEF Chain
<1>5. ChainOverflow <=> InChain(next)
  BY DEF ChainOverflow
<1>6. InChain(next) => n = LLSZ
  BY <1>1 DEF ChainGoesOn
<1> HIDE DEF C, f, n, m
<1>7. n <= m
  <2> SUFFICES ASSUME m < n PROVE FALSE
    BY <1>1, <1>2
  <2>1. m + 1 \in 1..n /\ (m + 1) - 1 = m /\ m < EPF * LayoutOf(disk).spf
    BY <1>1, <1>2
  <2> QED BY <1>2, <1>3, <2>1
<1>8. \A i \in 1..n : ll[i] = C[i]
  <2> TAKE i \in 1..n
  <2>1. i \in 1..m
    BY <1>1, <1>2, <1>7
  <2> QED BY <1>2, <1>3, <2>1
<1>9. m > n <=> InChain(next)
  <2>1. CASE m > n
    <3>1. n + 1 \in 1..m /\ (n + 1) - 1 = n
      BY <1>1, <1>2, <2>1
    <3> QED BY <1>2, <1>3, <2>1, <3>1
  <2>2. CASE m = n
    <3>1. m < EPF * LayoutOf(disk).spf
      BY <1>1, <2>2
    <3> QED BY <1>2, <1>3, <2>2, <3>1
  <2> QED BY <1>1, <1>2, <1>7, <2>1, <2>2
<1>10. m = n \/ (m > n /\ n = LLSZ)
  BY <1>1, <1>2, <1>6, <1>7, <1>9
<1>11. C \in Seq(Range(C)) /\ Len(C) = m
  <2>1. C \in [1..m -> Range(C)]
    BY <1>4 DEF Range
  <2> QED BY <1>2, <2>1 DEF m
<1>12. Smaller(LLSZ, m) = n
  BY <1>1, <1>2, <1>10 DEF Smaller
<1>13. SubSeq(C, 1, n) = ll
  <2>1. n \in Nat /\ 0 \in Nat /\ 0 <= n /\ n <= Len(C) /\ 0 + 1 = 1 /\ n - 0 = n
    BY <1>1, <1>7, <1>11
  <2>2. /\ SubSeq(C, 0 + 1, n) \in Seq(Range(C)) /\ Len(SubSeq(C, 0 + 1, n)) = n - 0
        /\ \A i \in 1..(n - 0) : SubSeq(C, 0 + 1, n)[i] = C[0 + i]
    BY <1>11, <2>1, Stretch
  <2> DEFINE x == SubSeq(C, 1, n)
  <2>3. x \in Seq(Range(C)) /\ Len(x) = n /\ \A i \in 1..n : x[i] = C[i]
    <3>1. \A i \in 1..n : 0 + i = i
      OBVIOUS
    <3> QED BY <2>1, <2>2, <3>1
  <2> HIDE DEF x
  <2>4. x = [i \in 1..n |-> x[i]] /\ ll = [i \in 1..n |-> ll[i]]
    BY <1>1, <2>3 DEF n
  <2> QED BY <1>8, <2>3, <2>4 DEF x
<1>14. ll = UpTo(LLSZ, C)
  BY <1>11, <1>12, <1>13 DEF UpTo
<1>15. m > LLSZ <=> m > n
  BY <1>1, <1>2, <1>10
<1>16. m = n => ll = C
  <2>1. ll = [i \in 1..n |-> ll[i]]
    BY <1>1 DEF n
  <2> QED BY <1>4, <1>8, <2>1
<1> QED BY <1>5, <1>9, <1>10, <1>14, <1>15, <1>16 DEF C, m

(* A list that is not cut is the chain.                                       *)
LEMMA WholeList ==
  ASSUME NEW dk, CardSet(dk), WellLaid(dk), NEW c \in Nat, Len(Chain(dk, c)) <= LLSZ
  PROVE  UpTo(LLSZ, Chain(dk, c)) = Chain(dk, c)
<1> DEFINE C == Chain(dk, c)
           m == Len(C)
<1>1. m \in Nat /\ C = [i \in 1..m |-> C[i]] /\ LLSZ \in Nat
  <2>1. m \in Nat /\ DOMAIN C = 1..m
    BY ChainSpec
  <2> QED BY <2>1, DiskAssumption DEF Chain
<1> HIDE DEF C
<1>2. C \in Seq(Range(C))
  BY <1>1 DEF Range
<1>3. Smaller(LLSZ, m) = m
  BY <1>1 DEF Smaller, C
<1>4. SubSeq(C, 1, m) = C
  BY <1>2
<1> QED BY <1>3, <1>4 DEF UpTo, C

----------------------------------------------------------------------------
(* A handle is right when its entry is on the card, its list is the chain of  *)
(* the entry, and its place is inside the file.                               *)
FileOn(tr, slot) == slot.t = "file" /\ \E e \in tr : e.slot = slot
Matches(dk, tr, h) ==
  /\ FileOn(tr, h.file)
  /\ h.clusters = UpTo(LLSZ, Chain(dk, h.file.cluster))
  /\ h.overflow = (Len(Chain(dk, h.file.cluster)) > LLSZ)
  /\ h.offset <= Len(FileBytes(dk, h.file))

(* Files lie in F, so that nothing that is written changes their chains.      *)
LEMMA FileLies ==
  ASSUME TypeInv, NEW D, NEW F, VolInv(D, F), NEW slot, FileOn(tree, slot)
  PROVE  slot.cluster \in F \cup {0} /\ slot.cluster \in Nat /\ slot.size \in Nat
<1>1. /\ tree = Tree(disk) /\ CardSet(disk) /\ WellLaid(disk) /\ Consistent(disk, D, F)
  BY DEF VolInv, CardInv, TypeInv, CardType, CardSet
<1>2. PICK e \in tree : e.slot = slot
  BY DEF FileOn
<1>3. slot \in FolderSlots(disk, D) /\ IsEntry(slot) /\ LeadsTo(slot, D, F)
  BY <1>1, <1>2, TreeStays
<1>4. slot.cluster \in F \cup {0}
  BY <1>3 DEF LeadsTo, FileOn
<1>5. slot \in SlotSet
  <2>1. PICK c \in D, s \in 0..(LayoutOf(disk).spc - 1), i \in 1..SLOTS : slot = SlotAt(disk, c, s, i)
    BY <1>3, InFolderSlots
  <2>2. Slots(Fetch(disk, DataLba(LayoutOf(disk), c, s))) \in SlotSeq
    BY <1>1, FetchType
  <2> QED BY <2>1, <2>2 DEF SlotAt, SlotSeq
<1> QED BY <1>4, <1>5 DEF SlotSet

LEMMA FilesStay ==
  ASSUME NoYes, TypeInv, NEW D, NEW F, VolInv(D, F), [NextP]_<<vars, tree>>, NEW slot, FileOn(tree, slot)
  PROVE  /\ FileOn(tree', slot)
         /\ Chain(disk', slot.cluster) = Chain(disk, slot.cluster)
         /\ FileBytes(disk', slot) = FileBytes(disk, slot)
<1>1. CardSet(disk) /\ WellLaid(disk) /\ Consistent(disk, D, F)
  BY DEF VolInv, CardInv, TypeInv, CardType, CardSet
<1>2. slot.cluster \in F \cup {0}
  BY FileLies
<1>3. tree \subseteq tree'
  BY NamesGrow
<1>4. disk' = disk \/ Harmless(disk, disk', D, F)
  BY VolStep
<1>5. CASE disk' = disk
  BY <1>3, <1>5 DEF FileOn
<1>6. CASE Harmless(disk, disk', D, F)
  BY <1>1, <1>2, <1>3, <1>6, ChainsStay, FilesSame DEF FileOn
<1> QED BY <1>4, <1>5, <1>6

LEMMA MatchStays ==
  ASSUME NoYes, TypeInv, NEW D, NEW F, VolInv(D, F), [NextP]_<<vars, tree>>, NEW h, Matches(disk, tree, h)
  PROVE  Matches(disk', tree', h)
BY FilesStay DEF Matches
----------------------------------------------------------------------------
(* The invariant: whose descriptor and size the routine in progress holds,    *)
(* what the open handles are worth, how far a chain has been followed for an  *)
(* open or a load, and what a read or a load has copied.                      *)
FdInv ==
  /\ job.fd # -1 => pc = "reading" \/ (pc = "chain" /\ job.op = "open")
  /\ job.want # 0 => pc = "reading" \/ (pc \in {"chain", "loading"} /\ job.op = "load")
HandlesInv ==
  \A fd \in Fds : handles[fd].inUse /\ (job.fd # fd \/ pc = "reading") => Matches(disk, tree, handles[fd])
Opening(h) == FileOn(tree, h.file) /\ h.offset = 0 /\ Followed(h.file.cluster)
Sought(slot) == slot.size + 1 = job.want /\ Followed(slot.cluster)
ChainInv ==
  /\ pc = "chain" /\ job.fd # -1 => Opening(handles[job.fd])
  /\ pc = "chain" /\ job.want # 0 => \E e \in Wanted : Sought(e.slot)
  /\ pc \in {"chain", "scan", "search", "paging"} => mem = <<>>
Reading(h) ==
  /\ h.inUse /\ ~h.overflow /\ h.offset + job.want <= h.file.size
  /\ Len(mem) \in 0..h.offset
  /\ mem = SubSeq(FileBytes(disk, h.file), h.offset - Len(mem) + 1, h.offset)
NumberOf(cluster, sector) == (cluster - 1) * LayoutOf(disk).spc + sector
Loaded(slot) ==
  /\ slot.size + 1 = job.want /\ ll = Chain(disk, slot.cluster)
  /\ ctr \in Nat \ {0} /\ sec \in 0..(LayoutOf(disk).spc - 1)
  /\ Len(ll) < LLSZ /\ ctr > Len(ll) => ctr = Len(ll) + 1 /\ sec = 0
  /\ (\E S : mem \in Seq(S)) /\ Len(mem) = NumberOf(ctr, sec) * SECTOR
  /\ Len(mem) < slot.size + SECTOR
  /\ \A i \in 1..Len(mem) : i <= Len(Bytes(disk, slot.cluster)) => mem[i] = Bytes(disk, slot.cluster)[i]
CopyInv ==
  /\ pc = "reading" => Reading(handles[job.fd])
  /\ pc = "loading" => \E e \in Wanted : Loaded(e.slot)
FilesInv == FdInv /\ HandlesInv /\ ChainInv /\ CopyInv

LEMMA NoFd == -1 \notin Fds /\ Fds \subseteq Nat
BY DEF Fds

LEMMA OneHandle ==
  ASSUME NoYes, TypeInv, NEW D, NEW F, VolInv(D, F), [NextP]_<<vars, tree>>, FilesInv,
         NEW fd \in Fds, \A g \in Fds : g # fd => handles'[g] = handles[g],
         job.fd \in {-1, fd} \/ pc = "reading",
         handles'[fd].inUse /\ (job'.fd # fd \/ pc' = "reading") => Matches(disk', tree', handles'[fd])
  PROVE  HandlesInv'
<1> SUFFICES ASSUME NEW g \in Fds, handles'[g].inUse, job'.fd # g \/ pc' = "reading"
             PROVE  Matches(disk', tree', handles'[g])
  BY DEF HandlesInv
<1>1. CASE g = fd
  BY <1>1
<1>2. CASE g # fd
  <2>1. handles'[g] = handles[g] /\ (job.fd # g \/ pc = "reading")
    BY <1>2, NoFd
  <2>2. Matches(disk, tree, handles[g])
    BY <2>1 DEF FilesInv, HandlesInv
  <2> QED BY <2>1, <2>2, MatchStays
<1> QED BY <1>1, <1>2

LEMMA SameHandles ==
  ASSUME NoYes, TypeInv, NEW D, NEW F, VolInv(D, F), [NextP]_<<vars, tree>>, FilesInv,
         handles' = handles, job.fd = -1 \/ pc = "reading" \/ (job'.fd = job.fd /\ pc' # "reading")
  PROVE  HandlesInv'
<1> SUFFICES ASSUME NEW g \in Fds, handles[g].inUse, job'.fd # g \/ pc' = "reading"
             PROVE  Matches(disk', tree', handles[g])
  BY DEF HandlesInv
<1>1. Matches(disk, tree, handles[g])
  BY NoFd DEF FilesInv, HandlesInv
<1> QED BY <1>1, MatchStays

(* Steps of routines that neither open, read nor load anything.               *)
LEMMA Quiet ==
  ASSUME NoYes, TypeInv, NEW D, NEW F, VolInv(D, F), [NextP]_<<vars, tree>>, FilesInv,
         handles' = handles, job.fd = -1 \/ pc = "reading", job'.fd = -1, job'.want = 0,
         pc' \notin {"reading", "loading"}, pc' \in {"chain", "scan", "search", "paging"} => mem' = <<>>
  PROVE  FilesInv'
<1>1. HandlesInv'
  BY SameHandles
<1> QED BY <1>1 DEF FilesInv, FdInv, ChainInv, CopyInv

LEMMA QuietEnd ==
  ASSUME NoYes, TypeInv, NEW D, NEW F, VolInv(D, F), [NextP]_<<vars, tree>>, FilesInv,
         handles' = handles, job.fd = -1 \/ pc = "reading", NEW v, Return(v)
  PROVE  FilesInv'
<1>1. job'.fd = -1 /\ job'.want = 0 /\ pc' = "prompt"
  BY NoJobType DEF Return
<1> QED BY <1>1, Quiet

LEMMA QuietSteps ==
  ASSUME NoYes, TypeInv, NEW D, NEW F, VolInv(D, F), [NextP]_<<vars, tree>>, FilesInv,
         \/ Mount \/ FindFreeCluster \/ ReadFatSector \/ WriteFatSector \/ MirrorFatSector \/ ClearCluster
         \/ ReadFolderSector \/ WriteFolderSector
  PROVE  FilesInv'
<1>1. /\ pc \in {"boot", "mbr", "bpb", "label", "findfree", "fatread", "fatwrite", "mirror", "clear", "slotread", "slotwrite"}
      /\ handles' = handles
  BY DEF Mount, BootSd, ReadMbr, ReadPartition, ReadLabel, FindFreeCluster, ReadFatSector, WriteFatSector,
         MirrorFatSector, ClearCluster, ReadFolderSector, WriteFolderSector
<1>2. job.fd = -1 /\ job.want = 0
  BY <1>1 DEF FilesInv, FdInv
<1>3. \/ \E v : Return(v)
      \/ /\ job' = job
         /\ pc' \in {"boot", "mbr", "bpb", "label", "halted", "prompt", "fatread", "fatwrite", "mirror", "clear",
                     "slotread", "slotwrite"}
  <2>1. CASE Mount
    BY <2>1 DEF Mount, BootSd, ReadMbr, ReadPartition, ReadLabel, Mounting
  <2>2. CASE FindFreeCluster \/ ReadFatSector \/ WriteFatSector \/ MirrorFatSector
    BY <2>2 DEF FindFreeCluster, ReadFatSector, WriteFatSector, MirrorFatSector, FailOnWrite
  <2>3. CASE ClearCluster
    BY <1>1, <2>3 DEF ClearCluster, FailOnWrite
  <2>4. CASE ReadFolderSector \/ WriteFolderSector
    BY <2>4 DEF ReadFolderSector, WriteFolderSector, FailOnWrite
  <2> QED BY <2>1, <2>2, <2>3, <2>4
<1>4. CASE \E v : Return(v)
  BY <1>1, <1>2, <1>4, QuietEnd
<1>5. CASE ~\E v : Return(v)
  BY <1>1, <1>2, <1>3, <1>5, Quiet
<1> QED BY <1>4, <1>5

(* The calls.                                                                 *)
LEMMA ShowKeeps ==
  ASSUME NoYes, TypeInv, NEW D, NEW F, VolInv(D, F), [NextP]_<<vars, tree>>, FilesInv, handles' = handles,
         NEW op, NEW v, NEW text, Show(op, v, text)
  PROVE  FilesInv'
<1>1. pc = "prompt" /\ pc' = "prompt" /\ job' = job
  BY DEF Show
<1>2. job.fd = -1 /\ job.want = 0
  BY <1>1 DEF FilesInv, FdInv
<1> QED BY <1>1, <1>2, Quiet

LEMMA BeginKeeps ==
  ASSUME NoYes, TypeInv, NEW D, NEW F, VolInv(D, F), [NextP]_<<vars, tree>>, FilesInv, handles' = handles,
         NEW op, NEW nm, NEW at \in {"chain", "findfree", "slotread"}, Begin(op, nm, at)
  PROVE  FilesInv'
<1>1. pc = "prompt" /\ pc' = at /\ mem' = <<>>
  BY DEF Begin
<1>2. job'.fd = -1 /\ job'.want = 0
  BY DEF Begin, NoJob
<1>3. job.fd = -1
  BY <1>1 DEF FilesInv, FdInv
<1> QED BY <1>1, <1>2, <1>3, Quiet

LEMMA CloseKeeps ==
  ASSUME NoYes, TypeInv, NEW D, NEW F, VolInv(D, F), [NextP]_<<vars, tree>>, FilesInv, NEW fd \in Fds, Close(fd)
  PROVE  FilesInv'
<1>1. pc = "prompt" /\ pc' = "prompt" /\ job' = job
  BY DEF Close, Immediate, Show
<1>2. job.fd = -1 /\ job.want = 0
  BY <1>1 DEF FilesInv, FdInv
<1>3. ~handles'[fd].inUse /\ \A g \in Fds : g # fd => handles'[g] = handles[g]
  <2>1. handles \in [Fds -> HandleSet]
    BY DEF TypeInv, HandleType
  <2>2. handles' = [handles EXCEPT ![fd] = [handles[fd] EXCEPT !.inUse = FALSE, !.offset = 0,
                                             !.clusters = <<>>, !.overflow = FALSE]]
    BY <2>1 DEF Close
  <2> QED BY <2>1, <2>2 DEF HandleSet
<1>4. HandlesInv'
  BY <1>2, <1>3, OneHandle
<1> QED BY <1>1, <1>2, <1>4 DEF FilesInv, FdInv, ChainInv, CopyInv

LEMMA ReadBegins ==
  ASSUME NoYes, TypeInv, NEW D, NEW F, VolInv(D, F), [NextP]_<<vars, tree>>, FilesInv,
         NEW fd \in Fds, NEW len \in ReadLens, Read(fd, len)
  PROVE  FilesInv'
<1> DEFINE h == handles[fd]
<1>1. CASE Immediate("read", 0)
  BY <1>1, ShowKeeps DEF Read, Immediate
<1>2. CASE ~Immediate("read", 0)
  <2>1. /\ len # 0 /\ h.inUse /\ ~h.overflow /\ ~(Left(fd) <= 0)
        /\ pc = "prompt" /\ pc' = "reading" /\ mem' = <<>> /\ handles' = handles /\ disk' = disk
        /\ job' = [op |-> "read", name |-> NoName, fd |-> fd, want |-> Smaller(Left(fd), len)]
    BY <1>2 DEF Read, sdVars
  <2>2. job.fd = -1
    BY <2>1 DEF FilesInv, FdInv
  <2>3. h \in HandleSet /\ h.offset \in Nat /\ h.file.size \in Nat /\ len \in Nat
    BY FatAssumption DEF TypeInv, HandleType, HandleSet, SlotSet
  <2>4. job'.fd = fd /\ job'.want = Smaller(Left(fd), len) /\ fd # -1
    BY <2>1, NoFd
  <2>5. h.offset + job'.want <= h.file.size
    BY <2>1, <2>3, <2>4 DEF Smaller, Left
  <2>6. HandlesInv'
    BY <2>1, <2>2, SameHandles
  <2>7. Reading(h)'
    <3>1. Matches(disk, tree, h)
      BY <2>1, <2>2, NoFd DEF FilesInv, HandlesInv
    <3>2. Len(mem') = 0 /\ h.offset - 0 + 1 = h.offset + 1 /\ h' = h
      BY <2>1, <2>3
    <3>3. SubSeq(FileBytes(disk, h.file), h.offset + 1, h.offset) = <<>>
      <4> DEFINE B == FileBytes(disk, h.file)
                 n == h.offset
      <4>1. FileOn(tree, h.file) /\ n <= Len(B) /\ n \in Nat
        BY <2>3, <3>1 DEF Matches
      <4>2. CardSet(disk) /\ WellLaid(disk) /\ h.file.cluster \in Nat /\ h.file.size \in Nat
        BY <4>1, FileLies DEF TypeInv, CardType, CardSet, VolInv, CardInv
      <4>3. B \in Seq(Range(Bytes(disk, h.file.cluster)))
        BY <4>2, FileIsStretch
      <4> HIDE DEF B, n
      <4>4. SubSeq(B, n + 1, n) \in Seq(Range(Bytes(disk, h.file.cluster))) /\ Len(SubSeq(B, n + 1, n)) = n - n
        BY <4>1, <4>3, Stretch
      <4> QED BY <4>1, <4>4 DEF B, n
    <3> QED BY <2>1, <2>3, <2>5, <3>2, <3>3 DEF Reading
  <2>8. CopyInv' /\ FdInv' /\ ChainInv'
    BY <2>1, <2>4, <2>7 DEF CopyInv, FdInv, ChainInv
  <2> QED BY <2>6, <2>8 DEF FilesInv
<1> QED BY <1>1, <1>2

LEMMA CallKeeps ==
  ASSUME NoYes, TypeInv, NEW D, NEW F, VolInv(D, F), [NextP]_<<vars, tree>>, FilesInv, Call
  PROVE  FilesInv'
<1>1. ASSUME NEW op, NEW nm, ReadDir(op, nm) PROVE FilesInv'
  BY <1>1, BeginKeeps DEF ReadDir
<1>2. CASE ChdirRoot \/ ChdirUp \/ ListDir \/ Getcwd \/ PrintPartitionInfo
  BY <1>1, <1>2, ShowKeeps DEF ChdirRoot, ChdirUp, ListDir, Getcwd, PrintPartitionInfo, Immediate
<1>3. ASSUME NEW arg \in ChdirArgs \cup OpenArgs \cup LoadArgs, ChdirName(arg) \/ Open(arg) \/ LoadFile(arg) PROVE FilesInv'
  BY <1>1, <1>3, ShowKeeps DEF ChdirName, Open, LoadFile, Immediate
<1>4. ASSUME NEW arg \in MkdirArgs \cup TouchArgs, Mkdir(arg) \/ Touch(arg) PROVE FilesInv'
  BY <1>4, ShowKeeps, BeginKeeps DEF Mkdir, Touch, Immediate
<1>5. ASSUME NEW fd \in Fds, Close(fd) \/ \E len \in ReadLens : Read(fd, len) PROVE FilesInv'
  BY <1>5, CloseKeeps, ReadBegins
<1> QED BY <1>2, <1>3, <1>4, <1>5 DEF Call

(* A chain of a file, read one cluster further, given up or read to its end.  *)
LEMMA SameTree == ASSUME [NextP]_<<vars, tree>>, disk' = disk PROVE tree' = tree
BY DEF NextP, vars, sdVars

LEMMA GivenUp ==
  ASSUME NoYes, TypeInv, NEW D, NEW F, VolInv(D, F), [NextP]_<<vars, tree>>, FilesInv,
         pc = "chain", Abandon, NEW v, Return(v)
  PROVE  FilesInv'
<1>1. job'.fd = -1 /\ job'.want = 0 /\ pc' = "prompt"
  BY NoJobType DEF Return
<1>2. CASE job.fd = -1
  BY <1>1, <1>2, QuietEnd DEF Abandon
<1>3. CASE job.fd # -1
  <2>1. job.op = "open" /\ job.fd \in Fds /\ job.fd >= 0
    BY <1>3, NoFd DEF FilesInv, FdInv, TypeInv, JobType
  <2>2. handles' = [handles EXCEPT ![job.fd] = [handles[job.fd] EXCEPT !.inUse = FALSE]]
    BY <2>1 DEF Abandon
  <2>3. handles \in [Fds -> HandleSet]
    BY DEF TypeInv, HandleType
  <2>4. ~handles'[job.fd].inUse /\ \A g \in Fds : g # job.fd => handles'[g] = handles[g]
    BY <2>1, <2>2, <2>3 DEF HandleSet
  <2>5. HandlesInv'
    BY <2>1, <2>4, OneHandle
  <2> QED BY <1>1, <2>5 DEF FilesInv, FdInv, ChainInv, CopyInv
<1> QED BY <1>2, <1>3

LEMMA ChainNext ==
  ASSUME NEW dk, CardSet(dk), NEW X, ChainClosed(dk, X), NEW c \in Nat, c \in X \cup {0},
         NEW m \in Nat, InChain(Follow(dk, c)[m])
  PROVE  Follow(dk, c)[m] \in X
<1> DEFINE f == Follow(dk, c)
           T == {n \in Nat : InChain(f[n]) => f[n] \in X}
<1>1. f[0] = c /\ \A n \in Nat : f[n + 1] = IF InChain(f[n]) THEN FatEntry(dk, f[n]) ELSE 0
  BY FollowSpec
<1> HIDE DEF f
<1>2. 0 \in T
  BY <1>1 DEF InChain
<1>3. ASSUME NEW n \in T PROVE n + 1 \in T
  <2>1. n \in Nat /\ n + 1 \in Nat /\ (InChain(f[n]) => f[n] \in X)
    BY <1>3
  <2>2. f[n + 1] = IF InChain(f[n]) THEN FatEntry(dk, f[n]) ELSE 0
    BY <1>1, <2>1
  <2>3. CASE InChain(f[n])
    BY <2>1, <2>2, <2>3 DEF ChainClosed
  <2>4. CASE ~InChain(f[n])
    BY <2>1, <2>2, <2>4 DEF InChain
  <2> QED BY <2>3, <2>4
<1>4. \A n \in Nat : n \in T
  <2> HIDE DEF T
  <2> QED BY <1>2, <1>3, Induction, T \subseteq Nat DEF T
<1> QED BY <1>4 DEF f

LEMMA FollowKeeps ==
  ASSUME NoYes, TypeInv, NEW D, NEW F, VolInv(D, F), [NextP]_<<vars, tree>>, FilesInv, FollowChain
  PROVE  FilesInv'
<1>1. CASE ChainRefused
  BY <1>1, GivenUp DEF FollowChain, ChainRefused
<1>2. CASE ReadSector(FatLba(part, next)) /\ ~ChainRefused
  <2>1. /\ pc = "chain" /\ pc' = "chain" /\ InChain(next) /\ job' = job /\ handles' = handles /\ cur' = cur
        /\ mem' = mem /\ ll' = Append(ll, next) /\ next' = FatItem(sdbuf', next % EPF)
    BY <1>2 DEF FollowChain, ChainGoesOn, dirVars
  <2>2. ASSUME NEW c \in Nat, c \in F \cup {0}, Followed(c) PROVE Followed(c)'
    <3>1. CardSet(disk) /\ ChainClosed(disk, F) /\ Len(ll) \in Nat
      BY DEF VolInv, CardInv, Consistent, TypeInv, CardType, CardSet, LoopType
    <3>2. next = Follow(disk, c)[Len(ll)]
      BY <2>2 DEF Followed
    <3>3. next \in F
      BY <2>1, <2>2, <3>1, <3>2, ChainNext
    <3> QED BY <1>2, <2>1, <2>2, <3>3, ListFollows DEF Mounted
  <2>3. disk' = disk /\ tree' = tree
    <3>1. ignoreCrc = FALSE
      BY DEF VolInv, CardInv
    <3> QED BY <1>2, <3>1, GoodRead, SameTree
  <2>4. HandlesInv'
    <3>1. job.fd # -1 => job'.fd = job.fd /\ pc' # "reading"
      BY <2>1
    <3> QED BY <2>1, <3>1, SameHandles
  <2>5. job.fd # -1 => Opening(handles[job.fd])'
    <3> SUFFICES ASSUME job.fd # -1 PROVE Opening(handles[job.fd])'
      OBVIOUS
    <3> DEFINE h == handles[job.fd]
               c == h.file.cluster
    <3>1. FileOn(tree, h.file) /\ h.offset = 0 /\ Followed(c)
      BY <2>1 DEF FilesInv, ChainInv, Opening
    <3>2. c \in Nat /\ c \in F \cup {0} /\ h' = h
      BY <2>1, <3>1, FileLies
    <3>3. Followed(c)'
      <4>1. c' = c
        BY <3>2
      <4> HIDE DEF c
      <4> QED BY <2>2, <3>1, <3>2, <4>1
    <3>4. FileOn(tree, h.file)'
      BY <2>3, <3>1, <3>2 DEF FileOn
    <3> QED BY <3>1, <3>2, <3>3, <3>4 DEF Opening
  <2>6. job.want # 0 => (\E e \in Wanted : Sought(e.slot))'
    <3> SUFFICES ASSUME job.want # 0 PROVE (\E e \in Wanted : Sought(e.slot))'
      OBVIOUS
    <3>1. PICK e \in Wanted : Sought(e.slot)
      BY <2>1 DEF FilesInv, ChainInv
    <3>2. FileOn(tree, e.slot) /\ Followed(e.slot.cluster)
      BY <3>1 DEF Wanted, FileOn, Sought
    <3>3. Followed(e.slot.cluster)'
      BY <2>2, <3>2, FileLies
    <3>4. Wanted' = Wanted
      BY <2>1, <2>3 DEF Wanted
    <3> QED BY <2>1, <3>1, <3>3, <3>4 DEF Sought
  <2> QED BY <2>1, <2>4, <2>5, <2>6 DEF FilesInv, FdInv, ChainInv, CopyInv
<1> QED BY <1>1, <1>2 DEF FollowChain

LEMMA DirKeeps ==
  ASSUME NoYes, TypeInv, NEW D, NEW F, VolInv(D, F), [NextP]_<<vars, tree>>, FilesInv,
         DirChainDone \/ ScanSector \/ FinishChdir \/ ListStep
  PROVE  FilesInv'
<1>1. job.fd = -1 /\ job.want = 0 /\ handles' = handles /\ mem' = mem /\ pc \in {"chain", "scan", "search", "paging"}
  BY NoFd, ListingSteps DEF FilesInv, FdInv, DirChainDone, IsFileChain, TypeInv, JobType,
              ScanSector, FinishChdir, dirVars
<1>2. mem = <<>>
  BY <1>1 DEF FilesInv, ChainInv
<1>3. (\E v : Return(v)) \/ (job' = job /\ pc' \in {"scan", "search", "paging"})
  <2>1. CASE DirChainDone
    BY <2>1 DEF DirChainDone
  <2>2. CASE ScanSector
    BY <2>2 DEF ScanSector
  <2>3. CASE FinishChdir \/ ListStep
    BY <2>3, ListingSteps DEF FinishChdir
  <2> QED BY <2>1, <2>2, <2>3
<1>4. CASE \E v : Return(v)
  BY <1>1, <1>4, QuietEnd
<1>5. CASE ~\E v : Return(v)
  BY <1>1, <1>2, <1>3, <1>5, Quiet
<1> QED BY <1>4, <1>5

(* A file that a search found, and the chain of it that is begun.             *)
LEMMA FoundFile ==
  ASSUME TypeInv, NEW D, NEW F, VolInv(D, F), PlaceInv, pc = "search", SearchDir("file") # 0
  PROVE  /\ files[SearchDir("file")] \in SlotSet /\ FileOn(tree, files[SearchDir("file")])
         /\ \E e \in Wanted : e.slot = files[SearchDir("file")]
<1> DEFINE at == SearchDir("file")
<1>1. /\ files[at].t = "file" /\ files[at].name = job.name /\ files[at] \in SlotSet
      /\ \E e \in tree : e.dir = cur.cluster /\ e.slot = files[at]
  BY FoundEntry
<1> HIDE DEF at
<1>2. PICK e \in tree : e.dir = cur.cluster /\ e.slot = files[at]
  BY <1>1
<1>3. e \in Wanted
  BY <1>1, <1>2 DEF Wanted
<1> QED BY <1>1, <1>2, <1>3 DEF FileOn, at

LEMMA OpenSearchKeeps ==
  ASSUME NoYes, TypeInv, NEW D, NEW F, VolInv(D, F), PlaceInv, [NextP]_<<vars, tree>>, FilesInv, FinishOpenSearch
  PROVE  FilesInv'
<1>1. pc = "search" /\ job.fd = -1 /\ job.want = 0 /\ disk' = disk /\ mem' = mem /\ mem = <<>>
  BY DEF FilesInv, FdInv, ChainInv, FinishOpenSearch, sdVars
<1>2. CASE SearchDir("file") = 0 \/ FreeFds = {}
  <2>1. Return(-1) /\ handles' = handles
    BY <1>2 DEF FinishOpenSearch
  <2> QED BY <1>1, <2>1, QuietEnd
<1>3. CASE SearchDir("file") # 0 /\ FreeFds # {}
  <2>1. PICK slot \in SlotSet : slot = files[SearchDir("file")] /\ FileOn(tree, slot)
    BY <1>1, <1>3, FoundFile
  <2>2. PICK fd \in Fds : fd = FirstOf(FreeFds)
    <3>1. FreeFds \in SUBSET Nat /\ FreeFds \subseteq Fds
      BY NoFd DEF FreeFds
    <3> QED BY <1>3, <3>1, FirstOfIn
  <2>3. /\ pc' = "chain" /\ StartChain(slot.cluster) /\ job' = [job EXCEPT !.fd = fd] /\ job.op = "open"
        /\ handles' = [handles EXCEPT ![fd] = [handles[fd] EXCEPT !.inUse = TRUE, !.file = slot, !.offset = 0]]
    BY <1>3, <2>1, <2>2 DEF FinishOpenSearch
  <2>4. Followed(slot.cluster)'
    BY <1>1, <2>1, <2>3, ListBegins DEF SlotSet, TypeInv, CardType, CardSet
  <2>5. handles \in [Fds -> HandleSet] /\ job = [op |-> job.op, name |-> job.name, fd |-> job.fd, want |-> job.want]
    BY DEF TypeInv, HandleType, JobType
  <2>6. handles'[fd].file = slot /\ handles'[fd].offset = 0 /\ \A g \in Fds : g # fd => handles'[g] = handles[g]
    BY <2>2, <2>3, <2>5 DEF HandleSet
  <2>7. job'.fd = fd /\ job'.want = 0 /\ job'.op = "open"
    <3> HIDE DEF NoJob
    <3> QED BY <1>1, <2>3, <2>5
  <2>8. HandlesInv'
    <3>1. job'.fd = fd /\ pc' # "reading"
      BY <2>3, <2>7
    <3> QED BY <1>1, <2>6, <3>1, OneHandle
  <2>9. tree' = tree
    BY <1>1, SameTree
  <2>10. Opening(handles[job.fd])'
    BY <2>1, <2>4, <2>6, <2>7, <2>9 DEF Opening, Followed
  <2> QED BY <1>1, <2>3, <2>7, <2>8, <2>10 DEF FilesInv, FdInv, ChainInv, CopyInv
<1> QED BY <1>2, <1>3

LEMMA LoadSearchKeeps ==
  ASSUME NoYes, TypeInv, NEW D, NEW F, VolInv(D, F), PlaceInv, [NextP]_<<vars, tree>>, FilesInv, FinishLoadSearch
  PROVE  FilesInv'
<1>1. /\ pc = "search" /\ job.fd = -1 /\ job.want = 0 /\ disk' = disk /\ mem' = mem /\ mem = <<>>
      /\ handles' = handles /\ cur' = cur
  BY DEF FilesInv, FdInv, ChainInv, FinishLoadSearch, sdVars, dirVars
<1>2. CASE ~Loadable(SearchDir("file"))
  <2>1. Return(ERR)
    BY <1>2 DEF FinishLoadSearch
  <2> QED BY <1>1, <2>1, QuietEnd
<1>3. CASE Loadable(SearchDir("file"))
  <2>1. SearchDir("file") # 0
    BY <1>3 DEF Loadable
  <2>2. PICK slot \in SlotSet : slot = files[SearchDir("file")] /\ \E e \in Wanted : e.slot = slot
    BY <1>1, <2>1, FoundFile
  <2>3. pc' = "chain" /\ StartChain(slot.cluster) /\ job' = [job EXCEPT !.want = slot.size + 1] /\ job.op = "load"
    BY <1>3, <2>2 DEF FinishLoadSearch
  <2>4. Followed(slot.cluster)'
    BY <1>1, <2>2, <2>3, ListBegins DEF SlotSet, TypeInv, CardType, CardSet
  <2>5. job = [op |-> job.op, name |-> job.name, fd |-> job.fd, want |-> job.want] /\ slot.size \in Nat
    BY DEF TypeInv, JobType, SlotSet
  <2>6. job'.fd = -1 /\ job'.want = slot.size + 1 /\ job'.op = "load" /\ job'.name = job.name
    BY <1>1, <2>3, <2>5
  <2>7. tree' = tree
    BY <1>1, SameTree
  <2>8. Wanted' = Wanted
    BY <1>1, <2>6, <2>7 DEF Wanted
  <2>9. (\E e \in Wanted : Sought(e.slot))'
    BY <2>2, <2>4, <2>6, <2>8 DEF Sought
  <2>10. HandlesInv'
    BY <1>1, SameHandles
  <2> QED BY <1>1, <2>3, <2>6, <2>9, <2>10 DEF FilesInv, FdInv, ChainInv, CopyInv
<1> QED BY <1>2, <1>3

(* The list of a file that is complete, or cut because it is too long.        *)
LEMMA OpenDoneKeeps ==
  ASSUME NoYes, TypeInv, NEW D, NEW F, VolInv(D, F), [NextP]_<<vars, tree>>, FilesInv, OpenChainDone
  PROVE  FilesInv'
<1>1. pc = "chain" /\ ~ChainGoesOn /\ IsFileChain /\ job.op = "open" /\ disk' = disk
  BY DEF OpenChainDone, sdVars
<1>2. job.fd \in Fds /\ job.want = 0 /\ job.fd # -1
  BY <1>1, NoFd DEF IsFileChain, FilesInv, FdInv, TypeInv, JobType
<1>3. CASE ll = <<>>
  <2>1. Abandon /\ Return(-1)
    BY <1>3 DEF OpenChainDone
  <2> QED BY <1>1, <2>1, GivenUp
<1>4. CASE ll # <<>>
  <2>1. /\ Return(job.fd)
        /\ handles' = [handles EXCEPT ![job.fd] = [handles[job.fd] EXCEPT !.clusters = ll, !.overflow = ChainOverflow]]
    BY <1>4 DEF OpenChainDone
  <2>2. pc' = "prompt" /\ job'.fd = -1 /\ job'.want = 0
    BY <2>1, NoJobType DEF Return
  <2>3. PICK h \in HandleSet : h = handles[job.fd] /\ Opening(h)
    BY <1>1, <1>2 DEF FilesInv, ChainInv, TypeInv, HandleType
  <2>4. handles \in [Fds -> HandleSet]
    BY DEF TypeInv, HandleType
  <2>5. /\ handles'[job.fd].file = h.file /\ handles'[job.fd].offset = 0
        /\ handles'[job.fd].clusters = ll /\ handles'[job.fd].overflow = ChainOverflow
        /\ \A g \in Fds : g # job.fd => handles'[g] = handles[g]
    BY <1>2, <2>1, <2>3, <2>4 DEF HandleSet, Opening
  <2>6. FileOn(tree, h.file) /\ Followed(h.file.cluster)
    BY <2>3 DEF Opening
  <2>7. h.file.cluster \in Nat /\ CardSet(disk) /\ WellLaid(disk) /\ h.file.size \in Nat
    BY <2>6, FileLies DEF VolInv, CardInv, TypeInv, CardType, CardSet
  <2>8. /\ ll = UpTo(LLSZ, Chain(disk, h.file.cluster))
        /\ ChainOverflow = (Len(Chain(disk, h.file.cluster)) > LLSZ)
    <3>1. ChainOverflow \in BOOLEAN
      BY DEF ChainOverflow, InChain
    <3> QED BY <1>1, <2>6, <2>7, <3>1, ListDone
  <2>9. 0 <= Len(FileBytes(disk, h.file))
    BY <2>7, FileIsStretch
  <2>10. tree' = tree
    BY <1>1, SameTree
  <2>11. Matches(disk', tree', handles'[job.fd])
    BY <1>1, <2>5, <2>6, <2>8, <2>9, <2>10 DEF Matches
  <2>12. HandlesInv'
    BY <1>2, <2>5, <2>11, OneHandle
  <2> QED BY <2>2, <2>12 DEF FilesInv, FdInv, ChainInv, CopyInv
<1> QED BY <1>3, <1>4

LEMMA LoadDoneKeeps ==
  ASSUME NoYes, TypeInv, NEW D, NEW F, VolInv(D, F), PlaceInv, [NextP]_<<vars, tree>>, FilesInv, LoadChainDone
  PROVE  FilesInv'
<1>1. /\ pc = "chain" /\ ~ChainGoesOn /\ IsFileChain /\ job.op = "load" /\ disk' = disk /\ handles' = handles
      /\ mem' = mem /\ mem = <<>> /\ cur' = cur
  BY DEF LoadChainDone, sdVars, dirVars, FilesInv, ChainInv
<1>2. job.fd = -1 /\ job.want # 0 /\ job.want \in Nat
  BY <1>1, NoFd DEF IsFileChain, FilesInv, FdInv, TypeInv, JobType
<1>3. CASE ChainOverflow
  <2>1. Return(ERR)
    BY <1>3 DEF LoadChainDone
  <2> QED BY <1>1, <1>2, <2>1, QuietEnd
<1>4. CASE ~ChainOverflow
  <2>1. pc' = "loading" /\ ctr' = 1 /\ sec' = 0 /\ job' = job /\ ll' = ll
    BY <1>4 DEF LoadChainDone
  <2>2. PICK e \in Wanted : Sought(e.slot)
    BY <1>1, <1>2 DEF FilesInv, ChainInv
  <2>3. FileOn(tree, e.slot) /\ Followed(e.slot.cluster)
    BY <2>2 DEF Wanted, FileOn, Sought
  <2>4. e.slot.cluster \in Nat /\ CardSet(disk) /\ WellLaid(disk) /\ e.slot.size \in Nat
    BY <2>3, FileLies DEF VolInv, CardInv, TypeInv, CardType, CardSet
  <2>5. ll = Chain(disk, e.slot.cluster)
    BY <1>1, <1>4, <2>3, <2>4, ListDone
  <2>6. tree' = tree
    BY <1>1, SameTree
  <2>7. Wanted' = Wanted
    BY <1>1, <2>1, <2>6 DEF Wanted
  <2>8. Loaded(e.slot)'
    <3>1. /\ Len(ll) \in Nat /\ LayoutOf(disk).spc \in Nat \ {0} /\ SECTOR \in Nat \ {0}
      BY <2>4, Places, FatAssumption DEF TypeInv, LoopType
    <3>2. mem \in Seq({}) /\ 1..0 = {}
      BY <1>1
    <3>4. Len(mem) = 0 /\ ((1 - 1) * LayoutOf(disk).spc + 0) * SECTOR = 0
      BY <1>1, <3>1
    <3>5. 0 < e.slot.size + SECTOR /\ (1 > Len(ll) => 1 = Len(ll) + 1) /\ 0 \in 0..(LayoutOf(disk).spc - 1)
      BY <2>4, <3>1
    <3>6. e.slot.size + 1 = job.want
      BY <2>2 DEF Sought
    <3> QED BY <1>1, <2>1, <2>5, <3>2, <3>4, <3>5, <3>6 DEF Loaded, NumberOf
  <2>9. HandlesInv'
    BY <1>1, <1>2, SameHandles
  <2> QED BY <1>1, <1>2, <2>1, <2>7, <2>8, <2>9 DEF FilesInv, FdInv, ChainInv, CopyInv
<1> QED BY <1>3, <1>4

(* A number, taken apart; a sector of a chain, fetched by its number; and     *)
(* bytes added to the ones that were copied of a file.                        *)
LEMMA DivParts ==
  ASSUME NEW x \in Nat, NEW k \in Nat \ {0}
  PROVE  /\ x \div k \in Nat /\ x % k \in 0..(k - 1) /\ x = (x \div k) * k + (x % k)
         /\ \A m \in Nat : x \div k < m => x < m * k
<1> DEFINE q == x \div k
           r == x % k
<1>1. q \in Nat /\ r \in 0..(k - 1) /\ x = k * q + r
  OBVIOUS
<1> HIDE DEF q, r
<1>2. k * q = q * k
  BY <1>1
<1>3. x = q * k + r
  BY <1>1, <1>2
<1>4. ASSUME NEW m \in Nat, q < m PROVE x < m * k
  BY <1>1, <1>3, <1>4, Ahead
<1>5. /\ q \in Nat /\ r \in 0..(k - 1) /\ x = q * k + r
      /\ \A m \in Nat : q < m => x < m * k
  BY <1>1, <1>3, <1>4
<1> QED BY <1>5 DEF q, r

LEMMA SectorRead ==
  ASSUME NoYes, TypeInv, NEW D, NEW F, VolInv(D, F), Mounted, NEW c \in Nat, NEW k \in Nat,
         k \div LayoutOf(disk).spc < Len(Chain(disk, c)),
         ReadSector(DataLba(part, Chain(disk, c)[(k \div LayoutOf(disk).spc) + 1], k % LayoutOf(disk).spc))
  PROVE  disk' = disk /\ k < Len(ChainSectors(disk, c)) /\ sdbuf' = ChainSectors(disk, c)[k + 1]
<1> DEFINE p == LayoutOf(disk).spc
           n == Len(Chain(disk, c))
           lba == DataLba(LayoutOf(disk), Chain(disk, c)[1 + (k \div p)], k % p)
<1>1. CardSet(disk) /\ WellLaid(disk) /\ Laid(part, LayoutOf(disk)) /\ ignoreCrc = FALSE
  BY DEF VolInv, CardInv, MountInv, TypeInv, CardType, CardSet
<1>2. p \in Nat \ {0} /\ n \in Nat
  BY <1>1, Places, ChainSpec
<1>3. k \div p \in Nat /\ k < n * p
  <2> HIDE DEF p, n
  <2>1. k \div p < n
    BY DEF p, n
  <2> QED BY <1>2, <2>1, DivParts
<1>4. Len(ChainSectors(disk, c)) = n * p /\ n * p \in Nat
  BY <1>1, SectorsSpec
<1>5. k + 1 \in 1..Len(ChainSectors(disk, c))
  <2> DEFINE m == n * p
  <2>1. k < m /\ m \in Nat /\ Len(ChainSectors(disk, c)) = m
    BY <1>3, <1>4
  <2> HIDE DEF m
  <2> QED BY <2>1
<1>6. ChainSectors(disk, c)[k + 1] = Fetch(disk, lba)
  <2>1. (k + 1) - 1 = k
    OBVIOUS
  <2> QED BY <1>1, <1>5, <2>1, SectorsSpec
<1>7. DataLba(part, Chain(disk, c)[(k \div p) + 1], k % p) = lba
  <2>1. (k \div p) + 1 = 1 + (k \div p)
    BY <1>3
  <2> QED BY <1>1, <2>1 DEF Laid, DataLba
<1>8. lba \in DOMAIN disk /\ sdbuf' = disk[lba] /\ disk' = disk
  BY <1>1, <1>7, GoodRead
<1> HIDE DEF lba
<1>9. k < Len(ChainSectors(disk, c))
  BY <1>3, <1>4
<1> QED BY <1>6, <1>8, <1>9 DEF Fetch

LEMMA StretchOfStretch ==
  ASSUME NEW S, NEW B \in Seq(S), NEW n \in Nat, n <= Len(B), NEW a \in Nat, NEW b \in Nat, a <= b, b <= n
  PROVE  SubSeq(SubSeq(B, 1, n), a + 1, b) = SubSeq(B, a + 1, b)
<1> DEFINE P == SubSeq(B, 1, n)
           x == SubSeq(P, a + 1, b)
           y == SubSeq(B, a + 1, b)
<1>1. P \in Seq(S) /\ Len(P) = n /\ \A i \in 1..n : P[i] = B[i]
  <2>1. SubSeq(B, 0 + 1, n) \in Seq(S) /\ Len(SubSeq(B, 0 + 1, n)) = n - 0
        /\ \A i \in 1..(n - 0) : SubSeq(B, 0 + 1, n)[i] = B[0 + i]
    BY Stretch
  <2>2. \A i \in 1..n : 0 + i = i
    OBVIOUS
  <2> QED BY <2>1, <2>2
<1> HIDE DEF P
<1>2. x \in Seq(S) /\ Len(x) = b - a /\ \A i \in 1..(b - a) : x[i] = P[a + i]
  BY <1>1, Stretch
<1>3. y \in Seq(S) /\ Len(y) = b - a /\ \A i \in 1..(b - a) : y[i] = B[a + i]
  <2>1. b <= Len(B)
    BY SMT
  <2> QED BY <2>1, Stretch
<1> HIDE DEF x, y
<1>4. \A i \in 1..(b - a) : a + i \in 1..n
  OBVIOUS
<1>5. \A i \in 1..(b - a) : x[i] = y[i]
  BY <1>1, <1>2, <1>3, <1>4
<1>6. x = y
  BY <1>2, <1>3, <1>5, SeqEqual
<1> QED BY <1>6 DEF P, x, y

Grows(dk, slot, o, m, n) ==
  LET copied == SubSeq(FileBytes(dk, slot), (o - m) + 1, o)
      piece == SubSeq(Bytes(dk, slot.cluster), o + 1, o + n)
  IN  /\ copied \o piece = SubSeq(FileBytes(dk, slot), (o - m) + 1, o + n)
      /\ Len(copied \o piece) = m + n
LEMMA CopyGrows ==
  ASSUME NEW dk, CardSet(dk), WellLaid(dk), NEW slot, slot.cluster \in Nat, slot.size \in Nat,
         NEW o \in Nat, NEW m \in 0..o, NEW n \in Nat, o + n <= Len(FileBytes(dk, slot))
  PROVE  Grows(dk, slot, o, m, n)
<1> DEFINE A == FileBytes(dk, slot)
           B == Bytes(dk, slot.cluster)
           S == Range(B)
           a == o - m
           b == o + n
           l == Len(A)
           copied == SubSeq(A, a + 1, o)
           piece == SubSeq(B, o + 1, b)
<1>1. A = SubSeq(B, 1, l) /\ l \in Nat /\ l <= Len(B) /\ A \in Seq(S) /\ B \in Seq(S) /\ Len(B) \in Nat
  BY FileIsStretch, BytesSpec
<1>2. a \in Nat /\ b \in Nat /\ a <= o /\ o <= b /\ b <= l /\ o <= l /\ a <= b
  BY <1>1
<1>3. copied = SubSeq(A, a + 1, o) /\ piece = SubSeq(B, o + 1, b) /\ o - a = m /\ b - o = n
  OBVIOUS
<1> HIDE DEF A, B, S, a, b, l, copied, piece
<1>4. SubSeq(A, a + 1, o) = SubSeq(B, a + 1, o) /\ SubSeq(A, a + 1, b) = SubSeq(B, a + 1, b)
  BY <1>1, <1>2, StretchOfStretch
<1>5. b <= Len(B) /\ o <= Len(B)
  BY <1>1, <1>2
<1>6. copied \o piece = SubSeq(A, a + 1, b)
  <2>1. SubSeq(B, a + 1, o) \o SubSeq(B, o + 1, b) = SubSeq(B, a + 1, b)
    BY <1>1, <1>2, <1>5, StretchesJoin
  <2> QED BY <1>3, <1>4, <2>1
<1>7. copied \in Seq(S) /\ Len(copied) = m
  BY <1>1, <1>2, <1>3, Stretch
<1>8. piece \in Seq(S) /\ Len(piece) = n
  BY <1>1, <1>2, <1>3, <1>5, Stretch
<1>9. Len(copied \o piece) = m + n
  <2>1. Len(copied \o piece) = Len(copied) + Len(piece)
    BY <1>7, <1>8, ConcatProperties
  <2> QED BY <1>7, <1>8, <2>1
<1> QED BY <1>6, <1>9 DEF A, B, a, b, copied, piece, Grows

(* One sector's bytes of a read.                                              *)
LEMMA ReadSpec ==
  ASSUME NoYes, TypeInv, NEW D, NEW F, VolInv(D, F), FilesInv, pc = "reading",
         NEW h, h = handles[job.fd], NEW n, n = Portion(h.offset % SECTOR),
         (h.offset \div SECTOR) \div part.spc < Len(h.clusters),
         ReadSector(DataLba(part, h.clusters[((h.offset \div SECTOR) \div part.spc) + 1], (h.offset \div SECTOR) % part.spc))
  PROVE  /\ disk' = disk /\ n \in Nat /\ n <= job.want
         /\ h.offset + n <= Len(FileBytes(disk, h.file))
         /\ BytesOf(sdbuf', h.offset % SECTOR, n) = SubSeq(Bytes(disk, h.file.cluster), h.offset + 1, h.offset + n)
<1> DEFINE c == h.file.cluster
           o == h.offset
           k == o \div SECTOR
           a == o % SECTOR
<1>1. /\ h \in HandleSet /\ o \in Nat /\ c \in Nat /\ h.file.size \in Nat /\ job.want \in Nat /\ job.fd \in Fds
      /\ CardSet(disk) /\ WellLaid(disk) /\ Laid(part, LayoutOf(disk)) /\ SECTOR \in Nat \ {0} /\ Mounted
  BY FatAssumption DEF TypeInv, HandleType, HandleSet, SlotSet, JobType, CardType, CardSet, VolInv, CardInv, MountInv, Mounted
<1>2. Matches(disk, tree, h) /\ Reading(h)
  BY <1>1 DEF FilesInv, HandlesInv, CopyInv, Reading
<1>3. h.clusters = Chain(disk, c)
  <2>1. ~(Len(Chain(disk, c)) > LLSZ) /\ Len(Chain(disk, c)) \in Nat /\ LLSZ \in Nat
    BY <1>1, <1>2, ChainSpec, DiskAssumption DEF Matches, Reading
  <2>2. Len(Chain(disk, c)) <= LLSZ
    BY <2>1
  <2> QED BY <1>1, <1>2, <2>2, WholeList DEF Matches
<1>4. k \in Nat /\ a \in 0..(SECTOR - 1) /\ o = k * SECTOR + a
  BY <1>1, DivParts
<1>5. part.spc = LayoutOf(disk).spc
  BY <1>1 DEF Laid
<1>6. /\ k \div LayoutOf(disk).spc < Len(Chain(disk, c))
      /\ ReadSector(DataLba(part, Chain(disk, c)[(k \div LayoutOf(disk).spc) + 1], k % LayoutOf(disk).spc))
  BY <1>3, <1>5
<1>7. disk' = disk /\ k < Len(ChainSectors(disk, c)) /\ sdbuf' = ChainSectors(disk, c)[k + 1]
  <2> HIDE DEF k, c
  <2> QED BY <1>1, <1>4, <1>6, SectorRead
<1>8. n \in 0..(SECTOR - a) /\ n <= job.want /\ n \in Nat
  <2> HIDE DEF a
  <2>1. n = Smaller(SECTOR - a, job.want)
    BY DEF Portion, a
  <2>2. SECTOR - a \in Nat /\ job.want \in Nat
    BY <1>1, <1>4
  <2> QED BY <2>1, <2>2 DEF Smaller
<1> HIDE DEF k, a, c, o
<1>9. o + n <= Len(Bytes(disk, c)) /\ SubSeq(Bytes(disk, c), o + 1, o + n) = BytesOf(sdbuf', a, n)
  <2> DEFINE q == k * SECTOR + a
  <2>1. q + n <= Len(Bytes(disk, c)) /\ SubSeq(Bytes(disk, c), q + 1, q + n) = BytesOf(ChainSectors(disk, c)[k + 1], a, n)
    <3>1. /\ CardSet(disk) /\ WellLaid(disk) /\ c \in Nat /\ k \in Nat /\ k < Len(ChainSectors(disk, c))
          /\ a \in 0..(SECTOR - 1) /\ n \in 0..(SECTOR - a)
      BY <1>1, <1>4, <1>7, <1>8
    <3>2. InStretch(disk, c, k, a, n)
      BY <3>1, SectorIsStretch
    <3> QED BY <3>2 DEF InStretch
  <2> HIDE DEF q
  <2> QED BY <1>4, <1>7, <2>1 DEF q
<1>10. o + n <= Len(FileBytes(disk, h.file))
  <2>1. Len(FileBytes(disk, h.file)) = Smaller(h.file.size, Len(Bytes(disk, c)))
    BY <1>1, FileIsStretch DEF c
  <2>2. o + job.want <= h.file.size
    BY <1>2 DEF Reading, o
  <2>3. o + n <= h.file.size
    BY <1>1, <1>8, <2>2
  <2> QED BY <1>9, <2>1, <2>3 DEF Smaller
<1> QED BY <1>7, <1>8, <1>9, <1>10 DEF o, a, c

LEMMA ReadKeeps ==
  ASSUME NoYes, TypeInv, NEW D, NEW F, VolInv(D, F), [NextP]_<<vars, tree>>, FilesInv, ReadStep
  PROVE  FilesInv'
<1>1. pc = "reading" /\ job.fd \in Fds /\ job.want \in Nat
  BY DEF ReadStep, TypeInv, JobType
<1>2. CASE handles' = handles /\ \E v : Return(v)
  BY <1>1, <1>2, QuietEnd
<1>3. CASE ~(handles' = handles /\ \E v : Return(v))
  <2>1. PICK h \in HandleSet : h = handles[job.fd]
    BY <1>1 DEF TypeInv, HandleType
  <2>2. PICK n : n = Portion(h.offset % SECTOR)
    OBVIOUS
  <2>3. /\ (h.offset \div SECTOR) \div part.spc < Len(h.clusters)
        /\ ReadSector(DataLba(part, h.clusters[((h.offset \div SECTOR) \div part.spc) + 1],
                              (h.offset \div SECTOR) % part.spc))
        /\ mem' = mem \o BytesOf(sdbuf', h.offset % SECTOR, n)
        /\ handles' = [handles EXCEPT ![job.fd] = [handles[job.fd] EXCEPT !.offset = handles[job.fd].offset + n]]
        /\ job' = [job EXCEPT !.want = job.want - n] /\ pc' = pc
    BY <1>3, <2>1, <2>2 DEF ReadStep
  <2>4. /\ disk' = disk /\ n \in Nat /\ n <= job.want /\ h.offset + n <= Len(FileBytes(disk, h.file))
        /\ BytesOf(sdbuf', h.offset % SECTOR, n) = SubSeq(Bytes(disk, h.file.cluster), h.offset + 1, h.offset + n)
    BY <1>1, <2>1, <2>2, <2>3, ReadSpec
  <2>5. Matches(disk, tree, h) /\ Reading(h) /\ h.offset \in Nat /\ h.file.size \in Nat /\ h.file.cluster \in Nat
    BY <1>1, <2>1 DEF FilesInv, HandlesInv, CopyInv, Reading, HandleSet, SlotSet
  <2>6. CardSet(disk) /\ WellLaid(disk)
    BY DEF TypeInv, CardType, CardSet, VolInv, CardInv
  <2>7. tree' = tree
    BY <2>4, SameTree
  <2> DEFINE m == Len(mem)
             o2 == h.offset + n
             g == [h EXCEPT !.offset = o2]
  <2>8. /\ mem' = SubSeq(FileBytes(disk, h.file), (h.offset - m) + 1, o2) /\ Len(mem') = m + n
        /\ m \in 0..h.offset
    <3>1. m \in 0..h.offset /\ mem = SubSeq(FileBytes(disk, h.file), (h.offset - m) + 1, h.offset)
      BY <2>5 DEF Reading
    <3> DEFINE o == h.offset
               piece == SubSeq(Bytes(disk, h.file.cluster), o + 1, o + n)
    <3>2. mem' = mem \o piece /\ o \in Nat /\ n \in Nat /\ o + n <= Len(FileBytes(disk, h.file))
      BY <2>3, <2>4, <2>5
    <3> HIDE DEF m, piece
    <3>3. /\ mem \o piece = SubSeq(FileBytes(disk, h.file), (o - m) + 1, o + n)
          /\ Len(mem \o piece) = m + n
      <4>1. piece = SubSeq(Bytes(disk, h.file.cluster), o + 1, o + n)
        BY DEF piece
      <4>2. mem = SubSeq(FileBytes(disk, h.file), (o - m) + 1, o) /\ m \in 0..o
        BY <3>1
      <4> HIDE DEF o
      <4>3. CardSet(disk) /\ WellLaid(disk) /\ h.file.cluster \in Nat /\ h.file.size \in Nat /\ o \in Nat /\ n \in Nat
            /\ o + n <= Len(FileBytes(disk, h.file))
        BY <2>5, <2>6, <3>2
      <4>4. Grows(disk, h.file, o, m, n)
        BY <4>2, <4>3, CopyGrows
      <4> QED BY <4>1, <4>2, <4>4 DEF Grows
    <3> QED BY <3>1, <3>2, <3>3
  <2>9. /\ handles'[job.fd] = g /\ g.file = h.file /\ g.clusters = h.clusters /\ g.overflow = h.overflow
        /\ g.inUse = h.inUse /\ g.offset = o2
        /\ \A fd \in Fds : fd # job.fd => handles'[fd] = handles[fd]
    BY <1>1, <2>1, <2>3 DEF TypeInv, HandleType, HandleSet
  <2>10. job'.fd = job.fd /\ job'.want = job.want - n
    BY <1>1, <2>3 DEF TypeInv, JobType
  <2> HIDE DEF m, o2, g
  <2>11. Matches(disk, tree, g)
    BY <2>4, <2>5, <2>9 DEF Matches, o2
  <2>12. HandlesInv'
    BY <1>1, <2>4, <2>7, <2>9, <2>11, OneHandle
  <2>13. Reading(g)'
    <3>1. o2 \in Nat /\ o2 + (job.want - n) <= h.file.size
      <4>1. h.offset + job.want <= h.file.size
        BY <2>5 DEF Reading
      <4> QED BY <1>1, <2>4, <2>5, <4>1 DEF o2
    <3>2. m \in 0..h.offset /\ m + n \in 0..o2 /\ o2 - (m + n) = h.offset - m
      <4> DEFINE o == h.offset
      <4>1. o \in Nat /\ n \in Nat /\ m \in 0..o /\ o2 = o + n
        BY <2>4, <2>5, <2>8 DEF o2
      <4> HIDE DEF o
      <4>2. m \in 0..o /\ m + n \in 0..o2 /\ o2 - (m + n) = o - m
        BY <4>1
      <4> QED BY <4>2 DEF o
    <3>3. /\ g' = g /\ disk' = disk
      BY <2>4, <2>9
    <3> QED BY <2>5, <2>8, <2>9, <2>10, <3>1, <3>2, <3>3 DEF Reading
  <2>14. Reading(handles[job.fd])'
    <3>1. handles'[job'.fd] = g /\ g' = g
      BY <2>9, <2>10
    <3> QED BY <2>13, <3>1 DEF Reading
  <2>15. pc' = "reading"
    BY <1>1, <2>3
  <2> QED BY <2>12, <2>14, <2>15 DEF FilesInv, FdInv, ChainInv, CopyInv
<1> QED BY <1>2, <1>3

(* One sector of a load.                                                      *)
Advances(n, a, s, a2, s2) ==
  /\ NumberOf(a, s) \in Nat /\ NumberOf(a, s) \div LayoutOf(disk).spc = a - 1
  /\ NumberOf(a, s) % LayoutOf(disk).spc = s
  /\ a2 \in 1..(n + 1) /\ s2 \in 0..(LayoutOf(disk).spc - 1) /\ (a2 = n + 1 => s2 = 0)
  /\ NumberOf(a2, s2) = NumberOf(a, s) + 1
LEMMA NumberSpec ==
  ASSUME CardSet(disk), WellLaid(disk), NEW n \in Nat, NEW a \in 1..n, NEW s \in 0..(LayoutOf(disk).spc - 1),
         NEW a2, NEW s2, IF s + 1 < LayoutOf(disk).spc THEN a2 = a /\ s2 = s + 1 ELSE a2 = a + 1 /\ s2 = 0
  PROVE  Advances(n, a, s, a2, s2)
<1> DEFINE p == LayoutOf(disk).spc
<1>1. p \in Nat \ {0}
  BY Places
<1>2. a - 1 \in Nat /\ a \in Nat /\ s \in 0..(p - 1)
  OBVIOUS
<1> HIDE DEF p
<1>3. (a - 1) * p + s \in Nat /\ ((a - 1) * p + s) \div p = a - 1 /\ ((a - 1) * p + s) % p = s
  <2> DEFINE b == a - 1
  <2>1. b \in Nat
    BY <1>2
  <2> HIDE DEF b
  <2>2. b * p + s \in Nat /\ (b * p + s) \div p = b /\ (b * p + s) % p = s
    BY <1>1, <1>2, <2>1, DivModOf
  <2> QED BY <2>2 DEF b
<1>4. IF s + 1 < p THEN a2 = a /\ s2 = s + 1 ELSE a2 = a + 1 /\ s2 = 0
  BY DEF p
<1>5. a2 \in 1..(n + 1) /\ s2 \in 0..(p - 1) /\ (a2 = n + 1 => s2 = 0)
  BY <1>1, <1>2, <1>4
<1>6. (a2 - 1) * p + s2 = ((a - 1) * p + s) + 1
  <2> DEFINE q == (a - 1) * p
  <2>1. q \in Nat
    BY <1>1, <1>2
  <2>2. CASE s + 1 < p
    <3>1. (a2 - 1) * p = q /\ s2 = s + 1
      BY <1>4, <2>2
    <3> HIDE DEF q
    <3>2. q + (s + 1) = (q + s) + 1
      BY <1>2, <2>1
    <3> QED BY <3>1, <3>2 DEF q
  <2>3. CASE ~(s + 1 < p)
    <3>1. a2 - 1 = a /\ s2 = 0 /\ s + 1 = p
      BY <1>1, <1>2, <1>4, <2>3
    <3>2. a * p = q + p
      BY <1>1, <1>2
    <3> HIDE DEF q
    <3>3. (q + p) + 0 = (q + s) + 1
      BY <1>1, <1>2, <2>1, <3>1
    <3> QED BY <3>1, <3>2, <3>3 DEF q
  <2> QED BY <2>2, <2>3
<1> QED BY <1>3, <1>5, <1>6 DEF p, NumberOf, Advances

LEMMA TimesGrows ==
  ASSUME NEW a \in Nat, NEW b \in Nat, NEW k \in Nat, a <= b
  PROVE  a * k <= b * k /\ a * k \in Nat /\ b * k \in Nat
<1>1. PICK d \in Nat : b = a + d
  <2>1. b - a \in Nat /\ b = a + (b - a)
    OBVIOUS
  <2> QED BY <2>1
<1>2. b * k = a * k + d * k /\ a * k \in Nat /\ d * k \in Nat
  BY <1>1
<1> QED BY <1>2

(* A place behind the n-th cluster, and one up to its end.                    *)
Behind_n(n, a, s) == n * LayoutOf(disk).spc <= NumberOf(a, s)
UpTo_n(n, a, s) == NumberOf(a, s) <= n * LayoutOf(disk).spc
LEMMA PlaceBounds ==
  ASSUME CardSet(disk), WellLaid(disk), NEW n \in Nat, NEW a \in Nat \ {0}, NEW s \in 0..(LayoutOf(disk).spc - 1)
  PROVE  /\ a > n => Behind_n(n, a, s)
         /\ a <= n \/ (a = n + 1 /\ s = 0) => UpTo_n(n, a, s)
         /\ NumberOf(a, s) \in Nat
<1> DEFINE p == LayoutOf(disk).spc
           q == (a - 1) * p
<1>1. p \in Nat \ {0} /\ a - 1 \in Nat /\ s \in Nat /\ s < p
  BY Places
<1>2. q \in Nat /\ n * p \in Nat /\ NumberOf(a, s) = q + s
  BY <1>1 DEF NumberOf
<1>3. a > n => n * p <= q
  <2> SUFFICES ASSUME a > n PROVE n * p <= q
    OBVIOUS
  <2> DEFINE b == a - 1
  <2>1. b \in Nat /\ n <= b
    BY <1>1
  <2> HIDE DEF p, b
  <2>2. n * p <= b * p
    BY <1>1, <2>1, TimesGrows
  <2> QED BY <2>2 DEF b
<1>4. a <= n => q + p <= n * p
  <2> SUFFICES ASSUME a <= n PROVE q + p <= n * p
    OBVIOUS
  <2> HIDE DEF p
  <2>1. a * p <= n * p /\ q + p = a * p
    BY <1>1, TimesGrows
  <2> QED BY <2>1
<1>5. a = n + 1 => q = n * p
  BY <1>1
<1> HIDE DEF q
<1> DEFINE m == n * p
<1> HIDE DEF p
<1>6. (a > n => m <= q) /\ (a <= n => q + p <= m) /\ (a = n + 1 => q = m) /\ m \in Nat
  BY <1>2, <1>3, <1>4, <1>5
<1> HIDE DEF m
<1>7. (a > n => m <= q + s) /\ (a <= n \/ (a = n + 1 /\ s = 0) => q + s <= m) /\ q + s \in Nat
  BY <1>1, <1>2, <1>6
<1> QED BY <1>2, <1>7 DEF Behind_n, UpTo_n, p, m

(* Bytes put behind a load: they are the chain's, or the chain has no more.   *)
Agrees(x, B, m) == \A i \in 1..m : i <= Len(B) => x[i] = B[i]
GoesOnAs(y, B, m) == Len(B) <= m \/ \A j \in 1..Len(y) : y[j] = B[m + j]
LEMMA LoadGrows ==
  ASSUME NEW S, NEW x \in Seq(S), NEW y \in Seq(S), NEW B \in Seq(S), NEW m \in Nat, Len(x) = m,
         Agrees(x, B, m), GoesOnAs(y, B, m)
  PROVE  x \o y \in Seq(S) /\ Len(x \o y) = m + Len(y) /\ Agrees(x \o y, B, m + Len(y))
<1> USE DEF Agrees, GoesOnAs
<1>1. Len(y) \in Nat /\ Len(B) \in Nat
  OBVIOUS
<1>2. /\ x \o y \in Seq(S) /\ Len(x \o y) = Len(x) + Len(y)
      /\ \A i \in 1..(Len(x) + Len(y)) : (x \o y)[i] = IF i <= Len(x) THEN x[i] ELSE y[i - Len(x)]
  BY <1>1, ConcatProperties
<1>3. ASSUME NEW i \in 1..(m + Len(y)), i <= Len(B) PROVE (x \o y)[i] = B[i]
  <2>1. CASE i <= m
    <3>1. i \in 1..m
      BY <2>1
    <3> QED BY <1>2, <1>3, <2>1, <3>1
  <2>2. CASE ~(i <= m)
    <3>1. i - m \in 1..Len(y) /\ m + (i - m) = i /\ ~(Len(B) <= m)
      BY <1>1, <1>3, <2>2
    <3>2. y[i - m] = B[i]
      BY <3>1
    <3> QED BY <1>2, <2>2, <3>2
  <2> QED BY <2>1, <2>2
<1> QED BY <1>2, <1>3

LEMMA LoadSpec ==
  ASSUME NoYes, TypeInv, NEW D, NEW F, VolInv(D, F), Mounted, NEW slot, slot.cluster \in Nat, slot.size \in Nat,
         Loaded(slot), ~EnoughLoaded, ListGoesOn, NEW w \in FromList, ReadSector(DataLba(part, w, sec)), NextSector,
         mem' = mem \o BytesOf(sdbuf', 0, SECTOR), job' = job, ll' = ll
  PROVE  disk' = disk /\ Loaded(slot)'
<1> DEFINE c == slot.cluster
           n == Len(ll)
           k == NumberOf(ctr, sec)
           B == Bytes(disk, c)
           piece == BytesOf(sdbuf', 0, SECTOR)
<1>1. /\ CardSet(disk) /\ WellLaid(disk) /\ part.spc = LayoutOf(disk).spc /\ SECTOR \in Nat \ {0} /\ c \in Nat
      /\ n \in Nat /\ n <= LLSZ /\ LLSZ \in Nat /\ ignoreCrc = FALSE
  BY FatAssumption, DiskAssumption DEF VolInv, CardInv, MountInv, Laid, TypeInv, CardType, CardSet, LoopType
<1>2. /\ slot.size + 1 = job.want /\ ll = Chain(disk, c) /\ ctr \in Nat \ {0}
      /\ sec \in 0..(LayoutOf(disk).spc - 1) /\ Len(mem) = k * SECTOR
      /\ \A i \in 1..Len(mem) : i <= Len(B) => mem[i] = B[i]
      /\ \E S : mem \in Seq(S)
  BY <1>1 DEF Loaded
<1>3. disk' = disk
  BY <1>1, GoodRead
<1>4. IF sec + 1 < LayoutOf(disk).spc THEN ctr' = ctr /\ sec' = sec + 1 ELSE ctr' = ctr + 1 /\ sec' = 0
  BY <1>1 DEF NextSector
<1>5. /\ k \in Nat /\ k \div LayoutOf(disk).spc = ctr - 1 /\ k % LayoutOf(disk).spc = sec
      /\ ctr' \in Nat \ {0} /\ sec' \in 0..(LayoutOf(disk).spc - 1) /\ NumberOf(ctr', sec') = k + 1
  <2>1. ctr \in 1..ctr /\ ctr \in Nat
    BY <1>2
  <2>2. Advances(ctr, ctr, sec, ctr', sec')
    BY <1>1, <1>2, <1>4, <2>1, NumberSpec
  <2> QED BY <1>2, <2>2 DEF Advances
<1>6. n < LLSZ /\ ctr' > n => ctr' = n + 1 /\ sec' = 0
  <2> SUFFICES ASSUME n < LLSZ PROVE ctr' > n => ctr' = n + 1 /\ sec' = 0
    OBVIOUS
  <2>1. ctr \in 1..n
    BY <1>1, <1>2 DEF ListGoesOn
  <2>2. Advances(n, ctr, sec, ctr', sec')
    BY <1>1, <1>2, <1>4, <2>1, NumberSpec
  <2> QED BY <1>1, <2>2 DEF Advances
<1>7. B \in Seq(Range(B)) /\ Len(B) = Len(ChainSectors(disk, c)) * SECTOR /\ Len(B) \in Nat
  BY <1>1, BytesSpec
<1>8. Len(ChainSectors(disk, c)) = n * LayoutOf(disk).spc /\ Len(ChainSectors(disk, c)) \in Nat
  BY <1>1, <1>2, SectorsSpec
<1> DEFINE m == k * SECTOR
<1> HIDE DEF k
<1>9. m \in Nat /\ (k + 1) * SECTOR = m + SECTOR
  BY <1>1, <1>5
<1>10. piece \in Seq(Range(piece)) /\ Len(piece) = SECTOR
  <2> DEFINE g(i) == <<sdbuf', 0 + i - 1>>
  <2>1. piece = [i \in 1..SECTOR |-> g(i)]
    BY DEF BytesOf
  <2> HIDE DEF piece, g
  <2>2. piece \in [1..SECTOR -> Range(piece)]
    BY <2>1 DEF Range
  <2>3. SECTOR \in Nat
    BY <1>1
  <2> QED BY <2>1, <2>2, <2>3
<1>11. ASSUME ctr <= n PROVE \A j \in 1..SECTOR : piece[j] = B[m + j]
  <2>1. ctr \in 1..n /\ w = ll[ctr]
    BY <1>1, <1>2, <1>11 DEF FromList
  <2>2. k < Len(ChainSectors(disk, c)) /\ sdbuf' = ChainSectors(disk, c)[k + 1]
    <3>1. k \div LayoutOf(disk).spc < Len(Chain(disk, c)) /\ (k \div LayoutOf(disk).spc) + 1 = ctr
      BY <1>1, <1>2, <1>5, <2>1
    <3>2. ReadSector(DataLba(part, Chain(disk, c)[(k \div LayoutOf(disk).spc) + 1], k % LayoutOf(disk).spc))
      BY <1>2, <1>5, <2>1, <3>1
    <3> HIDE DEF c
    <3> QED BY <1>1, <1>5, <3>1, <3>2, SectorRead
  <2>3. m + SECTOR <= Len(B) /\ SubSeq(B, m + 1, m + SECTOR) = piece
    <3>1. 0 \in 0..(SECTOR - 1) /\ SECTOR \in 0..(SECTOR - 0)
      BY <1>1
    <3> HIDE DEF c
    <3>2. InStretch(disk, c, k, 0, SECTOR)
      BY <1>1, <1>5, <2>2, <3>1, SectorIsStretch
    <3>3. /\ k * SECTOR + 0 + SECTOR <= Len(B)
          /\ SubSeq(B, (k * SECTOR + 0) + 1, (k * SECTOR + 0) + SECTOR) = BytesOf(ChainSectors(disk, c)[k + 1], 0, SECTOR)
      BY <3>2 DEF InStretch
    <3>4. m + 0 = m
      BY <1>9
    <3> HIDE DEF B
    <3> QED BY <2>2, <3>3, <3>4
  <2>4. \A j \in 1..SECTOR : piece[j] = B[m + j]
    <3> DEFINE b == m + SECTOR
    <3>1. b \in Nat /\ m <= b /\ b - m = SECTOR
      BY <1>1, <1>9
    <3> HIDE DEF b, B, m, piece
    <3>2. \A j \in 1..(b - m) : SubSeq(B, m + 1, b)[j] = B[m + j]
      BY <1>7, <1>9, <2>3, <3>1, Stretch DEF b
    <3> QED BY <2>3, <3>1, <3>2 DEF b
  <2> QED BY <2>4
<1>12. ASSUME ~(ctr <= n) PROVE Len(B) <= m
  <2>1. Len(B) <= m
    <3>1. Behind_n(n, ctr, sec)
      BY <1>1, <1>2, <1>12, PlaceBounds
    <3>2. n * LayoutOf(disk).spc <= k
      BY <3>1 DEF Behind_n, k
    <3> DEFINE l == Len(ChainSectors(disk, c))
    <3>3. l <= k /\ l \in Nat
      BY <1>8, <3>2
    <3> HIDE DEF l
    <3>4. l * SECTOR <= k * SECTOR
      BY <1>1, <1>5, <3>3, TimesGrows
    <3> QED BY <1>7, <3>4 DEF l
  <2> QED BY <2>1
<1>13. /\ (\E S : mem \o piece \in Seq(S)) /\ Len(mem \o piece) = m + SECTOR
       /\ \A i \in 1..Len(mem \o piece) : i <= Len(B) => (mem \o piece)[i] = B[i]
  <2>1. PICK S : mem \in Seq(S)
    BY <1>2
  <2>2. Len(mem) = m /\ Agrees(mem, B, m)
    BY <1>2 DEF Agrees
  <2>3. GoesOnAs(piece, B, m)
    BY <1>10, <1>11, <1>12 DEF GoesOnAs
  <2> HIDE DEF B, m, piece
  <2> DEFINE T == S \cup Range(piece) \cup Range(B)
  <2>4. mem \in Seq(T) /\ piece \in Seq(T) /\ B \in Seq(T) /\ m \in Nat
    BY <1>7, <1>9, <1>10, <2>1
  <2> HIDE DEF T
  <2>5. /\ mem \o piece \in Seq(T) /\ Len(mem \o piece) = m + Len(piece)
        /\ Agrees(mem \o piece, B, m + Len(piece))
    BY <2>2, <2>3, <2>4, LoadGrows
  <2> QED BY <1>10, <2>5 DEF Agrees
<1>14. m + SECTOR < slot.size + SECTOR
  <2>1. ~(m + 1 >= slot.size + 1)
    BY <1>2 DEF EnoughLoaded
  <2> QED BY <1>1, <1>9, <2>1
<1> HIDE DEF k, m, piece
<1>15. Len(mem') = NumberOf(ctr', sec') * SECTOR
  BY <1>5, <1>9, <1>13 DEF piece
<1> HIDE DEF NumberOf
<1>16. mem' = mem \o piece /\ LayoutOf(disk') = LayoutOf(disk) /\ Bytes(disk', c) = B
  BY <1>3 DEF piece
<1>17. NumberOf(ctr, sec)' = NumberOf(ctr', sec')
  BY <1>3 DEF NumberOf
<1> HIDE DEF B
<1> QED BY <1>2, <1>3, <1>5, <1>6, <1>13, <1>14, <1>15, <1>16, <1>17 DEF Loaded

LEMMA LoadKeeps ==
  ASSUME NoYes, TypeInv, NEW D, NEW F, VolInv(D, F), [NextP]_<<vars, tree>>, FilesInv, LoadStep
  PROVE  FilesInv'
<1>1. pc = "loading" /\ job.fd = -1 /\ handles' = handles /\ cur' = cur /\ Mounted
  BY DEF LoadStep, FilesInv, FdInv, dirVars, Mounted
<1>2. CASE \E v : Return(v)
  BY <1>1, <1>2, QuietEnd
<1>3. CASE ~\E v : Return(v)
  <2>1. PICK w \in FromList :
          /\ ~EnoughLoaded /\ ListGoesOn /\ ReadSector(DataLba(part, w, sec)) /\ NextSector
          /\ mem' = mem \o BytesOf(sdbuf', 0, SECTOR) /\ pc' = pc /\ job' = job /\ ll' = ll
    BY <1>3 DEF LoadStep
  <2>2. PICK e \in Wanted : Loaded(e.slot)
    BY <1>1 DEF FilesInv, CopyInv
  <2>3. FileOn(tree, e.slot)
    BY <2>2 DEF Wanted, FileOn
  <2>4. PICK slot : slot = e.slot /\ slot.cluster \in Nat /\ slot.size \in Nat
    BY <2>3, FileLies
  <2>5. disk' = disk /\ Loaded(slot)'
    BY <1>1, <2>1, <2>2, <2>4, LoadSpec
  <2>6. tree' = tree
    BY <2>5, SameTree
  <2>7. Wanted' = Wanted
    BY <1>1, <2>1, <2>6 DEF Wanted
  <2>9. HandlesInv'
    BY <1>1, SameHandles
  <2>10. (\E x \in Wanted : Loaded(x.slot))'
    BY <2>4, <2>5, <2>7
  <2> QED BY <1>1, <2>1, <2>9, <2>10 DEF FilesInv, FdInv, ChainInv, CopyInv
<1> QED BY <1>2, <1>3

----------------------------------------------------------------------------
(* The invariant as a whole, on a card in good order.                         *)
LEMMA FilesStep ==
  ASSUME NoYes, TypeInv, NEW D, NEW F, VolInv(D, F), PlaceInv, [NextP]_<<vars, tree>>, FilesInv
  PROVE  FilesInv'
<1>1. CASE Step
  <2>1. CASE Mount \/ FindFreeCluster \/ ReadFatSector \/ WriteFatSector \/ MirrorFatSector \/ ClearCluster
             \/ ReadFolderSector \/ WriteFolderSector
    BY <2>1, QuietSteps
  <2>2. CASE FollowChain
    BY <2>2, FollowKeeps
  <2>3. CASE DirChainDone \/ ScanSector \/ FinishChdir \/ FinishList
    BY <2>3, DirKeeps DEF ListStep
  <2>4. CASE FinishOpenSearch
    BY <2>4, OpenSearchKeeps
  <2>5. CASE OpenChainDone
    BY <2>5, OpenDoneKeeps
  <2>6. CASE ReadStep
    BY <2>6, ReadKeeps
  <2>7. CASE FinishLoadSearch
    BY <2>7, LoadSearchKeeps
  <2>8. CASE LoadChainDone
    BY <2>8, LoadDoneKeeps
  <2>9. CASE LoadStep
    BY <2>9, LoadKeeps
  <2> QED BY <1>1, <2>1, <2>2, <2>3, <2>4, <2>5, <2>6, <2>7, <2>8, <2>9 DEF Step
<1>2. CASE Call
  BY <1>2, CallKeeps
<1>3. CASE Reset
  <2>1. handles' = [fd \in Fds |-> ClosedHandle] /\ pc' = "boot" /\ job' = NoJob
    BY <1>3 DEF Reset
  <2>2. ~ClosedHandle.inUse
    BY DEF ClosedHandle
  <2>3. \A fd \in Fds : ~handles'[fd].inUse
    BY <2>1, <2>2
  <2>4. HandlesInv'
    BY <2>3 DEF HandlesInv
  <2> QED BY <2>1, <2>4, NoJobType DEF FilesInv, FdInv, ChainInv, CopyInv
<1>4. CASE UNCHANGED vars
  <2>1. disk' = disk
    BY <1>4 DEF vars, sdVars
  <2>2. tree' = tree
    BY <2>1, SameTree
  <2> QED BY <1>4, <2>1, <2>2 DEF vars, sdVars, dirVars, loopVars, FilesInv, FdInv, HandlesInv, ChainInv, CopyInv,
                                Opening, Sought, Wanted, Followed, Reading, Loaded, NumberOf, FileOn, Matches
<1>5. CASE ListingKey
  BY <1>5, DirKeeps DEF ListStep
<1> QED BY <1>1, <1>2, <1>3, <1>4, <1>5 DEF NextP, Next, Halted, vars

LEMMA FilesInit == InitP => FilesInv
<1> SUFFICES ASSUME InitP PROVE FilesInv
  OBVIOUS
<1>1. handles = [fd \in Fds |-> ClosedHandle] /\ pc = "boot" /\ job = NoJob
  BY DEF InitP, Init
<1>2. \A fd \in Fds : ~handles[fd].inUse
  BY <1>1 DEF ClosedHandle
<1> QED BY <1>1, <1>2, NoJobType DEF FilesInv, FdInv, HandlesInv, ChainInv, CopyInv

ReadsInv == PlacesInv /\ FilesInv
LEMMA ReadsInit == GoodCards /\ InitP => ReadsInv
BY PlacesInit, FilesInit DEF ReadsInv
LEMMA ReadsStep == GoodCards /\ ReadsInv /\ [NextP]_<<vars, tree>> => ReadsInv'
BY PlacesStep, FilesStep DEF ReadsInv, PlacesInv, GoodCards

(* Whatever is done in between, an open handle is what fs_open made of its    *)
(* entry: the entry is on the card, the cached clusters are its chain's, and  *)
(* the offset is inside the file.                                             *)
THEOREM HandlesCorrect == GoodCards => (SpecP => []HandlesMatchDisk)
<1> SUFFICES ASSUME GoodCards PROVE SpecP => []HandlesMatchDisk
  OBVIOUS
<1>1. ReadsInv => HandlesMatchDisk
  <2> SUFFICES ASSUME ReadsInv, NEW fd \in Fds, handles[fd].inUse, job.fd # fd
               PROVE  LET h == handles[fd] IN
                      /\ \E e \in tree : e.slot = h.file
                      /\ h.clusters = UpTo(LLSZ, Chain(disk, h.file.cluster))
                      /\ h.overflow = (Len(Chain(disk, h.file.cluster)) > LLSZ)
                      /\ h.offset <= h.file.size
    BY DEF HandlesMatchDisk
  <2>1. PICK h \in HandleSet : h = handles[fd] /\ Matches(disk, tree, h)
    BY DEF ReadsInv, PlacesInv, TypeInv, HandleType, FilesInv, HandlesInv
  <2>2. PICK D, F : VolInv(D, F)
    BY DEF ReadsInv, PlacesInv
  <2>3. FileOn(tree, h.file) /\ h.offset <= Len(FileBytes(disk, h.file)) /\ h.offset \in Nat
    BY <2>1 DEF Matches, HandleSet
  <2>4. /\ h.file.cluster \in Nat /\ h.file.size \in Nat /\ CardSet(disk) /\ WellLaid(disk)
    BY <2>2, <2>3, FileLies DEF ReadsInv, PlacesInv, TypeInv, CardType, CardSet, VolInv, CardInv
  <2>5. h.offset <= h.file.size
    <3>1. Len(FileBytes(disk, h.file)) \in Nat /\ Len(FileBytes(disk, h.file)) <= h.file.size
      BY <2>4, FileIsStretch
    <3> QED BY <2>3, <2>4, <3>1
  <2> QED BY <2>1, <2>3, <2>5 DEF Matches, FileOn
<1> QED BY <1>1, ReadsInit, ReadsStep, PTL DEF SpecP

(* What fs_read has delivered is the stretch of the file that ends at the     *)
(* handle's offset, whatever calls came before and wherever the read stops.   *)
THEOREM ReadsCorrect == GoodCards => (SpecP => []ReadsAreFileBytes)
<1> SUFFICES ASSUME GoodCards PROVE SpecP => []ReadsAreFileBytes
  OBVIOUS
<1>1. ReadsInv => ReadsAreFileBytes
  <2> SUFFICES ASSUME ReadsInv, pc = "reading"
               PROVE  /\ handles[job.fd].offset <= Len(FileBytes(disk, handles[job.fd].file))
                      /\ mem = SubSeq(FileBytes(disk, handles[job.fd].file),
                                      handles[job.fd].offset - Len(mem) + 1, handles[job.fd].offset)
    BY DEF ReadsAreFileBytes
  <2>1. job.fd \in Fds
    BY DEF ReadsInv, PlacesInv, TypeInv, JobType
  <2>2. Reading(handles[job.fd])
    BY DEF ReadsInv, FilesInv, CopyInv
  <2>3. Matches(disk, tree, handles[job.fd])
    BY <2>1, <2>2 DEF ReadsInv, FilesInv, HandlesInv, Reading
  <2> QED BY <2>2, <2>3 DEF Reading, Matches
<1> QED BY <1>1, ReadsInit, ReadsStep, PTL DEF SpecP

----------------------------------------------------------------------------
(* The load that ends well.                                                   *)
LEMMA LoadEnds ==
  ASSUME TypeInv, NEW D, NEW F, VolInv(D, F), NEW slot, slot.cluster \in Nat, slot.size \in Nat, Loaded(slot),
         EnoughLoaded \/ ListMayEnd
  PROVE  Delivers(slot)
<1> DEFINE c == slot.cluster
           size == slot.size
           B == Bytes(disk, c)
           A == FileBytes(disk, slot)
           n == Len(ll)
           k == NumberOf(ctr, sec)
           l == Len(mem)
<1>1. CardSet(disk) /\ WellLaid(disk) /\ SECTOR \in Nat \ {0} /\ n \in Nat
  BY FatAssumption DEF VolInv, CardInv, TypeInv, CardType, CardSet, LoopType
<1>2. /\ size + 1 = job.want /\ ll = Chain(disk, c) /\ ctr \in Nat \ {0} /\ sec \in 0..(LayoutOf(disk).spc - 1)
      /\ (n < LLSZ /\ ctr > n => ctr = n + 1 /\ sec = 0) /\ l = k * SECTOR /\ l < size + SECTOR
      /\ \A i \in 1..l : i <= Len(B) => mem[i] = B[i]
  BY DEF Loaded
<1>3. PICK S : mem \in Seq(S)
  BY DEF Loaded
<1> DEFINE w == n * LayoutOf(disk).spc
<1>4. Len(ChainSectors(disk, c)) = w /\ w \in Nat /\ Len(B) = w * SECTOR
  <2>1. /\ Len(ChainSectors(disk, c)) = Len(Chain(disk, c)) * LayoutOf(disk).spc
        /\ Len(ChainSectors(disk, c)) \in Nat /\ Len(B) = Len(ChainSectors(disk, c)) * SECTOR
    BY <1>1, SectorsSpec, BytesSpec
  <2>2. Len(Chain(disk, c)) = n
    BY <1>2
  <2> HIDE DEF B, c
  <2> QED BY <2>1, <2>2
<1>5. /\ B \in Seq(Range(B)) /\ Len(B) \in Nat /\ A = SubSeq(B, 1, Len(A)) /\ A \in Seq(Range(B))
      /\ Len(A) = Smaller(size, Len(B)) /\ Len(A) \in Nat /\ Len(A) <= size /\ Len(A) <= Len(B)
  BY <1>1, BytesSpec, FileIsStretch
<1>6. (ctr > n => w <= k) /\ (ctr <= n \/ (ctr = n + 1 /\ sec = 0) => k <= w) /\ k \in Nat
  <2>1. /\ ctr > n => Behind_n(n, ctr, sec)
        /\ ctr <= n \/ (ctr = n + 1 /\ sec = 0) => UpTo_n(n, ctr, sec)
        /\ NumberOf(ctr, sec) \in Nat
    BY <1>1, <1>2, PlaceBounds
  <2> QED BY <2>1 DEF Behind_n, UpTo_n
<1> HIDE DEF w, k, B, A, c
<1>7. (ctr > n => Len(B) <= l) /\ (ctr <= n \/ (ctr = n + 1 /\ sec = 0) => l <= w * SECTOR) /\ l \in Nat
  BY <1>1, <1>2, <1>4, <1>6, TimesGrows
<1>8. Len(A) <= l
  <2>1. CASE EnoughLoaded
    <3>1. l + 1 >= size + 1
      BY <1>2, <2>1 DEF EnoughLoaded
    <3> QED BY <1>5, <1>7, <3>1
  <2>2. CASE ListMayEnd
    BY <1>5, <1>7, <2>2 DEF ListMayEnd
  <2> QED BY <2>1, <2>2
<1>9. UpTo(Len(A), mem) = A
  <2> DEFINE m == Len(A)
             x == SubSeq(mem, 1, m)
  <2>1. m \in Nat /\ 0 <= m /\ m <= l /\ m <= Len(B) /\ 0 + 1 = 1 /\ m - 0 = m
    BY <1>5, <1>8
  <2>2. Smaller(m, Len(mem)) = m
    BY <1>7, <2>1 DEF Smaller
  <2> HIDE DEF m
  <2>3. x \in Seq(S) /\ Len(x) = m /\ \A i \in 1..m : x[i] = mem[i]
    <3>1. /\ SubSeq(mem, 0 + 1, m) \in Seq(S) /\ Len(SubSeq(mem, 0 + 1, m)) = m - 0
          /\ \A i \in 1..(m - 0) : SubSeq(mem, 0 + 1, m)[i] = mem[0 + i]
      BY <1>3, <1>7, <2>1, Stretch
    <3>2. \A i \in 1..m : 0 + i = i
      BY <2>1
    <3> QED BY <2>1, <3>1, <3>2
  <2>4. \A i \in 1..m : A[i] = B[i]
    <3>1. \A i \in 1..(m - 0) : SubSeq(B, 0 + 1, m)[i] = B[0 + i]
      BY <1>5, <2>1, Stretch
    <3>2. \A i \in 1..m : 0 + i = i
      BY <2>1
    <3>3. A = SubSeq(B, 1, m)
      BY <1>5 DEF m
    <3> QED BY <2>1, <3>1, <3>2, <3>3
  <2>5. \A i \in 1..m : x[i] = A[i]
    <3>1. \A i \in 1..m : i \in 1..l /\ i <= Len(B)
      BY <1>7, <2>1, <1>5
    <3> HIDE DEF x
    <3> QED BY <1>2, <2>3, <2>4, <3>1
  <2>6. Len(A) = m
    BY DEF m
  <2> HIDE DEF x
  <2>7. x = A
    BY <1>5, <2>1, <2>3, <2>5, <2>6, SeqEqual
  <2> QED BY <2>2, <2>6, <2>7 DEF UpTo, x
<1>10. Len(Chain(disk, c)) < LLSZ => l <= Len(ChainSectors(disk, c)) * SECTOR
  <2> SUFFICES ASSUME n < LLSZ PROVE l <= w * SECTOR
    BY <1>2, <1>4
  <2> QED BY <1>1, <1>2, <1>7
<1> QED BY <1>2, <1>9, <1>10 DEF Delivers, A, c

(* A load that reports success has delivered the bytes of the file that was   *)
(* asked for, as far as its chain goes, and less than a sector more than its  *)
(* size; and nothing from behind the chain when the list of it has an end.    *)
THEOREM LoadsCorrect == GoodCards => (SpecP => LoadsDeliverFile)
<1> SUFFICES ASSUME GoodCards PROVE SpecP => LoadsDeliverFile
  OBVIOUS
<1> DEFINE Loads == LoadSucceeds => \E e \in Wanted : Delivers(e.slot)
<1>1. ReadsInv /\ [NextP]_<<vars, tree>> => [Loads]_vars
  <2> SUFFICES ASSUME ReadsInv, [NextP]_<<vars, tree>>, pc = "loading", pc' = "prompt", ret'.val = 0
               PROVE  \E e \in Wanted : Delivers(e.slot)
    BY DEF LoadSucceeds
  <2>1. PICK D, F : VolInv(D, F)
    BY DEF ReadsInv, PlacesInv
  <2>2. TypeInv
    BY DEF ReadsInv, PlacesInv
  <2>3. PICK e \in Wanted : Loaded(e.slot)
    BY DEF ReadsInv, FilesInv, CopyInv
  <2>4. LoadStep
    <3>1. Next
      BY DEF NextP, vars
    <3>2. ~Halted /\ ~Reset /\ ~Call /\ ~ListingKey
      BY DEF Halted, Reset, Call, ChdirRoot, ChdirUp, ListDir, Getcwd, PrintPartitionInfo, ChdirName, Mkdir, Touch,
             Open, LoadFile, Close, Read, ReadDir, Begin, Immediate, Show, ListingKey
    <3> QED BY <3>1, <3>2 DEF Next, Step, Mount, BootSd, ReadMbr, ReadPartition, ReadLabel, FollowChain,
               DirChainDone, ScanSector, FinishChdir, FinishList, FindFreeCluster, ReadFatSector, WriteFatSector,
               MirrorFatSector, ClearCluster, ReadFolderSector, WriteFolderSector, FinishOpenSearch, OpenChainDone,
               ReadStep, FinishLoadSearch, LoadChainDone
  <2>5. EnoughLoaded \/ ListMayEnd
    BY <2>4 DEF LoadStep, Return, Ret, ERR
  <2>6. e.slot.cluster \in Nat /\ e.slot.size \in Nat
    <3>1. FileOn(tree, e.slot)
      BY DEF Wanted, FileOn
    <3> QED BY <2>1, <2>2, <3>1, FileLies
  <2>7. Delivers(e.slot)
    <3> DEFINE slot == e.slot
    <3>1. slot.cluster \in Nat /\ slot.size \in Nat /\ Loaded(slot)
      BY <2>3, <2>6
    <3> HIDE DEF slot
    <3>2. Delivers(slot)
      BY <2>1, <2>2, <2>5, <3>1, LoadEnds
    <3> QED BY <3>2 DEF slot
  <2> QED BY <2>7
<1> QED BY <1>1, ReadsInit, ReadsStep, PTL DEF SpecP, LoadsDeliverFile
=============================================================================
