---------------------------- MODULE Tree_proofs ----------------------------
(* The namespace of a card: which files and folders can be found on it, that  *)
(* they never share a cluster, that a folder is complete when it is found,    *)
(* that the path shown is a real one, and that the filesystem implements the  *)
(* abstract namespace of DirTree.                                             *)
EXTENDS Volume_proofs

USE DEF SameEntry, TakenEntry

----------------------------------------------------------------------------
(* The folders of a card are the least set of clusters that holds the root    *)
(* and with a folder those in it.                                             *)
LEMMA FoldersClosed ==
  ASSUME NEW dk, NEW D, NEW F, Consistent(dk, D, F)
  PROVE  /\ LayoutOf(dk).root \in Folders(dk) /\ Folders(dk) \subseteq Clusters(dk)
         /\ \A d \in Folders(dk) : SubFolders(dk, d) \cap Clusters(dk) \subseteq Folders(dk)
<1> DEFINE below == [d \in Clusters(dk) |-> SubFolders(dk, d) \cap Clusters(dk)]
           Closed(S) == LayoutOf(dk).root \in S /\ \A d \in S : below[d] \subseteq S
<1>1. Folders(dk) = {c \in Clusters(dk) : \A S \in SUBSET Clusters(dk) : Closed(S) => c \in S}
  BY DEF Folders
<1>2. LayoutOf(dk).root \in Clusters(dk)
  BY DEF Consistent, ChainClosed, Allocated
<1>3. ASSUME NEW d \in Folders(dk), NEW c \in SubFolders(dk, d) \cap Clusters(dk) PROVE c \in Folders(dk)
  <2>1. ASSUME NEW S \in SUBSET Clusters(dk), Closed(S) PROVE c \in S
    <3>1. d \in S
      BY <1>1, <1>3, <2>1
    <3>2. c \in below[d]
      BY <1>3, <2>1, <3>1
    <3> QED BY <2>1, <3>1, <3>2
  <2> HIDE DEF Closed
  <2> QED BY <1>1, <1>3, <2>1
<1>4. \A S : Closed(S) => LayoutOf(dk).root \in S
  OBVIOUS
<1> HIDE DEF Closed
<1> QED BY <1>1, <1>2, <1>3, <1>4

LEMMA FoldersLeast ==
  ASSUME NEW dk, NEW S \in SUBSET Clusters(dk), LayoutOf(dk).root \in S,
         \A d \in S : SubFolders(dk, d) \cap Clusters(dk) \subseteq S
  PROVE  Folders(dk) \subseteq S
<1> DEFINE below == [d \in Clusters(dk) |-> SubFolders(dk, d) \cap Clusters(dk)]
           Closed(X) == LayoutOf(dk).root \in X /\ \A d \in X : below[d] \subseteq X
<1>1. Folders(dk) = {c \in Clusters(dk) : \A X \in SUBSET Clusters(dk) : Closed(X) => c \in X}
  BY DEF Folders
<1>2. Closed(S)
  OBVIOUS
<1> HIDE DEF Closed
<1> QED BY <1>1, <1>2

(* An entry of the namespace is a slot of a folder's listing.                 *)
Entry(dk, d, i) == [dir |-> d, at |-> i, slot |-> DirSlots(dk, d)[i]]
Listed(dk, d, i) ==
  i \in DOMAIN DirSlots(dk, d) /\ IsEntry(DirSlots(dk, d)[i]) /\ ~IsDot(DirSlots(dk, d)[i])
LEMMA InTree ==
  ASSUME NEW dk, NEW e
  PROVE  e \in Tree(dk) <=> \E d \in Folders(dk) : \E i : Listed(dk, d, i) /\ e = Entry(dk, d, i)
<1>1. ASSUME e \in Tree(dk) PROVE \E d \in Folders(dk) : \E i : Listed(dk, d, i) /\ e = Entry(dk, d, i)
  <2>1. PICK d \in Folders(dk) :
          \E i \in DOMAIN DirSlots(dk, d) :
            /\ IsEntry(DirSlots(dk, d)[i]) /\ ~IsDot(DirSlots(dk, d)[i])
            /\ e = [dir |-> d, at |-> i, slot |-> DirSlots(dk, d)[i]]
    BY <1>1 DEF Tree
  <2> QED BY <2>1 DEF Listed, Entry
<1>2. ASSUME NEW d \in Folders(dk), NEW i, Listed(dk, d, i), e = Entry(dk, d, i) PROVE e \in Tree(dk)
  BY <1>2 DEF Tree, Listed, Entry
<1> QED BY <1>1, <1>2

(* Every folder but the root has an entry.                                    *)
LEMMA FolderOwned ==
  ASSUME NEW dk, NEW D, NEW F, Consistent(dk, D, F), NEW c \in Folders(dk), c # LayoutOf(dk).root
  PROVE  \E e \in Tree(dk) : e.slot.t = "dir" /\ e.slot.cluster = c
<1> DEFINE Owned(x) == \E e \in Tree(dk) : e.slot.t = "dir" /\ e.slot.cluster = x
           S == {x \in Folders(dk) : x = LayoutOf(dk).root \/ Owned(x)}
<1>1. /\ LayoutOf(dk).root \in S /\ S \in SUBSET Clusters(dk)
      /\ \A d \in Folders(dk) : SubFolders(dk, d) \cap Clusters(dk) \subseteq Folders(dk)
  BY FoldersClosed
<1>2. ASSUME NEW d \in S, NEW x \in SubFolders(dk, d) \cap Clusters(dk) PROVE x \in S
  <2>1. PICK i \in DOMAIN DirSlots(dk, d) :
          DirSlots(dk, d)[i].t = "dir" /\ ~IsDot(DirSlots(dk, d)[i]) /\ x = DirSlots(dk, d)[i].cluster
    BY <1>2 DEF SubFolders, Range
  <2>2. Listed(dk, d, i)
    BY <2>1 DEF Listed, IsEntry
  <2>3. Entry(dk, d, i) \in Tree(dk)
    BY <2>2, InTree
  <2>4. Entry(dk, d, i).slot = DirSlots(dk, d)[i]
    BY DEF Entry
  <2> QED BY <1>1, <1>2, <2>1, <2>3, <2>4
<1>3. Folders(dk) \subseteq S
  <2> HIDE DEF S
  <2> QED BY <1>1, <1>2, FoldersLeast
<1> QED BY <1>3

(* And a folder's entry that names a cluster leads to a folder.               *)
LEMMA EntryLeads ==
  ASSUME NEW dk, CardSet(dk), WellLaid(dk), NEW D, NEW F, Consistent(dk, D, F),
         NEW e \in Tree(dk), e.slot.t = "dir", e.slot.cluster # 0
  PROVE  e.slot.cluster \in Folders(dk)
<1>1. PICK d, i : d \in Folders(dk) /\ Listed(dk, d, i) /\ e = Entry(dk, d, i)
  BY InTree
<1>2. e.slot.cluster \in SubFolders(dk, d)
  BY <1>1 DEF Listed, Entry, SubFolders, Range
<1>3. e.slot.cluster \in Clusters(dk)
  BY TreeStays DEF Allocated
<1> QED BY <1>1, <1>2, <1>3, FoldersClosed
----------------------------------------------------------------------------
(* Chains: the first of a chain, a chain of one cluster, and the chains of    *)
(* the folders, none of which runs into the head of one.                      *)
LEMMA ChainSpec ==
  ASSUME NEW dk, CardSet(dk), WellLaid(dk), NEW c \in Nat
  PROVE  /\ Len(Chain(dk, c)) = ChainLength(dk, c) /\ Len(Chain(dk, c)) \in Nat
         /\ DOMAIN Chain(dk, c) = 1..Len(Chain(dk, c)) /\ EPF * LayoutOf(dk).spf \in Nat
         /\ \A i \in 1..Len(Chain(dk, c)) : Chain(dk, c)[i] = Follow(dk, c)[i - 1] /\ InChain(Chain(dk, c)[i])
         /\ ChainEnds(dk, c) => ~InChain(Follow(dk, c)[Len(Chain(dk, c))])
<1> DEFINE n == ChainLength(dk, c)
           f == Follow(dk, c)
           N == EPF * LayoutOf(dk).spf
<1>1. N \in Nat
  BY Places, DiskAssumption
<1>2. n \in 0..N /\ (\A i \in 0..(n - 1) : InChain(f[i])) /\ (n < N => ~InChain(f[n]))
  BY ChainLengthSpec
<1>3. Chain(dk, c) = [i \in 1..n |-> f[i - 1]]
  BY DEF Chain
<1>4. ChainEnds(dk, c) <=> Len(Chain(dk, c)) < N
  BY DEF ChainEnds
<1> HIDE DEF n, f, N
<1>5. n \in Nat /\ Len(Chain(dk, c)) = n /\ DOMAIN Chain(dk, c) = 1..n
  BY <1>1, <1>2, <1>3
<1>6. ASSUME NEW i \in 1..n PROVE Chain(dk, c)[i] = f[i - 1] /\ InChain(Chain(dk, c)[i])
  <2>1. i - 1 \in 0..(n - 1)
    BY <1>5
  <2> QED BY <1>2, <1>3, <2>1
<1> QED BY <1>1, <1>2, <1>4, <1>5, <1>6 DEF n, f, N

LEMMA ChainHead ==
  ASSUME NEW dk, CardSet(dk), WellLaid(dk), NEW c \in Nat
  PROVE  /\ Len(Chain(dk, c)) > 0 => Chain(dk, c)[1] = c
         /\ InChain(c) => Len(Chain(dk, c)) > 0
<1> DEFINE n == Len(Chain(dk, c))
           N == EPF * LayoutOf(dk).spf
<1>1. Follow(dk, c)[0] = c
  BY FollowSpec
<1>2. n = ChainLength(dk, c) /\ n \in Nat /\ \A i \in 1..n : Chain(dk, c)[i] = Follow(dk, c)[i - 1]
  BY ChainSpec
<1>3. n < N => ~InChain(Follow(dk, c)[n])
  BY <1>2, ChainLengthSpec
<1>4. N > 0
  <2>1. EPF \in Nat \ {0} /\ LayoutOf(dk).spf \in Nat \ {0}
    BY Places, DiskAssumption
  <2> QED BY <2>1
<1> HIDE DEF n, N
<1>5. n > 0 => Chain(dk, c)[1] = c
  <2>1. n > 0 => 1 \in 1..n /\ 1 - 1 = 0
    BY <1>2
  <2> QED BY <1>1, <1>2, <2>1
<1>6. n = 0 => ~InChain(c)
  BY <1>1, <1>3, <1>4
<1> QED BY <1>2, <1>5, <1>6 DEF n

LEMMA OneCluster ==
  ASSUME NEW dk, CardSet(dk), WellLaid(dk), NEW c \in Clusters(dk), InChain(c), TakenEntry(dk, c)
  PROVE  Chain(dk, c) = <<c>> /\ ChainEnds(dk, c) /\ ChainClosed(dk, {c})
<1> DEFINE n == ChainLength(dk, c)
           f == Follow(dk, c)
           N == EPF * LayoutOf(dk).spf
<1>0. EOC # 0 /\ ~InChain(EOC)
  BY DiskAssumption DEF InChain
<1>1. c \in Nat /\ c >= 2 /\ c \in 2..(N - 1)
  BY ClusterPlaces DEF Clusters
<1>2. /\ Len(Chain(dk, c)) = n /\ n \in Nat /\ N \in Nat
      /\ Len(Chain(dk, c)) > 0
  BY <1>1, ChainSpec, ChainHead
<1>3. Chain(dk, c) = [i \in 1..n |-> f[i - 1]]
  BY DEF Chain
<1>4. \A i \in 0..(n - 1) : InChain(f[i])
  BY <1>1, ChainLengthSpec
<1>5. f[0] = c /\ f[0 + 1] = IF InChain(f[0]) THEN FatEntry(dk, f[0]) ELSE 0
  BY <1>1, FollowSpec
<1> HIDE DEF n, f, N
<1>6. f[0] = c /\ ~InChain(f[1])
  <2>1. 0 + 1 = 1
    OBVIOUS
  <2> QED BY <1>0, <1>5, <2>1
<1>7. n = 1
  <2>1. 1 < n => 1 \in 0..(n - 1)
    BY <1>2
  <2> QED BY <1>2, <1>4, <1>6, <2>1
<1>8. Chain(dk, c) = <<c>>
  BY <1>3, <1>6, <1>7
<1>9. ChainEnds(dk, c)
  <2>1. n < N
    BY <1>1, <1>2, <1>7
  <2> QED BY <1>2, <2>1 DEF ChainEnds, N
<1>10. ChainClosed(dk, {c})
  BY <1>0 DEF ChainClosed, Allocated
<1> QED BY <1>8, <1>9, <1>10

(* A chain that ends does not come back to its first cluster.                 *)
LEMMA NoReturn ==
  ASSUME NEW dk, CardSet(dk), WellLaid(dk), NEW c \in Nat, ChainEnds(dk, c),
         NEW i \in 1..Len(Chain(dk, c)), Chain(dk, c)[i] = c
  PROVE  i = 1
<1> DEFINE n == Len(Chain(dk, c))
           f == Follow(dk, c)
           k == i - 1
           T == {m \in Nat : f[k + m] = f[m]}
<1>1. /\ n \in Nat /\ \A j \in 1..n : Chain(dk, c)[j] = f[j - 1] /\ InChain(Chain(dk, c)[j])
      /\ ~InChain(f[n])
  BY ChainSpec
<1>2. f[0] = c /\ \A m \in Nat : f[m + 1] = IF InChain(f[m]) THEN FatEntry(dk, f[m]) ELSE 0
  BY FollowSpec
<1>3. f[k] = c /\ k \in Nat /\ k < n
  <2> HIDE DEF f
  <2> QED BY <1>1
<1> HIDE DEF f, n, k
<1>4. 0 \in T
  <2>1. k + 0 = k
    BY <1>3
  <2> QED BY <1>2, <1>3, <2>1
<1>5. ASSUME NEW m \in T PROVE m + 1 \in T
  <2>1. m \in Nat /\ f[k + m] = f[m] /\ k + m \in Nat /\ k + (m + 1) = (k + m) + 1
    BY <1>3
  <2>2. /\ f[(k + m) + 1] = IF InChain(f[k + m]) THEN FatEntry(dk, f[k + m]) ELSE 0
        /\ f[m + 1] = IF InChain(f[m]) THEN FatEntry(dk, f[m]) ELSE 0
    BY <1>2, <2>1
  <2>3. f[k + (m + 1)] = f[m + 1]
    BY <2>1, <2>2
  <2> QED BY <2>1, <2>3
<1>6. \A m \in Nat : m \in T
  <2> HIDE DEF T
  <2> QED BY <1>4, <1>5, Induction, T \subseteq Nat DEF T
<1>7. ASSUME k > 0 PROVE FALSE
  <2>1. n - k \in Nat /\ k + (n - k) = n /\ (n - k) + 1 \in 1..n /\ ((n - k) + 1) - 1 = n - k
    BY <1>1, <1>3, <1>7
  <2>2. n - k \in T
    BY <1>6, <2>1
  <2>3. f[n] = f[n - k]
    BY <2>1, <2>2
  <2>4. InChain(f[n - k])
    BY <1>1, <2>1
  <2> QED BY <1>1, <2>3, <2>4
<1> QED BY <1>3, <1>7 DEF k

LEMMA HeadsApart ==
  ASSUME NEW dk, CardSet(dk), WellLaid(dk), NEW D, NEW F, Consistent(dk, D, F), Tidy(dk),
         NEW a \in Folders(dk), NEW b \in Folders(dk), NEW i \in 1..Len(Chain(dk, b)), Chain(dk, b)[i] = a
  PROVE  a = b /\ i = 1
<1> DEFINE root == LayoutOf(dk).root
           Of(c) == ClustersOf(dk, c)
<1>1. a \in D /\ b \in D /\ a \in Nat /\ b \in Nat
  BY FoldersStay, InClusters, ClusterPlaces
<1>3. a \in Of(b) /\ a \in Of(a)
  <2>1. a \in Of(b)
    BY <1>1, ChainSpec DEF ToSet, ClustersOf
  <2>2. InChain(a)
    BY <1>1, ChainSpec
  <2>3. Len(Chain(dk, a)) > 0 /\ Chain(dk, a)[1] = a /\ Len(Chain(dk, a)) \in Nat
    BY <1>1, <2>2, ChainHead, ChainSpec
  <2>4. 1 \in DOMAIN Chain(dk, a)
    BY <1>1, <2>3, ChainSpec
  <2> QED BY <2>1, <2>3, <2>4 DEF ToSet, ClustersOf
<1>4. a = b
  <2>1. SUFFICES ASSUME a # b PROVE FALSE
    OBVIOUS
  <2>2. \A c \in {a, b} : c # root => \E e \in Tree(dk) : e.slot.cluster = c /\ e.slot.cluster # 0
    BY <1>1, FolderOwned, InClusters, ClusterPlaces
  <2>3. \A e \in Tree(dk) : e.slot.cluster # 0 => Of(e.slot.cluster) \cap Of(root) = {}
    BY DEF Tidy, Unshared
  <2>4. \A e, f \in Tree(dk) : e.slot.cluster # 0 /\ f.slot.cluster # 0 /\ e # f =>
          Of(e.slot.cluster) \cap Of(f.slot.cluster) = {}
    BY DEF Tidy, Unshared
  <2> HIDE DEF root, Of
  <2>5. CASE a = root
    BY <1>3, <2>1, <2>2, <2>3, <2>5
  <2>6. CASE b = root
    BY <1>3, <2>1, <2>2, <2>3, <2>6
  <2>7. CASE a # root /\ b # root
    <3>1. PICK e \in Tree(dk), f \in Tree(dk) :
            e.slot.cluster = a /\ f.slot.cluster = b /\ e.slot.cluster # 0 /\ f.slot.cluster # 0
      BY <2>2, <2>7
    <3>2. e # f
      BY <2>1, <3>1
    <3> QED BY <1>3, <2>4, <3>1, <3>2
  <2> QED BY <2>5, <2>6, <2>7
<1>5. i = 1
  <2>1. ChainEnds(dk, b)
    BY DEF Tidy
  <2> QED BY <1>1, <1>4, <2>1, NoReturn
<1> QED BY <1>4, <1>5
----------------------------------------------------------------------------
(* What a folder holds, slot by slot, its listing being the slots before the  *)
(* first free one.                                                            *)
Content(dk, d) == AllSlots(ChainSectors(dk, d))
IsTailFree(A) == \A i, j \in DOMAIN A : i < j /\ A[i].t = "free" => A[j].t = "free"
LEMMA ContentSpec ==
  ASSUME NEW dk, CardSet(dk), WellLaid(dk), NEW D, ChainClosed(dk, D), NEW d \in D
  PROVE  /\ SlotCount(dk, d) \in Nat /\ Content(dk, d) \in [1..SlotCount(dk, d) -> SlotSet]
         /\ \A i \in 1..SlotCount(dk, d) :
              /\ ClusterOf(dk, d, i) \in D /\ RankOf(dk, i) \in 1..Len(Chain(dk, d))
              /\ SectorOf(dk, i) \in 0..(LayoutOf(dk).spc - 1) /\ ItemOf(i) \in 1..SLOTS
              /\ Content(dk, d)[i] = SlotAt(dk, ClusterOf(dk, d, i), SectorOf(dk, i), ItemOf(i))
         /\ DirSlots(dk, d) = SlotsUpToEnd(Content(dk, d))
         /\ TailFree(dk, d) <=> IsTailFree(Content(dk, d))
<1> DEFINE A == Content(dk, d)
           M == SlotCount(dk, d)
<1>1. M \in Nat /\ A \in [1..M -> SlotSet]
  BY SlotsPlaced DEF Content
<1>2. DirSlots(dk, d) = SlotsUpToEnd(A)
  BY DEF DirSlots, Content
<1>3. TailFree(dk, d) <=> IsTailFree(A)
  BY DEF TailFree, IsTailFree, Content
<1>5. \A i \in 1..M :
        /\ ClusterOf(dk, d, i) \in D /\ RankOf(dk, i) \in 1..Len(Chain(dk, d))
        /\ SectorOf(dk, i) \in 0..(LayoutOf(dk).spc - 1) /\ ItemOf(i) \in 1..SLOTS
        /\ A[i] = SlotAt(dk, ClusterOf(dk, d, i), SectorOf(dk, i), ItemOf(i))
  BY SlotsPlaced DEF Content
<1> QED BY <1>1, <1>2, <1>3, <1>5

(* The place of a slot in the folder is that of the n-th slot of the folder's *)
(* own first sector only if it is the n-th slot of the folder.                *)
LEMMA FirstSlots ==
  ASSUME NEW dk, CardSet(dk), WellLaid(dk), NEW i \in Nat \ {0}
  PROVE  /\ RankOf(dk, i) = 1 /\ SectorOf(dk, i) = 0 => ItemOf(i) = i
         /\ i <= SLOTS => RankOf(dk, i) = 1 /\ SectorOf(dk, i) = 0 /\ ItemOf(i) = i
<1> DEFINE spc == LayoutOf(dk).spc
           k == (i - 1) \div SLOTS
<1>1. spc \in Nat \ {0} /\ SLOTS \in Nat \ {0}
  BY Places, DiskAssumption
<1>2. RankOf(dk, i) = 1 + (k \div spc) /\ SectorOf(dk, i) = k % spc /\ ItemOf(i) = 1 + ((i - 1) % SLOTS)
  BY DEF RankOf, SectorOf, ItemOf
<1>3. k \in Nat /\ i - 1 \in Nat /\ i - 1 = SLOTS * k + ((i - 1) % SLOTS)
  BY <1>1
<1>4. k = 0 => (i - 1) % SLOTS = i - 1
  BY <1>1, <1>3
<1>5. i <= SLOTS => k = 0
  BY <1>1
<1> HIDE DEF k, spc
<1>6. k \div spc \in Nat /\ k = spc * (k \div spc) + (k % spc) /\ 0 \div spc = 0 /\ 0 % spc = 0
  BY <1>1, <1>3
<1>7. k \div spc = 0 /\ k % spc = 0 => k = 0
  BY <1>1, <1>6
<1>8. 1 + ((i - 1) % SLOTS) = i <=> (i - 1) % SLOTS = i - 1
  <2>1. (i - 1) % SLOTS \in Nat
    BY <1>1, <1>3
  <2> HIDE DEF k
  <2> QED BY <2>1
<1>9. ASSUME RankOf(dk, i) = 1, SectorOf(dk, i) = 0 PROVE ItemOf(i) = i
  <2>1. k \div spc = 0
    BY <1>2, <1>6, <1>9
  <2> QED BY <1>2, <1>4, <1>7, <1>8, <1>9, <2>1
<1>10. ASSUME i <= SLOTS PROVE RankOf(dk, i) = 1 /\ SectorOf(dk, i) = 0 /\ ItemOf(i) = i
  <2>1. k = 0
    BY <1>5, <1>10
  <2>2. k \div spc = 0 /\ k % spc = 0
    BY <1>6, <2>1
  <2> QED BY <1>2, <1>4, <1>8, <2>1, <2>2
<1> QED BY <1>9, <1>10

Takes(old, new, n, entry) ==
  /\ DOMAIN old = 1..Len(old) /\ DOMAIN new = 1..Len(new)
  /\ n \in 1..Len(new) /\ new[n] = entry
  /\ n \in 1..Len(old) => IsUnused(old[n])
  /\ \A i : i # n => (i \in 1..Len(new) <=> i \in 1..Len(old))
  /\ \A i \in 1..Len(new) : i # n => new[i] = old[i]

(* A listing with its first unused slot taken, where all are free behind the  *)
(* first free one.                                                            *)
LEMMA ListingTaken ==
  ASSUME NEW m \in Nat, NEW A \in [1..m -> SlotSet], NEW n \in 1..m, IsUnused(A[n]),
         \A j \in 1..m : j < n => ~IsUnused(A[j]),
         IsTailFree(A), NEW entry \in SlotSet, ~IsUnused(entry), NEW A2, A2 = [A EXCEPT ![n] = entry]
  PROVE  Takes(SlotsUpToEnd(A), SlotsUpToEnd(A2), n, entry) /\ IsTailFree(A2)
<1> DEFINE old == SlotsUpToEnd(A)
           new == SlotsUpToEnd(A2)
           e == EndSlot(A)
           e2 == EndSlot(A2)
<1>0. \A i, j \in 1..m : i < j /\ A[i].t = "free" => A[j].t = "free"
  BY DEF IsTailFree
<1>1. A2 \in [1..m -> SlotSet] /\ A2[n] = entry /\ \A i \in 1..m : i # n => A2[i] = A[i]
  OBVIOUS
<1>2. /\ e \in 0..m /\ (e # 0 => A[e].t = "free")
      /\ (\A i \in 1..m : (e = 0 \/ i < e) => A[i].t # "free")
      /\ Len(old) = (IF e = 0 THEN m ELSE e - 1) /\ DOMAIN old = 1..Len(old)
      /\ \A i \in 1..Len(old) : old[i] = A[i]
  BY EndSlotType
<1>3. /\ e2 \in 0..m /\ (e2 # 0 => A2[e2].t = "free")
      /\ (\A i \in 1..m : (e2 = 0 \/ i < e2) => A2[i].t # "free")
      /\ Len(new) = (IF e2 = 0 THEN m ELSE e2 - 1) /\ DOMAIN new = 1..Len(new)
      /\ \A i \in 1..Len(new) : new[i] = A2[i]
  <2>1. ASSUME NEW B \in [1..m -> SlotSet]
        PROVE  /\ EndSlot(B) \in 0..m /\ (EndSlot(B) # 0 => B[EndSlot(B)].t = "free")
               /\ (\A i \in 1..m : (EndSlot(B) = 0 \/ i < EndSlot(B)) => B[i].t # "free")
               /\ Len(SlotsUpToEnd(B)) = (IF EndSlot(B) = 0 THEN m ELSE EndSlot(B) - 1)
               /\ DOMAIN SlotsUpToEnd(B) = 1..Len(SlotsUpToEnd(B))
               /\ \A i \in 1..Len(SlotsUpToEnd(B)) : SlotsUpToEnd(B)[i] = B[i]
    BY EndSlotType
  <2> QED BY <1>1, <2>1
<1> HIDE DEF old, new, e, e2
<1>4. IsTailFree(A2)
  <2>1. \A i, j \in 1..m : i < j /\ A2[i].t = "free" => A2[j].t = "free"
    BY <1>0, <1>1 DEF IsUnused
  <2> QED BY <1>1, <2>1 DEF IsTailFree
<1>5. e2 # 0 => e2 > n
  <2>1. ASSUME e2 # 0, e2 < n PROVE FALSE
    <3>1. e2 \in 1..m /\ A2[e2] = A[e2]
      BY <1>1, <1>3, <2>1
    <3> QED BY <1>3, <2>1, <3>1 DEF IsUnused
  <2>2. e2 # n
    BY <1>1, <1>3 DEF IsUnused
  <2> QED BY <1>3, <2>1, <2>2
<1>6. CASE A[n].t = "free"
  <2>1. e = n
    <3>1. e # 0 /\ e <= n
      BY <1>2, <1>6
    <3>2. e < n => FALSE
      BY <1>2, <3>1 DEF IsUnused
    <3> QED BY <1>2, <3>1, <3>2
  <2>2. ASSUME n < m PROVE e2 = n + 1
    <3>1. n + 1 \in 1..m /\ A2[n + 1].t = "free"
      BY <1>0, <1>1, <1>6, <2>2
    <3> QED BY <1>3, <1>5, <3>1
  <2>3. n = m => e2 = 0
    BY <1>3, <1>5
  <2>4. Len(old) = n - 1 /\ Len(new) = n
    BY <1>2, <1>3, <2>1, <2>2, <2>3
  <2>5. n \in 1..Len(new) /\ ~(n \in 1..Len(old)) /\ \A i : i # n => (i \in 1..Len(new) <=> i \in 1..Len(old))
    BY <2>4
  <2>6. new[n] = entry
    BY <1>1, <1>3, <2>5
  <2>7. \A i \in 1..Len(new) : i # n => new[i] = old[i]
    <3>1. ASSUME NEW i \in 1..Len(new), i # n PROVE new[i] = old[i]
      <4>1. i \in 1..Len(old) /\ i \in 1..m
        BY <2>4, <3>1
      <4> QED BY <1>1, <1>2, <1>3, <3>1, <4>1
    <3> QED BY <3>1
  <2> QED BY <1>2, <1>3, <1>4, <2>5, <2>6, <2>7 DEF old, new, Takes
<1>7. CASE A[n].t # "free"
  <2>1. e2 = e
    <3>1. ASSUME e # 0 PROVE e2 # 0 /\ e2 <= e
      <4>1. e \in 1..m /\ e # n /\ A2[e] = A[e]
        BY <1>1, <1>2, <1>7, <3>1
      <4> QED BY <1>2, <1>3, <3>1, <4>1
    <3>2. ASSUME e2 # 0 PROVE e # 0 /\ e <= e2
      <4>1. e2 \in 1..m /\ e2 # n /\ A2[e2] = A[e2]
        BY <1>1, <1>3, <1>5, <3>2
      <4> QED BY <1>2, <1>3, <3>2, <4>1
    <3> QED BY <1>2, <1>3, <3>1, <3>2
  <2>2. Len(new) = Len(old) /\ Len(new) \in 0..m /\ n \in 1..Len(new)
    BY <1>2, <1>3, <1>5, <2>1
  <2>3. \A i \in 1..Len(new) : i \in 1..m
    BY <2>2
  <2>4. new[n] = entry /\ (n \in 1..Len(old) => IsUnused(old[n]))
        /\ (\A i : i # n => (i \in 1..Len(new) <=> i \in 1..Len(old)))
        /\ \A i \in 1..Len(new) : i # n => new[i] = old[i]
    BY <1>1, <1>2, <1>3, <2>2, <2>3
  <2> QED BY <1>2, <1>3, <1>4, <2>2, <2>4 DEF old, new, Takes
<1> QED BY <1>6, <1>7
----------------------------------------------------------------------------
(* A folder that mkdir made: "." and "..", and nothing else.                  *)
NewFolderOn(dk, c, parent) ==
  /\ c \in Clusters(dk) /\ InChain(c) /\ TakenEntry(dk, c)
  /\ \A s \in 0..(LayoutOf(dk).spc - 1) :
       Fetch(dk, DataLba(LayoutOf(dk), c, s)) = IF s = 0 THEN DotSector(c, parent) ELSE ZeroSector
LEMMA NewContent ==
  ASSUME NEW dk, CardSet(dk), WellLaid(dk), NEW c, NEW parent \in Nat, NewFolderOn(dk, c, parent)
  PROVE  /\ SlotCount(dk, c) \in Nat /\ SlotCount(dk, c) >= 2
         /\ Content(dk, c) \in [1..SlotCount(dk, c) -> SlotSet]
         /\ \A i \in 1..SlotCount(dk, c) :
              Content(dk, c)[i] = IF i = 1 THEN Slot("dir", DotName, c, 0)
                                  ELSE IF i = 2 THEN Slot("dir", DotDotName, parent, 0) ELSE FreeSlot
<1> DEFINE spc == LayoutOf(dk).spc
           M == SlotCount(dk, c)
<1>1. /\ spc \in Nat \ {0} /\ SLOTS \in Nat /\ SLOTS >= 2
      /\ c \in Nat /\ Chain(dk, c) = <<c>> /\ ChainClosed(dk, {c})
  BY Places, DiskAssumption, ClusterPlaces, OneCluster DEF NewFolderOn
<1>2. /\ M \in Nat /\ Content(dk, c) \in [1..M -> SlotSet]
      /\ \A i \in 1..M :
           /\ ClusterOf(dk, c, i) \in {c} /\ RankOf(dk, i) \in 1..Len(Chain(dk, c))
           /\ SectorOf(dk, i) \in 0..(spc - 1) /\ ItemOf(i) \in 1..SLOTS
           /\ Content(dk, c)[i] = SlotAt(dk, ClusterOf(dk, c, i), SectorOf(dk, i), ItemOf(i))
  BY <1>1, ContentSpec
<1>3. M >= 2
  <2>1. M = 1 * spc * SLOTS
    BY <1>1 DEF SlotCount
  <2> HIDE DEF spc, M
  <2>2. spc * SLOTS >= 1 * SLOTS
    BY <1>1
  <2> QED BY <1>1, <2>1, <2>2
<1>4. ASSUME NEW i \in 1..M
      PROVE  Content(dk, c)[i] = IF i = 1 THEN Slot("dir", DotName, c, 0)
                                 ELSE IF i = 2 THEN Slot("dir", DotDotName, parent, 0) ELSE FreeSlot
  <2>1. RankOf(dk, i) = 1 /\ i \in Nat \ {0}
    BY <1>1, <1>2
  <2>2. Content(dk, c)[i] = SlotAt(dk, c, SectorOf(dk, i), ItemOf(i))
    BY <1>2
  <2>3. SectorOf(dk, i) \in 0..(spc - 1) /\ ItemOf(i) \in 1..SLOTS
    BY <1>2
  <2>4. SectorOf(dk, i) = 0 => ItemOf(i) = i
    BY <2>1, FirstSlots
  <2>5. i <= 2 => SectorOf(dk, i) = 0
    BY <1>1, <2>1, FirstSlots
  <2> HIDE DEF M, spc
  <2>6. CASE SectorOf(dk, i) = 0
    <3>1. Content(dk, c)[i] = Slots(DotSector(c, parent))[i] /\ i \in 1..SLOTS
      BY <2>2, <2>3, <2>4, <2>6 DEF SlotAt, NewFolderOn, spc
    <3> QED BY <3>1 DEF Slots, DotSector
  <2>7. CASE SectorOf(dk, i) # 0
    <3>1. Content(dk, c)[i] = Slots(ZeroSector)[ItemOf(i)]
      BY <2>2, <2>3, <2>7 DEF SlotAt, NewFolderOn, spc
    <3>2. Content(dk, c)[i] = FreeSlot
      BY <2>3, <3>1 DEF Slots, ZeroSector
    <3> QED BY <2>5, <2>7, <3>2
  <2> QED BY <2>6, <2>7
<1> QED BY <1>2, <1>3, <1>4

LEMMA NewFolder ==
  ASSUME NEW dk, CardSet(dk), WellLaid(dk), NEW c, NEW parent \in Nat, NewFolderOn(dk, c, parent)
  PROVE  /\ Chain(dk, c) = <<c>> /\ ChainEnds(dk, c) /\ TailFree(dk, c)
         /\ DOMAIN DirSlots(dk, c) = 1..Len(DirSlots(dk, c)) /\ Len(DirSlots(dk, c)) = 2
         /\ DirSlots(dk, c)[1] = Slot("dir", DotName, c, 0)
         /\ DirSlots(dk, c)[2] = Slot("dir", DotDotName, parent, 0)
         /\ SubFolders(dk, c) = {} /\ \A i : ~Listed(dk, c, i)
<1> DEFINE A == Content(dk, c)
           M == SlotCount(dk, c)
           new == DirSlots(dk, c)
<1>1. Chain(dk, c) = <<c>> /\ ChainEnds(dk, c) /\ ChainClosed(dk, {c})
  BY OneCluster DEF NewFolderOn
<1>2. /\ M \in Nat /\ M >= 2 /\ A \in [1..M -> SlotSet]
      /\ \A i \in 1..M :
           A[i] = IF i = 1 THEN Slot("dir", DotName, c, 0)
                  ELSE IF i = 2 THEN Slot("dir", DotDotName, parent, 0) ELSE FreeSlot
  BY NewContent, Zenon
<1>3. new = SlotsUpToEnd(A)
      /\ (TailFree(dk, c) <=> IsTailFree(A))
  BY <1>1, ContentSpec
<1> HIDE DEF A, M
<1>4. \A i \in 1..M : A[i].t = "free" <=> i > 2
  <2>1. /\ Slot("dir", DotName, c, 0).t = "dir" /\ Slot("dir", DotDotName, parent, 0).t = "dir"
        /\ FreeSlot.t = "free"
    BY DEF Slot, FreeSlot
  <2>2. ASSUME NEW i \in 1..M PROVE A[i].t = "free" <=> i > 2
    <3>1. i = 1 \/ i = 2 \/ i > 2
      BY <1>2
    <3> QED BY <1>2, <2>1, <3>1
  <2> QED BY <2>2
<1>5. TailFree(dk, c)
  BY <1>2, <1>3, <1>4 DEF IsTailFree
<1>6. /\ EndSlot(A) \in 0..M /\ (EndSlot(A) # 0 => A[EndSlot(A)].t = "free")
      /\ (\A i \in 1..M : (EndSlot(A) = 0 \/ i < EndSlot(A)) => A[i].t # "free")
      /\ Len(new) = (IF EndSlot(A) = 0 THEN M ELSE EndSlot(A) - 1) /\ DOMAIN new = 1..Len(new)
      /\ \A i \in 1..Len(new) : new[i] = A[i]
  <2>1. M \in Nat /\ A \in [1..M -> SlotSet] /\ new = SlotsUpToEnd(A)
    BY <1>2, <1>3
  <2> HIDE DEF new
  <2>2. DOMAIN new = 1..Len(new)
    BY <2>1, EndSlotType
  <2> QED BY <2>1, <2>2, EndSlotType
<1>7. Len(new) = 2
  <2>1. CASE EndSlot(A) = 0
    <3>1. M < 3
      BY <1>2, <1>4, <1>6, <2>1
    <3> QED BY <1>2, <1>6, <2>1, <3>1
  <2>2. CASE EndSlot(A) # 0
    <3>1. EndSlot(A) \in 1..M /\ EndSlot(A) > 2
      BY <1>2, <1>4, <1>6, <2>2
    <3>2. ~(3 < EndSlot(A))
      BY <1>2, <1>4, <1>6, <3>1
    <3> QED BY <1>6, <2>2, <3>1, <3>2
  <2> QED BY <2>1, <2>2
<1> HIDE DEF new
<1>8. new[1] = Slot("dir", DotName, c, 0) /\ new[2] = Slot("dir", DotDotName, parent, 0)
  <2>1. 1 \in 1..M /\ 2 \in 1..M /\ 1 \in 1..Len(new) /\ 2 \in 1..Len(new)
    BY <1>2, <1>7
  <2>2. new[1] = A[1] /\ new[2] = A[2]
    BY <1>6, <2>1
  <2> QED BY <1>2, <2>1, <2>2
<1>9. \A i \in DOMAIN new : IsDot(new[i])
  <2>1. \A i \in DOMAIN new : i = 1 \/ i = 2
    <3>1. DOMAIN new = 1..2
      BY <1>6, <1>7
    <3> QED BY <3>1
  <2> QED BY <1>8, <2>1 DEF IsDot, Slot
<1>10. SubFolders(dk, c) = {} /\ \A i : ~Listed(dk, c, i)
  BY <1>9 DEF SubFolders, Listed, Range, new
<1> QED BY <1>1, <1>5, <1>6, <1>7, <1>8, <1>10 DEF new

----------------------------------------------------------------------------
(* What stays when no folder and no file changes.                             *)
LEMMA FolderSame ==
  ASSUME NEW dk, CardSet(dk), WellLaid(dk), NEW D, NEW F, Consistent(dk, D, F),
         NEW dk2, Unmoved(dk, dk2, D, F), NEW d \in D \cup {0}
  PROVE  Chain(dk2, d) = Chain(dk, d) /\ Content(dk2, d) = Content(dk, d) /\ DirSlots(dk2, d) = DirSlots(dk, d)
<1>1. /\ CardSet(dk2) /\ WellLaid(dk2) /\ LayoutOf(dk2) = LayoutOf(dk)
      /\ \A c \in D : SameEntry(dk, dk2, c)
      /\ \A c \in D : \A s \in 0..(LayoutOf(dk).spc - 1) :
           Fetch(dk2, DataLba(LayoutOf(dk), c, s)) = Fetch(dk, DataLba(LayoutOf(dk), c, s))
  BY DEF Unmoved, Harmless
<1>2. ChainClosed(dk, D)
  BY DEF Consistent
<1>3. Chain(dk2, d) = Chain(dk, d) /\ ChainSectors(dk2, d) = ChainSectors(dk, d)
  BY <1>1, <1>2, SectorsSame
<1> QED BY <1>3 DEF Content, DirSlots

LEMMA TreeSame ==
  ASSUME NEW dk, CardSet(dk), WellLaid(dk), NEW D, NEW F, Consistent(dk, D, F),
         NEW dk2, Unmoved(dk, dk2, D, F), Consistent(dk2, D, F)
  PROVE  Folders(dk2) = Folders(dk) /\ Tree(dk2) = Tree(dk)
<1>1. LayoutOf(dk2) = LayoutOf(dk) /\ Clusters(dk2) = Clusters(dk) /\ CardSet(dk2) /\ WellLaid(dk2)
  BY DEF Unmoved, Harmless, Clusters
<1>2. /\ LayoutOf(dk).root \in Folders(dk) /\ Folders(dk) \in SUBSET Clusters(dk) /\ Folders(dk) \subseteq D
      /\ \A d \in Folders(dk) : SubFolders(dk, d) \cap Clusters(dk) \subseteq Folders(dk)
  BY FoldersClosed, FoldersStay
<1>3. /\ LayoutOf(dk).root \in Folders(dk2) /\ Folders(dk2) \in SUBSET Clusters(dk) /\ Folders(dk2) \subseteq D
      /\ \A d \in Folders(dk2) : SubFolders(dk2, d) \cap Clusters(dk) \subseteq Folders(dk2)
  BY <1>1, FoldersClosed, FoldersStay
<1>4. \A d \in D : DirSlots(dk2, d) = DirSlots(dk, d) /\ SubFolders(dk2, d) = SubFolders(dk, d)
  BY FolderSame DEF SubFolders
<1>5. Folders(dk2) \subseteq Folders(dk)
  BY <1>1, <1>2, <1>4, FoldersLeast
<1>6. Folders(dk) \subseteq Folders(dk2)
  BY <1>1, <1>3, <1>4, FoldersLeast
<1>7. Folders(dk2) = Folders(dk)
  BY <1>5, <1>6
<1>8. \A d \in D : \A i : (Listed(dk2, d, i) <=> Listed(dk, d, i)) /\ Entry(dk2, d, i) = Entry(dk, d, i)
  BY <1>4 DEF Listed, Entry
<1>9. ASSUME NEW e PROVE e \in Tree(dk2) <=> e \in Tree(dk)
  <2>1. e \in Tree(dk) <=> \E d \in Folders(dk) : \E i : Listed(dk, d, i) /\ e = Entry(dk, d, i)
    BY InTree
  <2>2. e \in Tree(dk2) <=> \E d \in Folders(dk) : \E i : Listed(dk2, d, i) /\ e = Entry(dk2, d, i)
    BY <1>7, InTree
  <2> QED BY <1>2, <1>8, <2>1, <2>2
<1>10. \A e : e \in Tree(dk2) <=> e \in Tree(dk)
  BY <1>9
<1> QED BY <1>7, <1>10

LEMMA ChainsStay ==
  ASSUME NEW dk, CardSet(dk), WellLaid(dk), NEW D, NEW F, Consistent(dk, D, F),
         NEW dk2, Harmless(dk, dk2, D, F), NEW c \in D \cup F \cup {0}
  PROVE  Chain(dk2, c) = Chain(dk, c) /\ ClustersOf(dk2, c) = ClustersOf(dk, c)
<1>1. /\ CardSet(dk2) /\ WellLaid(dk2) /\ LayoutOf(dk2) = LayoutOf(dk)
      /\ \A x \in D \cup F : SameEntry(dk, dk2, x)
  BY DEF Harmless
<1>2. ChainClosed(dk, D) /\ ChainClosed(dk, F)
  BY DEF Consistent
<1>3. Chain(dk2, c) = Chain(dk, c)
  <2>1. CASE c \in D \cup {0}
    BY <1>1, <1>2, <2>1, ChainKept
  <2>2. CASE c \in F
    BY <1>1, <1>2, <2>2, ChainKept
  <2> QED BY <2>1, <2>2
<1> QED BY <1>3 DEF ClustersOf

LEMMA ClustersIn ==
  ASSUME NEW dk, CardSet(dk), WellLaid(dk), NEW D, NEW F, Consistent(dk, D, F)
  PROVE  /\ \A c \in D \cup F \cup {0} : ClustersOf(dk, c) \subseteq D \cup F
         /\ \A e \in Tree(dk) : e.slot.cluster \in D \cup F \cup {0} /\ (e.slot.t = "dir" => e.slot.cluster \in D \cup {0})
         /\ LayoutOf(dk).root \in D
<1>1. ChainClosed(dk, D) /\ ChainClosed(dk, F) /\ LayoutOf(dk).root \in D
  BY DEF Consistent
<1>2. ASSUME NEW c \in D \cup F \cup {0} PROVE ClustersOf(dk, c) \subseteq D \cup F
  <2>1. CASE c \in D \cup {0}
    BY <1>1, <2>1, ChainStays DEF ClustersOf, ToSet
  <2>2. CASE c \in F
    BY <1>1, <2>2, ChainStays DEF ClustersOf, ToSet
  <2> QED BY <2>1, <2>2
<1>3. ASSUME NEW e \in Tree(dk)
      PROVE  e.slot.cluster \in D \cup F \cup {0} /\ (e.slot.t = "dir" => e.slot.cluster \in D \cup {0})
  BY TreeStays DEF LeadsTo
<1> QED BY <1>1, <1>2, <1>3

LEMMA TidySame ==
  ASSUME NEW dk, CardSet(dk), WellLaid(dk), NEW D, NEW F, Consistent(dk, D, F), Tidy(dk),
         NEW dk2, Unmoved(dk, dk2, D, F), Consistent(dk2, D, F)
  PROVE  Tidy(dk2)
<1>1. LayoutOf(dk2) = LayoutOf(dk) /\ Clusters(dk2) = Clusters(dk) /\ DOMAIN dk2 = DOMAIN dk
      /\ Harmless(dk, dk2, D, F)
  BY DEF Unmoved, Harmless, Clusters
<1>2. Folders(dk2) = Folders(dk) /\ Tree(dk2) = Tree(dk) /\ Folders(dk) \subseteq D
  BY TreeSame, FoldersStay
<1>3. \A d \in Folders(dk2) : ChainEnds(dk2, d) /\ TailFree(dk2, d)
  <2>1. ASSUME NEW d \in Folders(dk2) PROVE ChainEnds(dk2, d) /\ TailFree(dk2, d)
    <3>1. ChainEnds(dk, d) /\ TailFree(dk, d)
      BY <1>2 DEF Tidy
    <3>2. Chain(dk2, d) = Chain(dk, d) /\ Content(dk2, d) = Content(dk, d)
      BY <1>2, FolderSame
    <3> QED BY <1>1, <3>1, <3>2 DEF ChainEnds, TailFree, Content
  <2> QED BY <2>1
<1>4. \A e \in Tree(dk) : e.slot.cluster \in D \cup F \cup {0} /\ (e.slot.t = "dir" => e.slot.cluster \in D \cup {0})
  BY ClustersIn
<1>5. Unshared(dk2, Tree(dk2))
  <2>1. Unshared(dk, Tree(dk)) /\ LayoutOf(dk).root \in D
    BY ClustersIn DEF Tidy
  <2>2. \A c \in D \cup F \cup {0} : ClustersOf(dk2, c) = ClustersOf(dk, c)
    BY <1>1, ChainsStay
  <2> QED BY <1>1, <1>2, <1>4, <2>1, <2>2 DEF Unshared
<1>6. Complete(dk2, Tree(dk2))
  <2>1. Complete(dk, Tree(dk))
    BY DEF Tidy
  <2>2. \A c \in D \cup {0} : DirSlots(dk2, c) = DirSlots(dk, c)
    BY FolderSame
  <2> QED BY <1>1, <1>2, <1>4, <2>1, <2>2 DEF Complete, StartsWithDots, NamesOf
<1>7. \A c \in Clusters(dk2) : c < EOC /\ (c < EPF => OnCard(dk2, c))
  BY <1>1 DEF Tidy, OnCard
<1> QED BY <1>3, <1>5, <1>6, <1>7 DEF Tidy

----------------------------------------------------------------------------
(* What changes when a folder takes an entry.                                 *)
SlotTaken(dk, dk2, D, F, d, n, entry) ==
  /\ Harmless(dk, dk2, D, F) /\ DOMAIN dk2 = DOMAIN dk
  /\ d \in Folders(dk) /\ n \in 1..SLOTS /\ entry \in SlotSet /\ ~IsUnused(entry)
  /\ IsUnused(SlotAt(dk, d, 0, n)) /\ \A i \in 1..SLOTS : i < n => ~IsUnused(SlotAt(dk, d, 0, i))
  /\ \A c \in D : \A s \in 0..(LayoutOf(dk).spc - 1) : \A i \in 1..SLOTS :
       SlotAt(dk2, c, s, i) = IF c = d /\ s = 0 /\ i = n THEN entry ELSE SlotAt(dk, c, s, i)
LEMMA ContentTaken ==
  ASSUME NEW dk, CardSet(dk), WellLaid(dk), NEW D, NEW F, Consistent(dk, D, F), Tidy(dk),
         NEW dk2, NEW d, NEW n, NEW entry, SlotTaken(dk, dk2, D, F, d, n, entry), NEW b \in Folders(dk)
  PROVE  /\ Content(dk2, b) = IF b = d THEN [Content(dk, d) EXCEPT ![n] = entry] ELSE Content(dk, b)
         /\ SlotCount(dk2, b) = SlotCount(dk, b)
         /\ n \in 1..SlotCount(dk, d) /\ IsUnused(Content(dk, d)[n])
         /\ \A j \in 1..SlotCount(dk, d) : j < n => ~IsUnused(Content(dk, d)[j])
<1> DEFINE M(x) == SlotCount(dk, x)
<1>1. /\ CardSet(dk2) /\ WellLaid(dk2) /\ LayoutOf(dk2) = LayoutOf(dk)
      /\ d \in Folders(dk) /\ d \in D /\ b \in D /\ d \in Nat /\ d \in Clusters(dk)
  BY FoldersStay, InClusters, ClusterPlaces DEF SlotTaken, Harmless
<1>2. /\ ChainClosed(dk, D) /\ ChainClosed(dk2, D) /\ Chain(dk2, b) = Chain(dk, b)
  <2>1. ChainClosed(dk, D) /\ \A x \in D : SameEntry(dk, dk2, x)
    BY DEF Consistent, SlotTaken, Harmless
  <2>2. ChainClosed(dk2, D)
    BY <1>1, <2>1, ChainClosedKept
  <2>3. Chain(dk2, b) = Chain(dk, b)
    <3>1. b \in D \cup {0}
      BY <1>1
    <3> HIDE DEF M
    <3> QED BY <1>1, <2>1, <3>1, ChainKept
  <2> QED BY <2>1, <2>2, <2>3
<1>3. /\ SlotCount(dk2, b) = SlotCount(dk, b)
      /\ \A i : /\ ClusterOf(dk2, b, i) = ClusterOf(dk, b, i)
                /\ RankOf(dk2, i) = RankOf(dk, i) /\ SectorOf(dk2, i) = SectorOf(dk, i)
  BY <1>1, <1>2 DEF SlotCount, ClusterOf, RankOf, SectorOf
<1>4. \A x \in D :
        /\ M(x) \in Nat /\ Content(dk, x) \in [1..M(x) -> SlotSet]
        /\ \A i \in 1..M(x) :
             /\ ClusterOf(dk, x, i) \in D /\ RankOf(dk, i) \in 1..Len(Chain(dk, x))
             /\ SectorOf(dk, i) \in 0..(LayoutOf(dk).spc - 1) /\ ItemOf(i) \in 1..SLOTS
             /\ Content(dk, x)[i] = SlotAt(dk, ClusterOf(dk, x, i), SectorOf(dk, i), ItemOf(i))
  BY <1>2, ContentSpec
<1>5. /\ Content(dk2, b) \in [1..M(b) -> SlotSet]
      /\ \A i \in 1..M(b) :
           Content(dk2, b)[i] = SlotAt(dk2, ClusterOf(dk, b, i), SectorOf(dk, i), ItemOf(i))
  BY <1>1, <1>2, <1>3, ContentSpec
<1>6. SLOTS <= M(d) /\ SLOTS \in Nat /\ ClusterOf(dk, d, 1) = d /\ Len(Chain(dk, d)) > 0 /\ Chain(dk, d)[1] = d
  <2>1. InChain(d)
    <3>1. d < EOC /\ d # 0
      BY <1>1, ClusterPlaces DEF Tidy
    <3> QED BY <3>1 DEF InChain
  <2>2. Len(Chain(dk, d)) > 0 /\ Chain(dk, d)[1] = d /\ Len(Chain(dk, d)) \in Nat
    BY <1>1, <2>1, ChainHead, ChainSpec
  <2>3. LayoutOf(dk).spc \in Nat \ {0} /\ SLOTS \in Nat \ {0}
    BY Places, DiskAssumption
  <2>4. ASSUME NEW x \in Nat \ {0}, NEW y \in Nat \ {0}, NEW z \in Nat PROVE x * y * z >= z
    <3>1. x * y \in Nat /\ x * y >= 1
      BY <2>4
    <3>2. ASSUME NEW v \in Nat, v >= 1 PROVE v * z >= z
      BY <3>2
    <3> QED BY <3>1, <3>2
  <2>5. M(d) >= SLOTS
    <3>1. M(d) = Len(Chain(dk, d)) * LayoutOf(dk).spc * SLOTS
      BY DEF SlotCount
    <3>2. Len(Chain(dk, d)) \in Nat \ {0} /\ SLOTS \in Nat
      BY <2>2, <2>3
    <3> QED BY <2>3, <2>4, <3>1, <3>2
  <2>6. RankOf(dk, 1) = 1
    BY <2>3, FirstSlots
  <2> QED BY <2>2, <2>3, <2>5, <2>6 DEF ClusterOf
<1>7. \A j \in 1..SLOTS : /\ RankOf(dk, j) = 1 /\ SectorOf(dk, j) = 0 /\ ItemOf(j) = j
                          /\ j \in 1..M(d) /\ Content(dk, d)[j] = SlotAt(dk, d, 0, j)
  <2>1. ASSUME NEW j \in 1..SLOTS
        PROVE  /\ RankOf(dk, j) = 1 /\ SectorOf(dk, j) = 0 /\ ItemOf(j) = j
               /\ j \in 1..M(d) /\ Content(dk, d)[j] = SlotAt(dk, d, 0, j)
    <3>1. j \in Nat \ {0} /\ j <= SLOTS /\ j \in 1..M(d)
      BY <1>1, <1>4, <1>6
    <3>2. RankOf(dk, j) = 1 /\ SectorOf(dk, j) = 0 /\ ItemOf(j) = j
      BY <3>1, FirstSlots
    <3>3. ClusterOf(dk, d, j) = d
      BY <1>6, <3>2 DEF ClusterOf
    <3> HIDE DEF M
    <3> QED BY <1>1, <1>4, <3>1, <3>2, <3>3
  <2> QED BY <2>1
<1>8. /\ n \in 1..SLOTS /\ IsUnused(SlotAt(dk, d, 0, n)) /\ \A i \in 1..SLOTS : i < n => ~IsUnused(SlotAt(dk, d, 0, i))
      /\ \A c \in D : \A s \in 0..(LayoutOf(dk).spc - 1) : \A i \in 1..SLOTS :
           SlotAt(dk2, c, s, i) = IF c = d /\ s = 0 /\ i = n THEN entry ELSE SlotAt(dk, c, s, i)
  BY DEF SlotTaken
<1>9. ASSUME NEW i \in 1..M(b)
      PROVE  Content(dk2, b)[i] = IF b = d /\ i = n THEN entry ELSE Content(dk, b)[i]
  <2>1. CASE b = d /\ i = n
    <3>1. RankOf(dk, n) = 1 /\ SectorOf(dk, n) = 0 /\ ItemOf(n) = n /\ ClusterOf(dk, d, n) = d
      BY <1>6, <1>7, <1>8 DEF ClusterOf
    <3>2. Content(dk2, b)[i] = SlotAt(dk2, d, 0, n)
      BY <1>5, <2>1, <3>1
    <3>3. 0 \in 0..(LayoutOf(dk).spc - 1)
      <4>1. i \in 1..M(d) /\ SectorOf(dk, i) \in 0..(LayoutOf(dk).spc - 1)
        BY <1>1, <1>4, <2>1
      <4> QED BY <2>1, <3>1, <4>1
    <3> QED BY <1>1, <1>8, <2>1, <3>2, <3>3
  <2>2. CASE ~(b = d /\ i = n)
    <3>1. ~(ClusterOf(dk, b, i) = d /\ SectorOf(dk, i) = 0 /\ ItemOf(i) = n)
      <4>1. SUFFICES ASSUME ClusterOf(dk, b, i) = d, SectorOf(dk, i) = 0, ItemOf(i) = n PROVE FALSE
        OBVIOUS
      <4>2. RankOf(dk, i) \in 1..Len(Chain(dk, b)) /\ Chain(dk, b)[RankOf(dk, i)] = d
        BY <1>1, <1>4, <4>1 DEF ClusterOf
      <4>3. b = d /\ RankOf(dk, i) = 1
        BY <1>1, <4>2, HeadsApart
      <4>4. i \in Nat \ {0}
        BY <1>1, <1>4
      <4>5. ItemOf(i) = i
        BY <4>1, <4>3, <4>4, FirstSlots
      <4> QED BY <2>2, <4>1, <4>3, <4>5
    <3>2. /\ ClusterOf(dk, b, i) \in D
          /\ SectorOf(dk, i) \in 0..(LayoutOf(dk).spc - 1) /\ ItemOf(i) \in 1..SLOTS
          /\ Content(dk, b)[i] = SlotAt(dk, ClusterOf(dk, b, i), SectorOf(dk, i), ItemOf(i))
      BY <1>1, <1>4
    <3>3. Content(dk2, b)[i] = SlotAt(dk2, ClusterOf(dk, b, i), SectorOf(dk, i), ItemOf(i))
      BY <1>5
    <3>4. SlotAt(dk2, ClusterOf(dk, b, i), SectorOf(dk, i), ItemOf(i))
          = SlotAt(dk, ClusterOf(dk, b, i), SectorOf(dk, i), ItemOf(i))
      BY <1>8, <3>1, <3>2
    <3> QED BY <2>2, <3>2, <3>3, <3>4
  <2> QED BY <2>1, <2>2
<1> HIDE DEF M
<1>10. Content(dk2, b) = IF b = d THEN [Content(dk, d) EXCEPT ![n] = entry] ELSE Content(dk, b)
  <2>1. Content(dk, b) \in [1..M(b) -> SlotSet]
    BY <1>1, <1>4
  <2>2. CASE b = d
    <3>1. \A i \in 1..M(b) : Content(dk2, b)[i] = [Content(dk, b) EXCEPT ![n] = entry][i]
      BY <1>9, <2>1, <2>2
    <3> QED BY <1>5, <2>1, <2>2, <3>1
  <2>3. CASE b # d
    <3>1. \A i \in 1..M(b) : Content(dk2, b)[i] = Content(dk, b)[i]
      BY <1>9, <2>3
    <3>2. Content(dk2, b) = Content(dk, b)
      <4> DEFINE f == Content(dk2, b)
                 g == Content(dk, b)
      <4>1. /\ f = [i \in 1..M(b) |-> f[i]] /\ g = [i \in 1..M(b) |-> g[i]]
            /\ \A i \in 1..M(b) : f[i] = g[i]
        BY <1>5, <2>1, <3>1
      <4> HIDE DEF f, g
      <4>2. f = g
        BY <4>1
      <4> QED BY <4>2 DEF f, g
    <3> QED BY <2>3, <3>2
  <2> QED BY <2>2, <2>3
<1>11. \A j \in 1..M(d) : j < n => j \in 1..SLOTS
  BY <1>1, <1>4, <1>6, <1>8
<1> QED BY <1>3, <1>7, <1>8, <1>10, <1>11 DEF M

(* The listings that come of it.                                              *)
LEMMA ListingsTaken ==
  ASSUME NEW dk, CardSet(dk), WellLaid(dk), NEW D, NEW F, Consistent(dk, D, F), Tidy(dk),
         NEW dk2, NEW d, NEW n, NEW entry, SlotTaken(dk, dk2, D, F, d, n, entry)
  PROVE  /\ \A b \in Folders(dk) : b # d => DirSlots(dk2, b) = DirSlots(dk, b)
         /\ Takes(DirSlots(dk, d), DirSlots(dk2, d), n, entry)
         /\ \A b \in Folders(dk) : ChainEnds(dk2, b) /\ TailFree(dk2, b)
<1> DEFINE M(x) == SlotCount(dk, x)
<1>1. /\ CardSet(dk2) /\ WellLaid(dk2) /\ LayoutOf(dk2) = LayoutOf(dk) /\ d \in Folders(dk)
      /\ Harmless(dk, dk2, D, F) /\ Folders(dk) \subseteq D /\ entry \in SlotSet /\ ~IsUnused(entry)
  BY FoldersStay DEF SlotTaken, Harmless
<1>2. /\ ChainClosed(dk, D) /\ ChainClosed(dk2, D)
  <2>1. ChainClosed(dk, D) /\ \A x \in D : SameEntry(dk, dk2, x)
    BY DEF Consistent, SlotTaken, Harmless
  <2> QED BY <1>1, <2>1, ChainClosedKept
<1>3. ASSUME NEW b \in Folders(dk)
      PROVE  /\ M(b) \in Nat /\ Content(dk, b) \in [1..M(b) -> SlotSet]
             /\ SlotCount(dk2, b) = M(b)
             /\ DirSlots(dk, b) = SlotsUpToEnd(Content(dk, b)) /\ DirSlots(dk2, b) = SlotsUpToEnd(Content(dk2, b))
             /\ IsTailFree(Content(dk, b)) /\ (TailFree(dk2, b) <=> IsTailFree(Content(dk2, b)))
             /\ ChainEnds(dk2, b)
  <2>1. b \in D /\ TailFree(dk, b) /\ ChainEnds(dk, b)
    BY <1>1 DEF Tidy
  <2>2. SlotCount(dk2, b) = M(b)
    BY ContentTaken
  <2>3. Chain(dk2, b) = Chain(dk, b)
    BY <1>1, <2>1, ChainsStay
  <2>4. ChainEnds(dk2, b)
    BY <1>1, <2>1, <2>3 DEF ChainEnds
  <2>5. /\ M(b) \in Nat /\ Content(dk, b) \in [1..M(b) -> SlotSet]
        /\ DirSlots(dk, b) = SlotsUpToEnd(Content(dk, b))
        /\ IsTailFree(Content(dk, b))
    BY <1>2, <2>1, ContentSpec
  <2>6. /\ DirSlots(dk2, b) = SlotsUpToEnd(Content(dk2, b))
        /\ TailFree(dk2, b) <=> IsTailFree(Content(dk2, b))
    BY <1>1, <1>2, <2>1, ContentSpec
  <2> HIDE DEF M
  <2> QED BY <2>2, <2>4, <2>5, <2>6
<1>4. /\ n \in 1..M(d) /\ IsUnused(Content(dk, d)[n])
      /\ \A j \in 1..M(d) : j < n => ~IsUnused(Content(dk, d)[j])
      /\ \A b \in Folders(dk) :
           Content(dk2, b) = IF b = d THEN [Content(dk, d) EXCEPT ![n] = entry] ELSE Content(dk, b)
  BY <1>1, ContentTaken
<1> HIDE DEF M
<1>5. ASSUME NEW b \in Folders(dk), b # d PROVE DirSlots(dk2, b) = DirSlots(dk, b) /\ TailFree(dk2, b)
  BY <1>3, <1>4, <1>5
<1>6. Takes(SlotsUpToEnd(Content(dk, d)), SlotsUpToEnd(Content(dk2, d)), n, entry) /\ IsTailFree(Content(dk2, d))
  <2>1. /\ M(d) \in Nat /\ Content(dk, d) \in [1..M(d) -> SlotSet] /\ IsTailFree(Content(dk, d))
    BY <1>1, <1>3
  <2>2. Content(dk2, d) = [Content(dk, d) EXCEPT ![n] = entry]
    BY <1>1, <1>4
  <2> QED BY <1>1, <1>4, <2>1, <2>2, ListingTaken
<1>7. DirSlots(dk, d) = SlotsUpToEnd(Content(dk, d)) /\ DirSlots(dk2, d) = SlotsUpToEnd(Content(dk2, d)) /\ TailFree(dk2, d)
  BY <1>1, <1>3, <1>6
<1> QED BY <1>3, <1>5, <1>6, <1>7

(* So the namespace has the new entry, and nothing else is new.                *)
Taker(dk2, D, F, d, entry) ==
  \/ entry.t = "file" /\ entry.cluster = 0
  \/ entry.t = "dir" /\ entry.cluster \notin D \cup F /\ NewFolderOn(dk2, entry.cluster, d)
NewEntries(d, n, entry) == {[dir |-> d, at |-> n, slot |-> entry]}
LEMMA TreeTakes ==
  ASSUME NEW dk, CardSet(dk), WellLaid(dk), NEW D, NEW F, Consistent(dk, D, F), Tidy(dk),
         NEW dk2, NEW d, NEW n, NEW entry, SlotTaken(dk, dk2, D, F, d, n, entry),
         ~IsDot(entry), Taker(dk2, D, F, d, entry), NEW D2, Consistent(dk2, D2, F)
  PROVE  /\ Tree(dk2) = Tree(dk) \cup NewEntries(d, n, entry)
         /\ \A e \in Tree(dk) : ~(e.dir = d /\ e.at = n)
         /\ \A b \in Folders(dk2) : b \in Folders(dk) \/ (b = entry.cluster /\ entry.t = "dir")
<1>1. /\ CardSet(dk2) /\ WellLaid(dk2) /\ LayoutOf(dk2) = LayoutOf(dk) /\ d \in Folders(dk) /\ d \in Nat
      /\ Clusters(dk2) = Clusters(dk) /\ Folders(dk) \subseteq D
      /\ Harmless(dk, dk2, D, F) /\ entry \in SlotSet /\ ~IsUnused(entry) /\ IsEntry(entry)
  BY FoldersStay, InClusters, ClusterPlaces DEF SlotTaken, Harmless, Clusters, Taker, IsEntry
<1>2. /\ \A b \in Folders(dk) : b # d => DirSlots(dk2, b) = DirSlots(dk, b)
      /\ DOMAIN DirSlots(dk, d) = 1..Len(DirSlots(dk, d)) /\ DOMAIN DirSlots(dk2, d) = 1..Len(DirSlots(dk2, d))
      /\ n \in 1..Len(DirSlots(dk2, d)) /\ DirSlots(dk2, d)[n] = entry
      /\ n \in 1..Len(DirSlots(dk, d)) => IsUnused(DirSlots(dk, d)[n])
      /\ \A i : i # n => (i \in 1..Len(DirSlots(dk2, d)) <=> i \in 1..Len(DirSlots(dk, d)))
      /\ \A i \in 1..Len(DirSlots(dk2, d)) : i # n => DirSlots(dk2, d)[i] = DirSlots(dk, d)[i]
  BY ListingsTaken DEF Takes
<1>3. /\ Listed(dk2, d, n) /\ ~Listed(dk, d, n)
      /\ Entry(dk2, d, n) = [dir |-> d, at |-> n, slot |-> entry]
  BY <1>1, <1>2 DEF Listed, Entry, IsEntry, IsUnused
<1>4. ASSUME NEW b \in Folders(dk), NEW i, ~(b = d /\ i = n), Listed(dk2, b, i)
      PROVE  Listed(dk, b, i) /\ Entry(dk2, b, i) = Entry(dk, b, i) /\ DirSlots(dk2, b)[i] = DirSlots(dk, b)[i]
  BY <1>2, <1>4 DEF Listed, Entry
<1>5. ASSUME NEW c \in Clusters(dk2), entry.t = "dir", c = entry.cluster
      PROVE  SubFolders(dk2, c) = {} /\ \A i : ~Listed(dk2, c, i)
  <2>1. NewFolderOn(dk2, c, d)
    BY <1>5 DEF Taker
  <2> QED BY <1>1, <2>1, NewFolder
<1> DEFINE S == {b \in Clusters(dk2) : b \in Folders(dk) \/ (b = entry.cluster /\ entry.t = "dir")}
<1>6. Folders(dk2) \subseteq S
  <2>1. LayoutOf(dk2).root \in S /\ S \in SUBSET Clusters(dk2)
        /\ (\A b \in Folders(dk) : SubFolders(dk, b) \cap Clusters(dk) \subseteq Folders(dk))
    BY <1>1, FoldersClosed
  <2>2. ASSUME NEW b \in S, NEW x \in SubFolders(dk2, b) \cap Clusters(dk2) PROVE x \in S
    <3>1. CASE b \in Folders(dk)
      <4>1. PICK i \in DOMAIN DirSlots(dk2, b) :
              DirSlots(dk2, b)[i].t = "dir" /\ ~IsDot(DirSlots(dk2, b)[i]) /\ x = DirSlots(dk2, b)[i].cluster
        BY DEF SubFolders, Range
      <4>2. Listed(dk2, b, i)
        BY <4>1 DEF Listed, IsEntry
      <4>3. CASE b = d /\ i = n
        BY <1>2, <4>1, <4>3
      <4>4. CASE ~(b = d /\ i = n)
        <5>1. Listed(dk, b, i) /\ DirSlots(dk2, b)[i] = DirSlots(dk, b)[i]
          BY <1>4, <3>1, <4>2, <4>4
        <5>2. x \in SubFolders(dk, b)
          BY <4>1, <5>1 DEF SubFolders, Listed, Range
        <5> QED BY <1>1, <2>1, <3>1, <5>2
      <4> QED BY <4>3, <4>4
    <3>2. CASE b \notin Folders(dk)
      BY <1>5, <2>2, <3>2
    <3> QED BY <3>1, <3>2
  <2> HIDE DEF S
  <2> QED BY <2>1, <2>2, FoldersLeast
<1>7. Tree(dk) \subseteq Tree(dk2)
  BY <1>1, TreeGrows
<1>8. d \in Folders(dk2)
  <2>1. CASE d = LayoutOf(dk2).root
    BY <2>1, FoldersClosed
  <2>2. CASE d # LayoutOf(dk2).root
    <3>1. PICK e \in Tree(dk) : e.slot.t = "dir" /\ e.slot.cluster = d
      BY <1>1, <2>2, FolderOwned
    <3>2. e \in Tree(dk2) /\ d # 0
      BY <1>1, <1>7, <3>1, InClusters, ClusterPlaces
    <3> QED BY <1>1, <3>1, <3>2, EntryLeads
  <2> QED BY <2>1, <2>2
<1>9. [dir |-> d, at |-> n, slot |-> entry] \in Tree(dk2)
  BY <1>3, <1>8, InTree
<1>10. ASSUME NEW e \in Tree(dk2) PROVE e \in Tree(dk) \cup NewEntries(d, n, entry)
  <2>1. PICK b, i : b \in Folders(dk2) /\ Listed(dk2, b, i) /\ e = Entry(dk2, b, i)
    BY InTree
  <2>2. b \in Folders(dk)
    BY <1>5, <1>6, <2>1
  <2>3. CASE b = d /\ i = n
    BY <1>3, <2>1, <2>3 DEF NewEntries
  <2>4. CASE ~(b = d /\ i = n)
    BY <1>4, <2>1, <2>2, <2>4, InTree
  <2> QED BY <2>3, <2>4
<1>11. ASSUME NEW e \in Tree(dk), e.dir = d, e.at = n PROVE FALSE
  <2>1. PICK b, i : b \in Folders(dk) /\ Listed(dk, b, i) /\ e = Entry(dk, b, i)
    BY InTree
  <2> QED BY <1>3, <1>11, <2>1 DEF Entry
<1>12. Tree(dk2) = Tree(dk) \cup NewEntries(d, n, entry)
  BY <1>7, <1>9, <1>10 DEF NewEntries
<1> QED BY <1>6, <1>11, <1>12

(* A listing has a length, and there is none at cluster 0.                    *)
LEMMA NothingAtZero ==
  ASSUME NEW dk, CardSet(dk), WellLaid(dk)
  PROVE  Len(DirSlots(dk, 0)) = 0 /\ DOMAIN DirSlots(dk, 0) = {}
<1>1. Len(Chain(dk, 0)) \in Nat /\ \A i \in 1..Len(Chain(dk, 0)) : InChain(Chain(dk, 0)[i])
  BY ChainSpec
<1>2. Len(Chain(dk, 0)) > 0 => Chain(dk, 0)[1] = 0
  BY ChainHead
<1>3. Len(Chain(dk, 0)) = 0
  <2>1. SUFFICES ASSUME Len(Chain(dk, 0)) # 0 PROVE FALSE
    OBVIOUS
  <2>2. 1 \in 1..Len(Chain(dk, 0))
    BY <1>1, <2>1
  <2> QED BY <1>1, <1>2, <2>1, <2>2 DEF InChain
<1>4. Len(ChainSectors(dk, 0)) = 0
  <2>1. LayoutOf(dk).spc \in Nat /\ 0 * LayoutOf(dk).spc = 0
    BY Places
  <2> QED BY <1>3, <2>1 DEF ChainSectors
<1>5. Content(dk, 0) \in [1..0 -> SlotSet]
  <2>1. \A sectors : Len(sectors) = 0 => AllSlots(sectors) \in [1..0 -> SlotSet]
    BY DiskAssumption DEF AllSlots
  <2> QED BY <1>4, <2>1 DEF Content
<1> QED BY <1>5, EndSlotType DEF DirSlots, Content

LEMMA ListingLen ==
  ASSUME NEW dk, CardSet(dk), WellLaid(dk), NEW D, ChainClosed(dk, D), NEW d \in D
  PROVE  Len(DirSlots(dk, d)) \in Nat /\ DOMAIN DirSlots(dk, d) = 1..Len(DirSlots(dk, d))
<1>1. /\ SlotCount(dk, d) \in Nat /\ Content(dk, d) \in [1..SlotCount(dk, d) -> SlotSet]
      /\ DirSlots(dk, d) = SlotsUpToEnd(Content(dk, d))
  BY ContentSpec
<1> QED BY <1>1, EndSlotType

LEMMA TidyTakes ==
  ASSUME NEW dk, CardSet(dk), WellLaid(dk), NEW D, NEW F, Consistent(dk, D, F), Tidy(dk),
         NEW dk2, NEW d, NEW n, NEW entry, SlotTaken(dk, dk2, D, F, d, n, entry),
         ~IsDot(entry), Taker(dk2, D, F, d, entry), NEW D2, Consistent(dk2, D2, F)
  PROVE  Tidy(dk2)
<1>1. /\ CardSet(dk2) /\ WellLaid(dk2) /\ LayoutOf(dk2) = LayoutOf(dk) /\ d \in Folders(dk) /\ d \in Nat
      /\ Clusters(dk2) = Clusters(dk) /\ Folders(dk) \subseteq D /\ Harmless(dk, dk2, D, F)
      /\ DOMAIN dk2 = DOMAIN dk
  BY FoldersStay, InClusters, ClusterPlaces DEF SlotTaken, Harmless, Clusters
<1>2. /\ Tree(dk2) = Tree(dk) \cup NewEntries(d, n, entry)
      /\ \A b \in Folders(dk2) : b \in Folders(dk) \/ (b = entry.cluster /\ entry.t = "dir")
  BY TreeTakes
<1>3. /\ \A b \in Folders(dk) : b # d => DirSlots(dk2, b) = DirSlots(dk, b)
      /\ Takes(DirSlots(dk, d), DirSlots(dk2, d), n, entry)
      /\ \A b \in Folders(dk) : ChainEnds(dk2, b) /\ TailFree(dk2, b)
  BY ListingsTaken
<1>4. entry.t = "dir" =>
        /\ entry.cluster \notin D \cup F /\ ClustersOf(dk2, entry.cluster) = {entry.cluster}
        /\ ChainEnds(dk2, entry.cluster) /\ TailFree(dk2, entry.cluster)
        /\ DOMAIN DirSlots(dk2, entry.cluster) = 1..2 /\ Len(DirSlots(dk2, entry.cluster)) = 2
        /\ DirSlots(dk2, entry.cluster)[1] = Slot("dir", DotName, entry.cluster, 0)
        /\ DirSlots(dk2, entry.cluster)[2] = Slot("dir", DotDotName, d, 0)
  <2> SUFFICES ASSUME entry.t = "dir"
               PROVE  /\ entry.cluster \notin D \cup F /\ ClustersOf(dk2, entry.cluster) = {entry.cluster}
                      /\ ChainEnds(dk2, entry.cluster) /\ TailFree(dk2, entry.cluster)
                      /\ DOMAIN DirSlots(dk2, entry.cluster) = 1..2 /\ Len(DirSlots(dk2, entry.cluster)) = 2
                      /\ DirSlots(dk2, entry.cluster)[1] = Slot("dir", DotName, entry.cluster, 0)
                      /\ DirSlots(dk2, entry.cluster)[2] = Slot("dir", DotDotName, d, 0)
    OBVIOUS
  <2>1. NewFolderOn(dk2, entry.cluster, d) /\ entry.cluster \notin D \cup F
    BY DEF Taker
  <2>2. ToSet(<<entry.cluster>>) = {entry.cluster}
    BY DEF ToSet
  <2> QED BY <1>1, <2>1, <2>2, NewFolder DEF ClustersOf
<1>5. \A b \in Folders(dk2) : ChainEnds(dk2, b) /\ TailFree(dk2, b)
  BY <1>2, <1>3, <1>4
<1>6. /\ \A e \in Tree(dk) : /\ e.slot.cluster \in D \cup F \cup {0}
                             /\ ClustersOf(dk2, e.slot.cluster) = ClustersOf(dk, e.slot.cluster)
                             /\ ClustersOf(dk, e.slot.cluster) \subseteq D \cup F
      /\ ClustersOf(dk2, LayoutOf(dk).root) = ClustersOf(dk, LayoutOf(dk).root)
      /\ ClustersOf(dk, LayoutOf(dk).root) \subseteq D \cup F
  <2>1. \A c \in D \cup F \cup {0} : ClustersOf(dk2, c) = ClustersOf(dk, c) /\ ClustersOf(dk, c) \subseteq D \cup F
    BY <1>1, ChainsStay, ClustersIn
  <2> QED BY <2>1, ClustersIn
<1>7. Unshared(dk2, Tree(dk2))
  <2> DEFINE new == [dir |-> d, at |-> n, slot |-> entry]
             Of(x) == ClustersOf(dk2, x)
             root == LayoutOf(dk).root
  <2>1. /\ \A e \in Tree(dk) : e.slot.cluster # 0 => Of(e.slot.cluster) \cap Of(root) = {}
        /\ \A e, f \in Tree(dk) : e.slot.cluster # 0 /\ f.slot.cluster # 0 /\ e # f =>
             Of(e.slot.cluster) \cap Of(f.slot.cluster) = {}
    BY <1>6 DEF Tidy, Unshared
  <2>2. \A e \in Tree(dk2) : e \in Tree(dk) \/ e = new
    BY <1>2 DEF NewEntries
  <2>3. new.slot = entry
    OBVIOUS
  <2>4. entry.cluster # 0 => /\ Of(entry.cluster) \cap Of(root) = {}
                             /\ \A e \in Tree(dk) : Of(e.slot.cluster) \cap Of(entry.cluster) = {}
    <3>1. entry.cluster # 0 => entry.t = "dir"
      BY DEF Taker
    <3> QED BY <1>4, <1>6, <3>1
  <2> HIDE DEF new, Of, root
  <2>5. ASSUME NEW e \in Tree(dk2), e.slot.cluster # 0 PROVE Of(e.slot.cluster) \cap Of(root) = {}
    BY <2>1, <2>2, <2>3, <2>4, <2>5
  <2>6. ASSUME NEW e \in Tree(dk2), NEW f \in Tree(dk2), e.slot.cluster # 0, f.slot.cluster # 0, e # f
        PROVE  Of(e.slot.cluster) \cap Of(f.slot.cluster) = {}
    BY <2>1, <2>2, <2>3, <2>4, <2>6
  <2> QED BY <1>1, <2>5, <2>6 DEF Unshared, Of, root
<1>8. ASSUME NEW e \in Tree(dk2), e.slot.t = "dir" PROVE StartsWithDots(dk2, e)
  <2>1. CASE e \in Tree(dk)
    <3> DEFINE c == e.slot.cluster
               old == DirSlots(dk, c)
               new == DirSlots(dk2, c)
    <3>1. /\ Len(old) >= 2
          /\ old[1].t = "dir" /\ old[1].name = DotName /\ old[1].cluster = c
          /\ old[2].t = "dir" /\ old[2].name = DotDotName /\ old[2].cluster \in NamesOf(dk2, e.dir)
      BY <1>1, <1>8, <2>1 DEF Tidy, Complete, StartsWithDots, NamesOf
    <3>2. c # 0
      <4>1. SUFFICES ASSUME c = 0 PROVE FALSE
        OBVIOUS
      <4>2. Len(DirSlots(dk, 0)) = 0
        BY NothingAtZero
      <4> QED BY <3>1, <4>1, <4>2
    <3>3. c \in Folders(dk)
      BY <1>8, <2>1, <3>2, EntryLeads
    <3>4. CASE c # d
      <4>1. new = old
        BY <1>3, <3>3, <3>4
      <4> QED BY <3>1, <4>1 DEF StartsWithDots
    <3>5. CASE c = d
      <4> HIDE DEF old, new
      <4>0. Takes(old, new, n, entry)
        BY <1>3, <3>5 DEF old, new
      <4>1. ~IsUnused(old[1]) /\ ~IsUnused(old[2])
        BY <3>1 DEF IsUnused
      <4>2. Len(old) \in Nat /\ Len(new) \in Nat
        BY <1>1, <3>3, ListingLen DEF old, new
      <4>3. 1 \in 1..Len(old) /\ 2 \in 1..Len(old)
        BY <3>1, <4>2
      <4>4. n # 1 /\ n # 2
        BY <4>0, <4>1, <4>3 DEF Takes
      <4>5. 1 \in 1..Len(new) /\ 2 \in 1..Len(new) /\ new[1] = old[1] /\ new[2] = old[2]
        BY <4>0, <4>3, <4>4 DEF Takes
      <4>6. Len(new) >= 2
        BY <4>2, <4>5
      <4> QED BY <3>1, <4>5, <4>6 DEF StartsWithDots, new
    <3> QED BY <3>4, <3>5
  <2>2. CASE e \notin Tree(dk)
    <3>1. e = [dir |-> d, at |-> n, slot |-> entry]
      BY <1>2, <2>2 DEF NewEntries
    <3>2. e.slot = entry /\ e.dir = d /\ entry.t = "dir"
      BY <1>8, <3>1
    <3> QED BY <1>4, <3>2 DEF StartsWithDots, Slot, NamesOf
  <2> QED BY <2>1, <2>2
<1>9. \A c \in Clusters(dk2) : c < EOC /\ (c < EPF => OnCard(dk2, c))
  BY <1>1 DEF Tidy, OnCard
<1> QED BY <1>5, <1>7, <1>8, <1>9 DEF Tidy, Complete

(* A folder stays one.                                                        *)
LEMMA FoldersGrow ==
  ASSUME NEW dk, CardSet(dk), WellLaid(dk), NEW D, NEW F, Consistent(dk, D, F),
         NEW dk2, Harmless(dk, dk2, D, F), NEW D2, NEW F2, Consistent(dk2, D2, F2)
  PROVE  Folders(dk) \subseteq Folders(dk2)
<1>1. CardSet(dk2) /\ WellLaid(dk2) /\ LayoutOf(dk2) = LayoutOf(dk)
  BY DEF Harmless
<1>2. Tree(dk) \subseteq Tree(dk2)
  BY TreeGrows
<1>3. ASSUME NEW d \in Folders(dk) PROVE d \in Folders(dk2)
  <2>1. CASE d = LayoutOf(dk2).root
    BY <2>1, FoldersClosed
  <2>2. CASE d # LayoutOf(dk2).root
    <3>1. PICK e \in Tree(dk) : e.slot.t = "dir" /\ e.slot.cluster = d
      BY <1>1, <2>2, FolderOwned
    <3>2. d # 0
      BY FoldersStay, InClusters, ClusterPlaces
    <3> QED BY <1>1, <1>2, <3>1, <3>2, EntryLeads
  <2> QED BY <2>1, <2>2
<1> QED BY <1>3

LEMMA UnmovedConsistent ==
  ASSUME NEW dk, CardSet(dk), WellLaid(dk), NEW D, NEW F, Consistent(dk, D, F),
         NEW dk2, Unmoved(dk, dk2, D, F)
  PROVE  Consistent(dk2, D, F)
<1>1. /\ CardSet(dk2) /\ WellLaid(dk2) /\ LayoutOf(dk2) = LayoutOf(dk)
      /\ \A c \in D \cup F : SameEntry(dk, dk2, c)
      /\ \A c \in D : \A s \in 0..(LayoutOf(dk).spc - 1) :
           Fetch(dk2, DataLba(LayoutOf(dk), c, s)) = Fetch(dk, DataLba(LayoutOf(dk), c, s))
  BY DEF Unmoved, Harmless
<1>2. FolderSlots(dk2, D) = FolderSlots(dk, D)
  BY <1>1, SlotsKept
<1>3. ChainClosed(dk2, D) /\ ChainClosed(dk2, F)
  BY <1>1, ChainClosedKept DEF Consistent
<1> QED BY <1>1, <1>2, <1>3 DEF Consistent

----------------------------------------------------------------------------
(* The invariant: where the user is, what the routine in progress is for,     *)
(* how far it has read the current folder, and what mkdir has written.        *)
LeadsDown(e, from, to) ==
  e.dir = from.cluster /\ e.slot.t = "dir" /\ e.slot.name = to.name /\ e.slot.cluster = to.cluster
PathInv ==
  /\ path # <<>> =>
       /\ path[1].cluster = LayoutOf(disk).root
       /\ \A i \in 2..Len(path) : \E e \in tree : LeadsDown(e, path[i - 1], path[i])
       /\ cur.cluster \in Folders(disk)
       /\ cur.cluster = path[Len(path)].cluster \/ Len(path) = MAX_DEPTH
  /\ pc \in {"boot", "mbr", "bpb"} => path = <<>> /\ cur = NoFolder /\ ret = NoRet
JobInv ==
  /\ job.name \notin {DotName, DotDotName}
  /\ pc \in {"chain", "scan", "search", "paging"} => job.op \in {"chdir", "list", "open", "load"}
  /\ Linking => job.op \in {"mkdir", "touch"}
  /\ pc = "reading" => job.op = "read"
  /\ pc = "loading" => job.op = "load"
(* No slot of the sector ends the folder.                                     *)
GoesOn(c, s) == \A i \in 1..SLOTS : SlotAt(disk, c, s, i).t # "free"
(* The list holds the beginning of the chain from c, next is what follows.    *)
Followed(c) ==
  /\ \A i \in 1..Len(ll) : ll[i] = Follow(disk, c)[i - 1] /\ InChain(ll[i])
  /\ next = Follow(disk, c)[Len(ll)]
WalkInv ==
  /\ pc = "chain" => files = <<>>
  /\ pc = "chain" /\ ~IsFileChain => Followed(cur.cluster)
  /\ pc = "scan" =>
       /\ \A i \in 1..Len(ll) : i <= Len(Chain(disk, cur.cluster)) /\ ll[i] = Chain(disk, cur.cluster)[i]
       /\ \A k \in 1..ctr : \A s \in 0..(LayoutOf(disk).spc - 1) : k < ctr \/ s < sec => GoesOn(ll[k], s)
  /\ pc \in {"scan", "search"} =>
       \A i \in 1..Len(files) : \E j \in DOMAIN DirSlots(disk, cur.cluster) :
         files[i] = DirSlots(disk, cur.cluster)[j] /\ IsEntry(files[i])
Made(dk, c, parent, s) ==
  Fetch(dk, DataLba(LayoutOf(dk), c, s)) = IF s = 0 THEN DotSector(c, parent) ELSE ZeroSector
NewDirInv ==
  /\ pc = "clear" => \A s \in 0..(sec - 1) : Made(disk, next, cur.cluster, s)
  /\ Linking /\ job.op = "mkdir" =>
       \A s \in 0..(LayoutOf(disk).spc - 1) : Made(disk, next, cur.cluster, s)
PlaceInv == PathInv /\ JobInv /\ WalkInv
NameInv == PlaceInv /\ NewDirInv

(* The write that ends mkdir and touch puts the new entry in the first unused *)
(* slot of the folder, and mkdir's leads to a folder that is complete.        *)
LEMMA EntryWritten ==
  ASSUME TypeInv, TypeInv', NEW D, NEW F, VolInv(D, F), Tidy(disk), NameInv, TreeStep,
         WriteFolderSector, disk' # disk
  PROVE  /\ \E n : SlotTaken(disk, disk', D, F, cur.cluster, n, NewEntry)
         /\ ~IsDot(NewEntry) /\ Taker(disk', D, F, cur.cluster, NewEntry)
         /\ \E D2 : Consistent(disk', D2, F)
<1> DEFINE L == LayoutOf(disk)
           d == cur.cluster
           lba == FolderLba
           n == UnusedSlot(disk[lba])
<1>0. pc = "slotwrite" /\ Mounted /\ Linking
  BY DEF WriteFolderSector, Mounted, Linking
<1>1. /\ CardSet(disk) /\ WellLaid(disk) /\ SecondFollows(disk) /\ Consistent(disk, D, F)
      /\ lba = DataLba(L, d, 0) /\ d \in D /\ lba \in DOMAIN disk /\ n # 0
      /\ NewEntry \in SlotSet /\ NewEntry.t # "free" /\ NewEntry.cluster = next
      /\ NewEntry.t = IF job.op = "mkdir" THEN "dir" ELSE "file"
  BY <1>0, LinkReady
<1>2. PICK D2 :
        /\ D \subseteq D2 /\ D2 \cap F = {} /\ ChainClosed(disk, D2) /\ LeadsTo(NewEntry, D2, F)
        /\ \A c \in D2 \ D : \A s \in 0..(LayoutOf(disk).spc - 1) : \A i \in 1..SLOTS :
             LeadsTo(SlotAt(disk, c, s, i), D2, F)
  BY <1>0, LinkReady
<1>3. disk' = Written(disk, lba, WithSlot(disk[lba], NewEntry))
  BY VolWriteFolder
<1> HIDE DEF lba
<1>4. /\ Harmless(disk, disk', D, F) /\ DOMAIN disk' = DOMAIN disk
      /\ \A c \in Clusters(disk) : SameEntry(disk, disk', c)
      /\ n \in 1..SLOTS /\ IsUnused(SlotAt(disk, d, 0, n))
      /\ \A i \in 1..SLOTS : i < n => ~IsUnused(SlotAt(disk, d, 0, i))
      /\ \A c \in D : \A s \in 0..(L.spc - 1) : \A i \in 1..SLOTS :
           SlotAt(disk', c, s, i) = IF c = d /\ s = 0 /\ i = n THEN NewEntry ELSE SlotAt(disk, c, s, i)
      /\ Consistent(disk', D2, F)
  BY <1>1, <1>2, <1>3, TakeSlot
<1>5. d \in Folders(disk) /\ path # <<>>
  BY <1>0 DEF NameInv, PlaceInv, PathInv, TypeInv, PlaceType
<1>6. ~IsUnused(NewEntry)
  BY <1>1 DEF IsUnused
<1>7. SlotTaken(disk, disk', D, F, d, n, NewEntry)
  BY <1>1, <1>4, <1>5, <1>6 DEF SlotTaken
<1>8. ~IsDot(NewEntry)
  <2>1. NewEntry.name = job.name
    BY DEF NewEntry, Slot
  <2> QED BY <2>1 DEF IsDot, NameInv, PlaceInv, JobInv
<1>9. Taker(disk', D, F, d, NewEntry)
  <2>1. CASE job.op # "mkdir"
    BY <1>0, <1>1, <2>1 DEF VolInv, MakeInv, Taker
  <2>2. CASE job.op = "mkdir"
    <3>1. /\ next \in Clusters(disk) /\ next \notin D \cup F /\ TakenEntry(disk, next)
          /\ \A s \in 0..(L.spc - 1) : Made(disk, next, d, s)
      BY <1>0, <2>2 DEF VolInv, MakeInv, FatStage, Making, Linking, NameInv, PlaceInv, NewDirInv
    <3>2. InChain(next)
      BY <1>1, <3>1, ClusterPlaces DEF Tidy, InChain
    <3>3. LayoutOf(disk') = L /\ Clusters(disk') = Clusters(disk)
      BY <1>4 DEF Harmless, Clusters
    <3>4. ASSUME NEW s \in 0..(L.spc - 1)
          PROVE  Fetch(disk', DataLba(L, next, s)) = Fetch(disk, DataLba(L, next, s))
      <4>1. DataLba(L, next, s) # lba
        <5>1. d \in Clusters(disk) /\ 0 \in 0..(L.spc - 1) /\ d # next
          BY <1>1, <3>1, InClusters, Places
        <5> QED BY <1>1, <3>1, <5>1, DataLbaUnique
      <4>2. lba \in Nat /\ DataLba(L, next, s) \in Nat
        BY <1>1, <3>1, ClusterPlaces DEF CardSet
      <4> QED BY <1>1, <1>3, <4>1 DEF Written, Fetch, CardSet
    <3>5. NewFolderOn(disk', next, d)
      BY <3>1, <3>2, <3>3, <3>4, <1>4 DEF NewFolderOn, Made
    <3> QED BY <1>1, <2>2, <3>1, <3>5 DEF Taker
  <2> QED BY <2>1, <2>2
<1> QED BY <1>4, <1>7, <1>8, <1>9
----------------------------------------------------------------------------
(* What a step does to the card: the namespace stays as it is, or mkdir or    *)
(* touch adds its entry to it.                                                *)
Adds(D, F) ==
  /\ WriteFolderSector /\ Taker(disk', D, F, cur.cluster, NewEntry)
  /\ \E n : /\ tree' = tree \cup NewEntries(cur.cluster, n, NewEntry)
            /\ \A e \in tree : ~(e.dir = cur.cluster /\ e.at = n)
LEMMA CardStep ==
  ASSUME NoYes, TypeInv, TypeInv', NEW D, NEW F, VolInv(D, F), Tidy(disk), NameInv, [NextP]_<<vars, tree>>
  PROVE  /\ Tidy(disk') /\ LayoutOf(disk') = LayoutOf(disk)
         /\ Folders(disk) \subseteq Folders(disk') /\ tree \subseteq tree'
         /\ tree' = tree \/ Adds(D, F)
<1>1. /\ tree = Tree(disk) /\ CardSet(disk) /\ WellLaid(disk) /\ Consistent(disk, D, F)
  BY DEF VolInv, CardInv, TypeInv, CardType, CardSet
<1>2. tree' = IF disk' = disk THEN tree ELSE Tree(disk')
  BY <1>1 DEF NextP, vars, sdVars
<1>3. disk' = disk \/ Unmoved(disk, disk', D, F) \/ WriteFolderSector
  BY VolStep
<1>4. CASE disk' = disk
  BY <1>2, <1>4
<1>5. CASE Unmoved(disk, disk', D, F)
  <2>1. Consistent(disk', D, F) /\ LayoutOf(disk') = LayoutOf(disk)
    BY <1>1, <1>5, UnmovedConsistent DEF Unmoved, Harmless
  <2>2. Folders(disk') = Folders(disk) /\ Tree(disk') = Tree(disk)
    BY <1>1, <1>5, <2>1, TreeSame
  <2>3. Tidy(disk')
    BY <1>1, <1>5, <2>1, TidySame
  <2> QED BY <1>1, <1>2, <2>1, <2>2, <2>3
<1>6. CASE WriteFolderSector /\ disk' # disk
  <2>1. TreeStep
    BY <1>2 DEF TreeStep
  <2>2. PICK n : SlotTaken(disk, disk', D, F, cur.cluster, n, NewEntry)
    BY <1>6, <2>1, EntryWritten
  <2>3. PICK D2 : Consistent(disk', D2, F)
    BY <1>6, <2>1, EntryWritten
  <2>4. ~IsDot(NewEntry) /\ Taker(disk', D, F, cur.cluster, NewEntry)
    BY <1>6, <2>1, EntryWritten
  <2>5. Tidy(disk')
    BY <1>1, <2>2, <2>3, <2>4, TidyTakes
  <2>6. /\ Tree(disk') = Tree(disk) \cup NewEntries(cur.cluster, n, NewEntry)
        /\ \A e \in Tree(disk) : ~(e.dir = cur.cluster /\ e.at = n)
    BY <1>1, <2>2, <2>3, <2>4, TreeTakes
  <2>7. Harmless(disk, disk', D, F)
    BY <2>2 DEF SlotTaken
  <2>8. Folders(disk) \subseteq Folders(disk') /\ LayoutOf(disk') = LayoutOf(disk)
    BY <1>1, <2>3, <2>7, FoldersGrow DEF Harmless
  <2>9. Adds(D, F)
    BY <1>1, <1>2, <1>6, <2>4, <2>6 DEF Adds
  <2> QED BY <1>1, <1>2, <1>6, <2>5, <2>6, <2>8, <2>9
<1> QED BY <1>3, <1>4, <1>5, <1>6

(* What can be found stays, where it is, and nothing of it goes.              *)
LEMMA NamesGrow ==
  ASSUME NoYes, TypeInv, NEW D, NEW F, VolInv(D, F), [NextP]_<<vars, tree>>
  PROVE  /\ LayoutOf(disk') = LayoutOf(disk) /\ Folders(disk) \subseteq Folders(disk')
         /\ tree \subseteq tree' /\ TreeStep
<1>1. /\ tree = Tree(disk) /\ CardSet(disk) /\ WellLaid(disk) /\ Consistent(disk, D, F)
  BY DEF VolInv, CardInv, TypeInv, CardType, CardSet
<1>2. tree' = IF disk' = disk THEN tree ELSE Tree(disk')
  BY <1>1 DEF NextP, vars, sdVars
<1>3. CASE disk' = disk
  BY <1>2, <1>3 DEF TreeStep
<1>4. CASE Harmless(disk, disk', D, F)
  <2>1. PICK D2 : VolInv(D2, F)'
    BY VolStep
  <2>2. Consistent(disk', D2, F)
    BY <2>1 DEF VolInv, CardInv
  <2>3. Folders(disk) \subseteq Folders(disk') /\ Tree(disk) \subseteq Tree(disk')
    BY <1>1, <1>4, <2>2, FoldersGrow, TreeGrows
  <2> QED BY <1>1, <1>2, <1>4, <2>3 DEF Harmless, TreeStep
<1> QED BY <1>3, <1>4, VolStep

(* What the routine in progress is for.                                       *)
LEMMA DotNames == NoName \notin {DotName, DotDotName} /\ NoJob.name = NoName /\ NoJob.op = "none"
BY DEF NoName, DotName, DotDotName, Name, NoJob

LEMMA JobOver ==
  ASSUME NEW v, Return(v) PROVE JobInv'
BY DotNames DEF Return, JobInv, Linking

LEMMA CallNames ==
  ASSUME NEW arg \in MkdirArgs \cup TouchArgs \cup ChdirArgs \cup OpenArgs \cup LoadArgs
  PROVE  Make83(arg) \notin {DotName, DotDotName}
<1>1. arg.stem # "." /\ arg.stem # ".."
  BY CallAssumption
<1> QED BY <1>1, DotNames DEF Make83, Name, DotName, DotDotName

LEMMA JobBegins ==
  ASSUME NEW op, NEW nm, nm \notin {DotName, DotDotName}, NEW at, Begin(op, nm, at),
         \/ at = "chain" /\ op \in {"chdir", "list", "open", "load"}
         \/ at = "slotread" /\ op = "touch"
         \/ at = "findfree" /\ op = "mkdir"
  PROVE  JobInv'
<1>1. job' = [op |-> op, name |-> nm, fd |-> NoJob.fd, want |-> NoJob.want] /\ pc' = at
  BY DEF Begin, NoJob
<1> QED BY <1>1 DEF JobInv, Linking

LEMMA JobCalls ==
  ASSUME TypeInv, PlaceInv, Call PROVE JobInv'
<1>0. JobInv
  BY DEF PlaceInv
<1>1. ASSUME NEW op, NEW v, NEW text, Show(op, v, text) PROVE JobInv'
  BY <1>0, <1>1 DEF Show, JobInv, Linking
<1>2. CASE ListDir
  BY <1>2, DotNames, JobBegins DEF ListDir, ReadDir
<1>3. CASE Getcwd \/ PrintPartitionInfo \/ ChdirRoot \/ ChdirUp
  BY <1>1, <1>3 DEF Getcwd, PrintPartitionInfo, ChdirRoot, ChdirUp, Immediate
<1>4. ASSUME NEW arg \in ChdirArgs \cup OpenArgs \cup LoadArgs, ChdirName(arg) \/ Open(arg) \/ LoadFile(arg) PROVE JobInv'
  <2>1. Make83(arg) \notin {DotName, DotDotName}
    BY CallNames
  <2> QED BY <1>1, <1>4, <2>1, JobBegins DEF ChdirName, Open, LoadFile, ReadDir, Immediate
<1>5. ASSUME NEW arg \in MkdirArgs \cup TouchArgs, Mkdir(arg) \/ Touch(arg) PROVE JobInv'
  <2>1. Make83(arg) \notin {DotName, DotDotName}
    BY CallNames
  <2> QED BY <1>1, <1>5, <2>1, JobBegins DEF Mkdir, Touch, Immediate
<1>6. ASSUME NEW fd, Close(fd) PROVE JobInv'
  BY <1>1, <1>6 DEF Close, Immediate
<1>7. ASSUME NEW fd, NEW len, Read(fd, len) PROVE JobInv'
  <2>1. CASE Immediate("read", 0)
    BY <1>1, <2>1 DEF Immediate
  <2>2. CASE pc' = "reading" /\ job'.op = "read" /\ job'.name = NoName
    BY <2>2, DotNames DEF JobInv, Linking
  <2> QED BY <1>7, <2>1, <2>2 DEF Read
<1> QED BY <1>2, <1>3, <1>4, <1>5, <1>6, <1>7 DEF Call

LEMMA JobStep ==
  ASSUME TypeInv, NEW D, NEW F, VolInv(D, F), PlaceInv, [NextP]_<<vars, tree>>
  PROVE  JobInv'
<1>0. JobInv
  BY DEF PlaceInv
<1>1. ASSUME UNCHANGED <<pc, job>> PROVE JobInv'
  BY <1>0, <1>1 DEF JobInv, Linking
<1>2. ASSUME NEW v, Return(v) PROVE JobInv'
  BY <1>2, JobOver
<1>3. ASSUME job'.op = job.op, job'.name = job.name,
             pc' \notin {"chain", "scan", "search", "paging", "slotread", "slotwrite", "reading", "loading"}
      PROVE  JobInv'
  BY <1>0, <1>3 DEF JobInv, Linking
<1>4. CASE Mount
  <2>1. pc' \in {"boot", "mbr", "bpb", "label", "prompt", "halted"} /\ job' = job
    BY <1>4 DEF Mount, BootSd, ReadMbr, ReadPartition, ReadLabel, Mounting
  <2> QED BY <1>3, <2>1
<1>5. CASE Call
  BY <1>5, JobCalls
<1>6. CASE FollowChain \/ DirChainDone \/ ScanSector
  <2>1. (\E v : Return(v)) \/ (pc \in {"chain", "scan", "search"} /\ pc' \in {"chain", "scan", "search"} /\ job' = job)
    <3>1. CASE FollowChain
      BY <3>1 DEF FollowChain, ChainRefused
    <3>2. CASE DirChainDone
      BY <3>2 DEF DirChainDone
    <3>3. CASE ScanSector
      BY <3>3 DEF ScanSector
    <3> QED BY <1>6, <3>1, <3>2, <3>3
  <2> QED BY <1>0, <1>2, <2>1 DEF JobInv, Linking
<1>7. CASE FinishChdir \/ ListStep
  <2>1. (\E v : Return(v)) \/ (pc \in {"search", "paging"} /\ pc' = "paging" /\ job' = job)
    BY <1>7, ListingSteps DEF FinishChdir
  <2> QED BY <1>0, <1>2, <2>1 DEF JobInv, Linking
<1>8. CASE FinishOpenSearch \/ FinishLoadSearch
  <2>1. (\E v : Return(v)) \/ (pc = "search" /\ pc' = "chain" /\ job'.op = job.op /\ job'.name = job.name)
    <3>1. CASE FinishOpenSearch
      <4>1. \A fd : [job EXCEPT !.fd = fd].op = job.op /\ [job EXCEPT !.fd = fd].name = job.name
        BY DEF TypeInv, JobType
      <4> QED BY <3>1, <4>1 DEF FinishOpenSearch
    <3>2. CASE FinishLoadSearch
      <4>1. \A n : [job EXCEPT !.want = n].op = job.op /\ [job EXCEPT !.want = n].name = job.name
        BY DEF TypeInv, JobType
      <4> QED BY <3>2, <4>1 DEF FinishLoadSearch
    <3> QED BY <1>8, <3>1, <3>2
  <2> QED BY <1>0, <1>2, <2>1 DEF JobInv, Linking
<1>9. CASE FindFreeCluster \/ ReadFatSector \/ WriteFatSector \/ MirrorFatSector
  <2>1. (\E v : Return(v)) \/ (job' = job /\ pc' \in {"fatread", "fatwrite", "mirror", "clear"})
    BY <1>9 DEF FindFreeCluster, ReadFatSector, WriteFatSector, MirrorFatSector, FailOnWrite
  <2> QED BY <1>2, <1>3, <2>1
<1>10. CASE ClearCluster
  <2>1. (\E v : Return(v)) \/ (job' = job /\ pc' \in {"clear", "slotread"})
    BY <1>10 DEF ClearCluster, FailOnWrite
  <2>2. job.op = "mkdir"
    BY <1>10 DEF ClearCluster, VolInv, MakeInv
  <2> QED BY <1>0, <1>2, <2>1, <2>2 DEF JobInv, Linking
<1>11. CASE ReadFolderSector \/ WriteFolderSector
  <2>1. (\E v : Return(v)) \/ (job' = job /\ pc = "slotread" /\ pc' = "slotwrite")
    BY <1>11 DEF ReadFolderSector, WriteFolderSector, FailOnWrite
  <2> QED BY <1>0, <1>2, <2>1 DEF JobInv, Linking
<1>12. CASE OpenChainDone \/ LoadChainDone
  <2>1. (\E v : Return(v)) \/ (job' = job /\ pc' = "loading" /\ job.op = "load")
    BY <1>12 DEF OpenChainDone, LoadChainDone
  <2> QED BY <1>0, <1>2, <2>1 DEF JobInv, Linking
<1>13. CASE ReadStep
  <2>1. \A n : [job EXCEPT !.want = n].op = job.op /\ [job EXCEPT !.want = n].name = job.name
    BY DEF TypeInv, JobType
  <2>2. (\E v : Return(v)) \/ (pc = "reading" /\ pc' = pc /\ job'.op = job.op /\ job'.name = job.name)
    BY <1>13, <2>1 DEF ReadStep
  <2> QED BY <1>0, <1>2, <2>2 DEF JobInv, Linking
<1>14. CASE LoadStep
  <2>1. (\E v : Return(v)) \/ UNCHANGED <<pc, job>>
    BY <1>14 DEF LoadStep
  <2> QED BY <1>1, <1>2, <2>1
<1>15. CASE Reset
  BY <1>15, DotNames DEF Reset, JobInv, Linking
<1>16. CASE Halted \/ UNCHANGED <<vars, tree>>
  BY <1>1, <1>16 DEF Halted, vars
<1> QED BY <1>4, <1>5, <1>6, <1>7, <1>8, <1>9, <1>10, <1>11, <1>12, <1>13, <1>14, <1>15, <1>16
        DEF NextP, Next, Step, ListStep

(* What mkdir has written of the new folder.                                  *)
LEMMA NewDirElse ==
  ASSUME pc' \notin {"clear", "slotread", "slotwrite"} \/ (pc' # "clear" /\ job'.op # "mkdir")
  PROVE  NewDirInv'
BY DEF NewDirInv, Linking

LEMMA NewDirCleared ==
  ASSUME TypeInv, NEW D, NEW F, VolInv(D, F), Tidy(disk), NameInv, TreeStep, ClearCluster
  PROVE  NewDirInv'
<1> DEFINE L == LayoutOf(disk)
           lba == DataLba(L, next, sec)
<1>0. pc = "clear" /\ Mounted /\ Making /\ cur' = cur
  BY DEF ClearCluster, Mounted, Making, dirVars
<1>1. /\ CardSet(disk) /\ WellLaid(disk) /\ SecondFollows(disk) /\ Consistent(disk, D, F)
      /\ DataLba(part, next, sec) = lba /\ next \in Clusters(disk)
      /\ part.spc = L.spc /\ L.spc \in Nat \ {0} /\ cur.cluster \in Nat
  BY <1>0, MakePlaces, Places, InClusters, ClusterPlaces
<1>2. /\ sec \in 0..(L.spc - 1) /\ next < EPF /\ \A s \in 0..(sec - 1) : Made(disk, next, cur.cluster, s)
  BY <1>0 DEF VolInv, MakeInv, ClearStage, NameInv, PlaceInv, NewDirInv
<1>3. CASE Return(ERR)
  BY <1>3, NewDirElse DEF Return
<1>4. CASE /\ WriteSector(lba, NewDirSector) /\ UNCHANGED <<job, next>>
           /\ IF MoreToClear THEN sec' = sec + 1 /\ pc' = pc ELSE sec' = 0 /\ pc' = "slotread"
  <2>1. disk' = Written(disk, lba, NewDirSector)
    <3> HIDE DEF lba
    <3> QED BY <1>4, WriteOutcome
  <2>2. NewDirSector \in Sector
    BY <1>1, NewSectorType DEF NewDirSector, TypeInv, LoopType
  <2>3. lba \in Nat /\ lba >= L.fatBegin /\ lba \in DOMAIN disk
    <3>1. lba \in Nat /\ lba >= L.dataBegin
      BY <1>1, <1>2, ClusterPlaces
    <3>2. /\ L.fatBegin \in Nat /\ L.spf \in Nat /\ L.fat2Begin = L.fatBegin + L.spf
          /\ L.dataBegin \in Nat /\ L.dataBegin >= L.fat2Begin + L.spf
      BY <1>1, Places
    <3>3. lba \in DOMAIN disk
      BY <1>1, <1>2 DEF Tidy, OnCard
    <3> HIDE DEF lba
    <3> QED BY <3>1, <3>2, <3>3
  <2>4. \A s \in 0..(sec - 1) : s \in 0..(L.spc - 1) /\ DataLba(L, next, s) # lba
    <3>1. \A s \in 0..(sec - 1) : s \in 0..(L.spc - 1) /\ s # sec
      BY <1>1, <1>2
    <3> QED BY <1>1, <1>2, <3>1, DataLbaUnique
  <2> HIDE DEF lba
  <2>5. /\ LayoutOf(disk') = L /\ (\A x : x # lba => Fetch(disk', x) = Fetch(disk, x))
        /\ Fetch(disk', lba) = NewDirSector
    BY <1>1, <2>1, <2>2, <2>3, WriteSame
  <2>6. Made(disk', next, cur.cluster, sec)
    BY <2>5 DEF Made, NewDirSector, lba
  <2>7. \A s \in 0..(sec - 1) : Made(disk', next, cur.cluster, s)
    BY <1>2, <2>4, <2>5 DEF Made
  <2>8. \A s \in 0..sec : Made(disk', next, cur.cluster, s)
    <3>1. \A s \in 0..sec : s = sec \/ s \in 0..(sec - 1)
      BY <1>2
    <3> QED BY <2>6, <2>7, <3>1
  <2>9. CASE MoreToClear
    <3>1. pc' = "clear" /\ sec' - 1 = sec
      BY <1>0, <1>2, <1>4, <2>9
    <3> QED BY <1>0, <1>4, <2>8, <3>1 DEF NewDirInv, Linking
  <2>10. CASE ~MoreToClear
    <3>1. pc' = "slotread" /\ L.spc - 1 = sec
      BY <1>1, <1>2, <1>4, <2>10 DEF MoreToClear
    <3> QED BY <1>0, <1>4, <2>5, <2>8, <3>1 DEF NewDirInv, Linking
  <2> QED BY <2>9, <2>10
<1> QED BY <1>1, <1>3, <1>4 DEF ClearCluster, FailOnWrite

LEMMA NewDirStep ==
  ASSUME NoYes, TypeInv, NEW D, NEW F, VolInv(D, F), Tidy(disk), NameInv, [NextP]_<<vars, tree>>
  PROVE  NewDirInv'
<1>0. NewDirInv
  BY DEF NameInv, PlaceInv
<1>1. ASSUME NEW v, Return(v) PROVE NewDirInv'
  BY <1>1, NewDirElse DEF Return
<1>2. CASE Mount
  <2>1. pc' \notin {"clear", "slotread", "slotwrite"}
    BY <1>2 DEF Mount, BootSd, ReadMbr, ReadPartition, ReadLabel, Mounting
  <2> QED BY <2>1, NewDirElse
<1>3. CASE Call
  <2>1. pc' \notin {"clear", "slotread", "slotwrite"} \/ (pc' # "clear" /\ job'.op # "mkdir")
    <3>1. ASSUME NEW arg, Touch(arg) PROVE pc' = "prompt" \/ (pc' = "slotread" /\ job'.op = "touch")
      BY <3>1 DEF Touch, Begin, Immediate, Show, NoJob
    <3>2. (~\E arg \in TouchArgs : Touch(arg)) => pc' \notin {"clear", "slotread", "slotwrite"}
      BY <1>3 DEF Call, ChdirRoot, ChdirUp, ListDir, ReadDir, Begin, Getcwd, PrintPartitionInfo, ChdirName, Mkdir,
             Open, LoadFile, Close, Read, Immediate, Show
    <3> QED BY <3>1, <3>2
  <2> QED BY <2>1, NewDirElse
<1>4. CASE FollowChain \/ DirChainDone \/ ScanSector
  <2>1. pc' \in {"prompt", "chain", "scan", "search"}
    <3>1. CASE FollowChain
      BY <3>1 DEF FollowChain, ChainRefused, Return
    <3>2. CASE DirChainDone
      BY <3>2 DEF DirChainDone
    <3>3. CASE ScanSector
      BY <3>3 DEF ScanSector, Return
    <3> QED BY <1>4, <3>1, <3>2, <3>3
  <2> QED BY <2>1, NewDirElse
<1>5. CASE FinishChdir \/ ListStep
  BY <1>1, <1>5, ListingSteps, NewDirElse DEF FinishChdir
<1>6. CASE FinishOpenSearch \/ FinishLoadSearch \/ OpenChainDone \/ LoadChainDone
  <2>1. pc' \in {"prompt", "chain", "loading"}
    BY <1>6 DEF FinishOpenSearch, FinishLoadSearch, OpenChainDone, LoadChainDone, Return
  <2> QED BY <2>1, NewDirElse
<1>7. CASE ReadStep \/ LoadStep
  <2>1. pc' \in {"prompt", "reading", "loading"}
    <3>1. CASE ReadStep
      BY <3>1 DEF ReadStep, Return
    <3>2. CASE LoadStep
      BY <3>2 DEF LoadStep, Return
    <3> QED BY <1>7, <3>1, <3>2
  <2> QED BY <2>1, NewDirElse
<1>8. CASE FindFreeCluster \/ ReadFatSector \/ WriteFatSector
  <2>1. pc' \in {"prompt", "fatread", "fatwrite", "mirror"}
    BY <1>8 DEF FindFreeCluster, ReadFatSector, WriteFatSector, FailOnWrite, Return
  <2> QED BY <2>1, NewDirElse
<1>9. CASE MirrorFatSector
  <2>1. pc' = "prompt" \/ (pc' = "clear" /\ sec' = 0)
    BY <1>9 DEF MirrorFatSector, FailOnWrite, Return, VolInv, MakeInv, loopVars
  <2>2. CASE pc' = "clear" /\ sec' = 0
    <3>1. 0..(sec' - 1) = {}
      BY <2>2
    <3> QED BY <2>2, <3>1 DEF NewDirInv, Linking
  <2> QED BY <2>1, <2>2, NewDirElse
<1>10. CASE ClearCluster
  BY <1>10, NewDirCleared DEF NextP, TreeStep, ClearCluster, vars, sdVars, VolInv, CardInv
<1>11. CASE ReadFolderSector \/ WriteFolderSector
  <2>1. CASE \E v : Return(v)
    BY <1>1, <2>1
  <2>2. CASE \A v : ~Return(v)
    <3>1. /\ ReadFolderSector /\ pc = "slotread" /\ pc' = "slotwrite" /\ UNCHANGED <<job, loopVars, dirVars>>
          /\ ReadSector(FolderLba)
      BY <1>11, <2>2 DEF ReadFolderSector, WriteFolderSector, FailOnWrite
    <3>2. disk' = disk
      BY <3>1, GoodRead DEF VolInv, CardInv
    <3> QED BY <1>0, <3>1, <3>2 DEF NewDirInv, Linking, loopVars, dirVars
  <2> QED BY <2>1, <2>2
<1>12. CASE Reset
  BY <1>12, NewDirElse DEF Reset
<1>13. CASE Halted \/ UNCHANGED <<vars, tree>>
  BY <1>0, <1>13 DEF Halted, vars, sdVars, dirVars, loopVars, NewDirInv, Linking
<1> QED BY <1>2, <1>3, <1>4, <1>5, <1>6, <1>7, <1>8, <1>9, <1>10, <1>11, <1>12, <1>13
        DEF NextP, Next, Step, ListStep
----------------------------------------------------------------------------
(* How far a routine has read the current folder.  Slot i of sector s of the  *)
(* k-th cluster has its place in the folder, behind the slots of the sectors  *)
(* before it and the ones before it in its own.                               *)
LEMMA DivModOf ==
  ASSUME NEW a \in Nat, NEW k \in Nat \ {0}, NEW s \in 0..(k - 1)
  PROVE  a * k + s \in Nat /\ (a * k + s) \div k = a /\ (a * k + s) % k = s
<1> DEFINE x == a * k + s
           q == x \div k
           r == x % k
<1>1. x \in Nat
  <2>1. a * k \in Nat
    OBVIOUS
  <2> QED BY <2>1
<1> HIDE DEF x
<1>2. q \in Nat /\ r \in 0..(k - 1) /\ x = q * k + r
  <2>1. q \in Nat /\ r \in 0..(k - 1) /\ x = k * q + r
    BY <1>1
  <2>2. k * q = q * k
    BY <2>1
  <2> HIDE DEF q, r
  <2> QED BY <2>1, <2>2
<1> HIDE DEF q, r
<1>3. a * k + s = q * k + r
  BY <1>2 DEF x
<1>4. a = q /\ s = r
  BY <1>2, <1>3, PlaceUnique
<1> QED BY <1>1, <1>4 DEF x, q, r

LEMMA DivGrows ==
  ASSUME NEW x \in Nat, NEW y \in Nat, x < y, NEW k \in Nat \ {0}
  PROVE  /\ x \div k \in Nat /\ y \div k \in Nat /\ x % k \in 0..(k - 1) /\ y % k \in 0..(k - 1)
         /\ x \div k < y \div k \/ (x \div k = y \div k /\ x % k < y % k)
<1> DEFINE a == x \div k
           b == y \div k
           s == x % k
           t == y % k
<1>1. a \in Nat /\ b \in Nat /\ s \in 0..(k - 1) /\ t \in 0..(k - 1)
  OBVIOUS
<1>2. x = k * a + s /\ y = k * b + t
  OBVIOUS
<1> HIDE DEF a, b, s, t
<1>3. k * a = a * k /\ k * b = b * k /\ a * k \in Nat /\ b * k \in Nat
  BY <1>1
<1>4. b < a => b * k + t < a * k
  BY <1>1, Ahead
<1>5. ~(b < a)
  <2> SUFFICES ASSUME b < a PROVE FALSE
    OBVIOUS
  <2> DEFINE p == a * k
             q == b * k
  <2>1. q + t < p /\ p \in Nat /\ q \in Nat /\ x = p + s /\ y = q + t
    BY <1>2, <1>3, <1>4
  <2> HIDE DEF p, q
  <2> QED BY <1>1, <2>1
<1>6. a = b => s < t
  <2> SUFFICES ASSUME a = b PROVE s < t
    OBVIOUS
  <2> DEFINE p == k * a
  <2>1. x = p + s /\ y = p + t /\ p \in Nat
    BY <1>2, <1>3
  <2> HIDE DEF p
  <2> QED BY <1>1, <2>1
<1>7. a < b \/ (a = b /\ s < t)
  BY <1>1, <1>5, <1>6
<1> QED BY <1>1, <1>7 DEF a, b, s, t

PlaceOf(dk, k, s, i) == ((k - 1) * LayoutOf(dk).spc + s) * SLOTS + i
LEMMA PlaceSpec ==
  ASSUME NEW dk, CardSet(dk), WellLaid(dk), NEW d, Len(Chain(dk, d)) \in Nat,
         NEW k \in 1..Len(Chain(dk, d)), NEW s \in 0..(LayoutOf(dk).spc - 1), NEW i \in 1..SLOTS
  PROVE  LET j == PlaceOf(dk, k, s, i) IN
         /\ j \in 1..SlotCount(dk, d) /\ RankOf(dk, j) = k /\ SectorOf(dk, j) = s /\ ItemOf(j) = i
         /\ \A m \in 1..(j - 1) :
              \/ RankOf(dk, m) < k
              \/ RankOf(dk, m) = k /\ SectorOf(dk, m) < s
              \/ RankOf(dk, m) = k /\ SectorOf(dk, m) = s /\ ItemOf(m) < i
<1> DEFINE spc == LayoutOf(dk).spc
           n == Len(Chain(dk, d))
           a == (k - 1) * spc + s
           j == a * SLOTS + i
           x == a * SLOTS + (i - 1)
<1>1. spc \in Nat \ {0} /\ SLOTS \in Nat \ {0}
  BY Places, DiskAssumption
<1>2. k - 1 \in Nat /\ s \in 0..(spc - 1) /\ i - 1 \in 0..(SLOTS - 1)
  BY <1>1
<1> HIDE DEF spc
<1>3. a \in Nat /\ a \div spc = k - 1 /\ a % spc = s
  BY <1>1, <1>2, DivModOf
<1> HIDE DEF a
<1>4. x \in Nat /\ x \div SLOTS = a /\ x % SLOTS = i - 1
  BY <1>1, <1>2, <1>3, DivModOf
<1>5. j = x + 1 /\ j \in Nat \ {0}
  <2>1. a * SLOTS \in Nat
    BY <1>1, <1>3
  <2> DEFINE y == a * SLOTS
  <2> HIDE DEF y
  <2> QED BY <2>1 DEF y
<1>6. j <= SlotCount(dk, d)
  <2>1. (k - 1) * spc + s < n * spc
    BY <1>1, <1>2, Ahead
  <2>2. a < n * spc /\ n * spc \in Nat
    BY <1>1, <2>1 DEF a
  <2>3. a * SLOTS + (i - 1) < (n * spc) * SLOTS
    BY <1>1, <1>2, <1>3, <2>2, Ahead
  <2>4. SlotCount(dk, d) = (n * spc) * SLOTS /\ (n * spc) * SLOTS \in Nat
    BY <1>1, <2>2 DEF SlotCount, spc
  <2> DEFINE y == (n * spc) * SLOTS
  <2>5. x < y /\ y \in Nat /\ SlotCount(dk, d) = y
    BY <2>3, <2>4
  <2> HIDE DEF y, x, j
  <2> QED BY <1>4, <1>5, <2>5
<1> HIDE DEF x, j
<1>7. j - 1 = x
  BY <1>4, <1>5
<1>8. RankOf(dk, j) = k /\ SectorOf(dk, j) = s /\ ItemOf(j) = i
  BY <1>2, <1>3, <1>4, <1>7 DEF RankOf, SectorOf, ItemOf, spc
<1>9. ASSUME NEW m \in 1..(j - 1)
      PROVE  \/ RankOf(dk, m) < k
             \/ RankOf(dk, m) = k /\ SectorOf(dk, m) < s
             \/ RankOf(dk, m) = k /\ SectorOf(dk, m) = s /\ ItemOf(m) < i
  <2> DEFINE y == m - 1
             b == y \div SLOTS
  <2>1. y \in Nat /\ y < x
    BY <1>4, <1>5, <1>7
  <2> HIDE DEF y
  <2>2. b \in Nat /\ y % SLOTS \in 0..(SLOTS - 1) /\ (b < a \/ (b = a /\ y % SLOTS < i - 1))
    <3>1. /\ b \in Nat /\ x \div SLOTS \in Nat /\ y % SLOTS \in 0..(SLOTS - 1) /\ x % SLOTS \in 0..(SLOTS - 1)
          /\ b < x \div SLOTS \/ (b = x \div SLOTS /\ y % SLOTS < x % SLOTS)
      BY <1>1, <1>4, <2>1, DivGrows
    <3> QED BY <1>4, <3>1
  <2>3. RankOf(dk, m) = 1 + (b \div spc) /\ SectorOf(dk, m) = b % spc /\ ItemOf(m) = 1 + (y % SLOTS)
    BY DEF RankOf, SectorOf, ItemOf, spc, y
  <2> HIDE DEF b
  <2>4. CASE b < a
    <3>1. /\ b \div spc \in Nat /\ b % spc \in 0..(spc - 1)
          /\ b \div spc < k - 1 \/ (b \div spc = k - 1 /\ b % spc < s)
      BY <1>1, <1>3, <2>2, <2>4, DivGrows
    <3> DEFINE z == b \div spc
    <3> HIDE DEF z
    <3>2. z \in Nat /\ RankOf(dk, m) = 1 + z /\ (z < k - 1 \/ (z = k - 1 /\ SectorOf(dk, m) < s))
      BY <2>3, <3>1 DEF z
    <3> QED BY <3>2
  <2>5. CASE b = a /\ y % SLOTS < i - 1
    <3>1. RankOf(dk, m) = k /\ SectorOf(dk, m) = s
      BY <1>2, <1>3, <2>3, <2>5
    <3>2. ItemOf(m) < i
      <4> DEFINE z == y % SLOTS
      <4>1. z \in Nat /\ z < i - 1 /\ ItemOf(m) = 1 + z
        BY <2>2, <2>3, <2>5
      <4> HIDE DEF z
      <4> QED BY <4>1
    <3> QED BY <3>1, <3>2
  <2> QED BY <2>2, <2>4, <2>5
<1>10. PlaceOf(dk, k, s, i) = j
  BY DEF PlaceOf, j, a, spc
<1> QED BY <1>5, <1>6, <1>8, <1>9, <1>10

LEMMA ListingSpec ==
  ASSUME NEW m \in Nat, NEW B \in [1..m -> SlotSet]
  PROVE  /\ EndSlot(B) \in 0..m /\ (EndSlot(B) # 0 => B[EndSlot(B)].t = "free")
         /\ Len(SlotsUpToEnd(B)) = (IF EndSlot(B) = 0 THEN m ELSE EndSlot(B) - 1)
         /\ DOMAIN SlotsUpToEnd(B) = 1..Len(SlotsUpToEnd(B))
         /\ \A i \in 1..Len(SlotsUpToEnd(B)) : SlotsUpToEnd(B)[i] = B[i]
BY EndSlotType

LEMMA ScanFinds ==
  ASSUME TypeInv, NEW D, NEW F, VolInv(D, F), PlaceInv, pc = "scan", sec \in 0..(LayoutOf(disk).spc - 1),
         NEW slots, slots = Slots(Fetch(disk, DataLba(LayoutOf(disk), ll[ctr], sec)))
  PROVE  /\ slots \in SlotSeq /\ (EndSlot(slots) = 0 => GoesOn(ll[ctr], sec))
         /\ EntriesIn(slots) \in Seq(SlotSet)
         /\ \A n \in 1..Len(EntriesIn(slots)) : \E j \in DOMAIN DirSlots(disk, cur.cluster) :
              /\ EntriesIn(slots)[n] = DirSlots(disk, cur.cluster)[j]
              /\ IsEntry(EntriesIn(slots)[n])
<1> DEFINE d == cur.cluster
           A == Content(disk, d)
           M == SlotCount(disk, d)
           n0 == Len(Chain(disk, d))
<1>1. /\ CardSet(disk) /\ WellLaid(disk) /\ Consistent(disk, D, F) /\ ChainClosed(disk, D) /\ d \in D
      /\ ctr \in 1..Len(ll) /\ ll \in Seq(Nat)
  BY DEF VolInv, CardInv, FolderInv, Mounted, TypeInv, CardType, CardSet, LoopType, Consistent
<1>2. slots \in SlotSeq /\ \A i \in 1..SLOTS : slots[i] = SlotAt(disk, ll[ctr], sec, i)
  BY <1>1, FetchType DEF SlotAt
<1>3. /\ EndSlot(slots) \in 0..SLOTS
      /\ \A i \in 1..SLOTS : (EndSlot(slots) = 0 \/ i < EndSlot(slots)) => slots[i].t # "free"
      /\ Len(SlotsUpToEnd(slots)) = IF EndSlot(slots) = 0 THEN SLOTS ELSE EndSlot(slots) - 1
  BY <1>2, EndSlotType, DiskAssumption DEF SlotSeq
<1>4. EndSlot(slots) = 0 => GoesOn(ll[ctr], sec)
  BY <1>2, <1>3 DEF GoesOn
<1>5. /\ M \in Nat /\ A \in [1..M -> SlotSet] /\ DirSlots(disk, d) = SlotsUpToEnd(A)
      /\ \A i \in 1..M :
           /\ RankOf(disk, i) \in 1..n0 /\ SectorOf(disk, i) \in 0..(LayoutOf(disk).spc - 1)
           /\ ItemOf(i) \in 1..SLOTS
           /\ A[i] = SlotAt(disk, Chain(disk, d)[RankOf(disk, i)], SectorOf(disk, i), ItemOf(i))
  BY <1>1, ContentSpec DEF ClusterOf
<1>6. /\ EndSlot(A) \in 0..M /\ (EndSlot(A) # 0 => A[EndSlot(A)].t = "free")
      /\ Len(SlotsUpToEnd(A)) = (IF EndSlot(A) = 0 THEN M ELSE EndSlot(A) - 1)
      /\ DOMAIN SlotsUpToEnd(A) = 1..Len(SlotsUpToEnd(A))
      /\ \A i \in 1..Len(SlotsUpToEnd(A)) : SlotsUpToEnd(A)[i] = A[i]
  <2>1. M \in Nat /\ A \in [1..M -> SlotSet]
    BY <1>5
  <2> HIDE DEF A, M
  <2> QED BY <2>1, ListingSpec
<1>7. /\ \A i \in 1..Len(ll) : i <= n0 /\ ll[i] = Chain(disk, d)[i]
      /\ \A k \in 1..ctr : \A s \in 0..(LayoutOf(disk).spc - 1) : k < ctr \/ s < sec => GoesOn(ll[k], s)
      /\ n0 \in Nat /\ Len(ll) \in Nat
  BY <1>1, ChainStays DEF PlaceInv, WalkInv
<1>8. /\ EntriesIn(slots) \in Seq(SlotSet)
      /\ \A n \in 1..Len(EntriesIn(slots)) :
           \E i \in 1..SLOTS : i <= Len(SlotsUpToEnd(slots)) /\ EntriesIn(slots)[n] = slots[i] /\ IsEntry(slots[i])
  BY <1>2, EntriesType
<1>9. ASSUME NEW n \in 1..Len(EntriesIn(slots))
      PROVE  \E j \in DOMAIN DirSlots(disk, d) :
               EntriesIn(slots)[n] = DirSlots(disk, d)[j] /\ IsEntry(EntriesIn(slots)[n])
  <2>1. PICK i \in 1..SLOTS :
          i <= Len(SlotsUpToEnd(slots)) /\ EntriesIn(slots)[n] = slots[i] /\ IsEntry(slots[i])
    BY <1>8
  <2> DEFINE j == PlaceOf(disk, ctr, sec, i)
  <2>2. ctr \in 1..n0
    BY <1>1, <1>7
  <2>3. /\ j \in 1..M /\ RankOf(disk, j) = ctr /\ SectorOf(disk, j) = sec /\ ItemOf(j) = i
        /\ \A m \in 1..(j - 1) :
             \/ RankOf(disk, m) < ctr
             \/ RankOf(disk, m) = ctr /\ SectorOf(disk, m) < sec
             \/ RankOf(disk, m) = ctr /\ SectorOf(disk, m) = sec /\ ItemOf(m) < i
    BY <1>1, <1>7, <2>2, PlaceSpec
  <2> HIDE DEF j, A, M, n0
  <2>4. A[j] = slots[i]
    BY <1>1, <1>2, <1>5, <1>7, <2>3
  <2>5. ASSUME NEW m \in 1..(j - 1) PROVE A[m].t # "free"
    <3>1. m \in 1..M
      BY <1>5, <2>3
    <3>2. /\ RankOf(disk, m) \in 1..n0 /\ SectorOf(disk, m) \in 0..(LayoutOf(disk).spc - 1)
          /\ ItemOf(m) \in 1..SLOTS
          /\ A[m] = SlotAt(disk, Chain(disk, d)[RankOf(disk, m)], SectorOf(disk, m), ItemOf(m))
      BY <1>5, <3>1
    <3>3. RankOf(disk, m) \in 1..ctr
      BY <1>1, <2>3, <2>5, <3>2
    <3>4. ll[RankOf(disk, m)] = Chain(disk, d)[RankOf(disk, m)]
      BY <1>1, <1>7, <3>3
    <3>5. CASE RankOf(disk, m) < ctr \/ SectorOf(disk, m) < sec
      BY <1>7, <3>2, <3>3, <3>4, <3>5 DEF GoesOn
    <3>6. CASE RankOf(disk, m) = ctr /\ SectorOf(disk, m) = sec /\ ItemOf(m) < i
      <4>1. slots[ItemOf(m)].t # "free"
        BY <1>3, <2>1, <3>2, <3>6
      <4> QED BY <1>2, <3>2, <3>4, <3>6, <4>1
    <3> QED BY <2>3, <2>5, <3>5, <3>6
  <2>6. j <= Len(SlotsUpToEnd(A))
    <3>1. A[j].t # "free"
      BY <2>1, <2>4 DEF IsEntry
    <3>2. EndSlot(A) # 0 => EndSlot(A) > j
      BY <1>5, <1>6, <2>3, <2>5, <3>1
    <3> QED BY <1>5, <1>6, <2>3, <3>2
  <2>7. j \in DOMAIN DirSlots(disk, d) /\ DirSlots(disk, d)[j] = A[j]
    BY <1>5, <1>6, <2>3, <2>6
  <2> QED BY <2>1, <2>4, <2>7
<1> QED BY <1>2, <1>4, <1>8, <1>9

LEMMA WalkElse ==
  ASSUME pc' \notin {"chain", "scan", "search"} PROVE WalkInv'
BY DEF WalkInv

(* A chain that is begun anew.                                                *)
LEMMA WalkBegins ==
  ASSUME TypeInv, NEW D, NEW F, VolInv(D, F), Mounted, NEW op, NEW nm, ReadDir(op, nm)
  PROVE  WalkInv'
<1>1. /\ pc' = "chain" /\ ll' = <<>> /\ next' = cur.cluster /\ files' = <<>> /\ disk' = disk /\ cur' = cur
  BY DEF ReadDir, Begin, StartChain, sdVars, dirVars
<1>2. Follow(disk, cur.cluster)[0] = cur.cluster
  <2>1. CardSet(disk) /\ cur.cluster \in Nat
    BY DEF TypeInv, CardType, CardSet, PlaceType, FolderSet
  <2> QED BY <2>1, FollowSpec
<1>3. Len(ll') = 0 /\ \A i \in 1..Len(ll') : FALSE
  BY <1>1
<1> QED BY <1>1, <1>2, <1>3 DEF WalkInv, Followed

(* A chain begun, and a chain read one cluster further.                       *)
LEMMA ListBegins ==
  ASSUME CardSet(disk), NEW c \in Nat, StartChain(c), disk' = disk
  PROVE  Followed(c)'
<1>1. ll' = <<>> /\ next' = c /\ Follow(disk, c)[0] = c
  BY FollowSpec DEF StartChain
<1>2. Len(ll') = 0 /\ 1..0 = {}
  BY <1>1
<1> QED BY <1>1, <1>2 DEF Followed

LEMMA ListFollows ==
  ASSUME NoYes, TypeInv, NEW D, NEW F, VolInv(D, F), Mounted, NEW c \in Nat, Followed(c),
         ReadSector(FatLba(part, next)), InChain(next), ll' = Append(ll, next), next' = FatItem(sdbuf', next % EPF),
         next \in D \cup F
  PROVE  Followed(c)' /\ disk' = disk
<1> DEFINE f == Follow(disk, c)
           n == Len(ll)
<1>1. Laid(part, LayoutOf(disk)) /\ ll \in Seq(Nat) /\ ignoreCrc = FALSE /\ CardSet(disk)
  BY DEF VolInv, MountInv, CardInv, TypeInv, CardType, CardSet, LoopType
<1>2. FatLba(part, next) \in DOMAIN disk /\ sdbuf' = disk[FatLba(part, next)] /\ disk' = disk
  BY <1>1, GoodRead
<1>3. FatLba(part, next) = FatLba(LayoutOf(disk), next)
  BY <1>1 DEF Laid, FatLba
<1>4. next' = FatEntry(disk, next)
  <2>1. RawEntry(disk, next) = FatEntry(disk, next)
    BY DEF VolInv, CardInv, Consistent, ChainClosed
  <2> QED BY <1>2, <1>3, <2>1 DEF RawEntry, Fetch
<1>5. (\A i \in 1..n : ll[i] = f[i - 1] /\ InChain(ll[i])) /\ next = f[n] /\ n \in Nat
  BY <1>1 DEF Followed
<1>6. f[n + 1] = IF InChain(f[n]) THEN FatEntry(disk, f[n]) ELSE 0
  <2>1. \A m \in Nat : f[m + 1] = IF InChain(f[m]) THEN FatEntry(disk, f[m]) ELSE 0
    BY <1>1, FollowSpec
  <2> HIDE DEF f, n
  <2> QED BY <1>5, <2>1
<1>7. Len(ll') = n + 1 /\ \A i \in 1..Len(ll') : ll'[i] = IF i <= n THEN ll[i] ELSE next
  BY <1>1 DEF TypeInv, LoopType
<1> HIDE DEF f, n
<1>8. ASSUME NEW i \in 1..Len(ll') PROVE ll'[i] = f[i - 1] /\ InChain(ll'[i])
  <2>1. CASE i <= n
    BY <1>5, <1>7, <2>1
  <2>2. CASE i = n + 1
    <3>1. i - 1 = n /\ ~(i <= n)
      BY <1>5, <2>2
    <3> QED BY <1>5, <1>7, <3>1
  <2> QED BY <1>5, <1>7, <2>1, <2>2
<1>9. next' = f[Len(ll')]
  BY <1>4, <1>5, <1>6, <1>7
<1> QED BY <1>2, <1>8, <1>9 DEF Followed, f

LEMMA WalkFollows ==
  ASSUME NoYes, TypeInv, NEW D, NEW F, VolInv(D, F), PlaceInv, FollowChain
  PROVE  WalkInv'
<1>1. CASE ChainRefused
  BY <1>1, WalkElse DEF ChainRefused, Return
<1>2. CASE ReadSector(FatLba(part, next)) /\ ~ChainRefused
  <2>1. /\ pc = "chain" /\ pc' = "chain" /\ InChain(next) /\ job' = job /\ files' = files /\ cur' = cur
        /\ ll' = Append(ll, next) /\ next' = FatItem(sdbuf', next % EPF)
    BY <1>2 DEF FollowChain, ChainGoesOn, dirVars
  <2>2. Mounted /\ cur.cluster \in Nat /\ files = <<>>
    BY <2>1 DEF Mounted, TypeInv, PlaceType, FolderSet, PlaceInv, WalkInv
  <2>3. CASE IsFileChain
    BY <2>1, <2>2, <2>3 DEF WalkInv, IsFileChain
  <2>4. CASE ~IsFileChain
    <3>1. Followed(cur.cluster) /\ next \in D \cup F
      BY <2>1, <2>4 DEF PlaceInv, WalkInv, VolInv, FolderInv
    <3>2. Followed(cur.cluster)' /\ disk' = disk
      <4> DEFINE c == cur.cluster
      <4>1. c \in Nat /\ Followed(c)
        BY <2>2, <3>1
      <4>2. c' = c
        BY <2>1
      <4> HIDE DEF c
      <4>3. Followed(c)'
        BY <1>2, <2>1, <2>2, <3>1, <4>1, <4>2, ListFollows
      <4> QED BY <1>2, <2>1, <2>2, <3>1, <4>1, <4>3, ListFollows DEF c
    <3> QED BY <2>1, <2>2, <3>2 DEF WalkInv
  <2> QED BY <2>3, <2>4
<1> QED BY <1>1, <1>2 DEF FollowChain

(* A list that the code can hold is shorter than what a loop is cut off at.   *)
LEMMA ListsAreShort ==
  ASSUME NEW dk, CardSet(dk), WellLaid(dk)
  PROVE  LLSZ \in Nat /\ EPF * LayoutOf(dk).spf \in Nat /\ LLSZ < EPF * LayoutOf(dk).spf
<1> DEFINE n == LayoutOf(dk).spf
<1>1. n \in Nat \ {0} /\ EPF \in Nat \ {0} /\ LLSZ \in Nat /\ LLSZ < EPF
  BY Places, DiskAssumption
<1> HIDE DEF n
<1>2. EPF * n \in Nat /\ EPF * n >= EPF
  BY <1>1
<1>3. LLSZ < EPF * n
  <2> DEFINE m == EPF * n
  <2>1. m \in Nat /\ m >= EPF
    BY <1>2
  <2> HIDE DEF m
  <2>2. LLSZ < m
    BY <1>1, <2>1
  <2> QED BY <2>2 DEF m
<1> QED BY <1>1, <1>2, <1>3 DEF n

LEMMA WalkScans ==
  ASSUME TypeInv, NEW D, NEW F, VolInv(D, F), PlaceInv, DirChainDone
  PROVE  WalkInv'
<1> DEFINE c == cur.cluster
           n == Len(Chain(disk, c))
<1>1. /\ pc = "chain" /\ Mounted /\ ~IsFileChain /\ pc' = (IF ll = <<>> THEN "search" ELSE "scan")
      /\ ctr' = 1 /\ sec' = 0 /\ UNCHANGED <<disk, cur, ll, files>>
  BY DEF DirChainDone, Mounted, sdVars, dirVars
<1>2. /\ \A i \in 1..Len(ll) : ll[i] = Follow(disk, c)[i - 1] /\ InChain(ll[i])
      /\ files = <<>> /\ ll \in Seq(Nat) /\ c \in Folders(disk) /\ c \in Nat
      /\ CardSet(disk) /\ WellLaid(disk)
  BY <1>1 DEF PlaceInv, WalkInv, Followed, PathInv, TypeInv, LoopType, PlaceType, CardType, CardSet, FolderSet, VolInv, CardInv
<1>3. n \in Nat /\ \A i \in 1..n : Chain(disk, c)[i] = Follow(disk, c)[i - 1]
  <2>1. c \in Nat /\ CardSet(disk) /\ WellLaid(disk)
    BY <1>2
  <2> HIDE DEF c
  <2> QED BY <2>1, ChainSpec DEF n
<1>4. Len(ll) <= n
  <2> SUFFICES ASSUME Len(ll) > n PROVE FALSE
    BY <1>2, <1>3
  <2>1. n + 1 \in 1..Len(ll) /\ (n + 1) - 1 = n /\ Len(ll) <= LLSZ
    BY <1>2, <1>3 DEF TypeInv, LoopType
  <2>2. ChainEnds(disk, c)
    BY <1>2, <1>3, <2>1, ListsAreShort DEF ChainEnds
  <2>3. ~InChain(Follow(disk, c)[n])
    BY <1>2, <2>2, ChainSpec
  <2> QED BY <1>2, <1>3, <2>1, <2>3
<1>5. \A i \in 1..Len(ll) : i <= n /\ ll[i] = Chain(disk, c)[i]
  BY <1>2, <1>3, <1>4
<1>6. \A k \in 1..1 : \A s \in 0..(LayoutOf(disk).spc - 1) : ~(k < 1 \/ s < 0)
  BY <1>2, Places
<1>7. Len(files') = 0 /\ pc' # "chain" /\ \A i \in 1..Len(files') : FALSE
  BY <1>1, <1>2
<1> QED BY <1>1, <1>5, <1>6, <1>7 DEF WalkInv

LEMMA WalkSector ==
  ASSUME NoYes, TypeInv, NEW D, NEW F, VolInv(D, F), PlaceInv, ScanSector
  PROVE  WalkInv'
<1> DEFINE lba == DataLba(part, ll[ctr], sec)
           slots == Slots(sdbuf')
           found == EntriesIn(slots)
           L == LayoutOf(disk)
           Listing == DirSlots(disk, cur.cluster)
<1>1. /\ pc = "scan" /\ Laid(part, L) /\ ignoreCrc = FALSE /\ cur' = cur
      /\ ctr \in 1..Len(ll) /\ sec \in 0..(L.spc - 1) /\ ll \in Seq(Nat) /\ files \in Seq(SlotSet)
      /\ CardSet(disk) /\ WellLaid(disk)
  BY DEF ScanSector, dirVars, VolInv, MountInv, CardInv, Mounted, TypeInv, LoopType, CardType, CardSet, Laid
<1>2. lba = DataLba(L, ll[ctr], sec)
  BY <1>1 DEF Laid, DataLba
<1>3. CASE \E v : Return(v)
  BY <1>3, WalkElse DEF Return
<1>4. CASE /\ ReadSector(lba) /\ files' = files \o found /\ ll' = ll
           /\ \/ pc' = "search"
              \/ pc' = "scan" /\ EndSlot(slots) = 0 /\ ~LastSector /\ NextSector
  <2>1. lba \in DOMAIN disk /\ sdbuf' = disk[lba] /\ disk' = disk
    <3> HIDE DEF lba, found, slots
    <3> QED BY <1>1, <1>4, GoodRead
  <2>2. slots = Slots(Fetch(disk, DataLba(L, ll[ctr], sec)))
    BY <1>2, <2>1 DEF Fetch
  <2> HIDE DEF lba, slots
  <2>3. /\ (EndSlot(slots) = 0 => GoesOn(ll[ctr], sec)) /\ found \in Seq(SlotSet)
        /\ \A n \in 1..Len(found) : \E j \in DOMAIN Listing : found[n] = Listing[j] /\ IsEntry(found[n])
    BY <1>1, <2>2, ScanFinds
  <2>4. \A i \in 1..Len(files) : \E j \in DOMAIN Listing : files[i] = Listing[j] /\ IsEntry(files[i])
    BY <1>1 DEF PlaceInv, WalkInv
  <2> HIDE DEF found, Listing
  <2>5. \A i \in 1..Len(files') : \E j \in DOMAIN Listing : files'[i] = Listing[j] /\ IsEntry(files'[i])
    <3>1. /\ Len(files') = Len(files) + Len(found) /\ Len(files) \in Nat /\ Len(found) \in Nat
          /\ \A i \in 1..Len(files') : files'[i] = IF i <= Len(files) THEN files[i] ELSE found[i - Len(files)]
      BY <1>1, <1>4, <2>3
    <3>2. \A i \in 1..Len(files') : IF i <= Len(files) THEN i \in 1..Len(files) ELSE i - Len(files) \in 1..Len(found)
      BY <3>1
    <3> QED BY <2>3, <2>4, <3>1, <3>2
  <2>6. CASE pc' = "search"
    BY <1>1, <2>1, <2>5, <2>6 DEF WalkInv, Listing
  <2>7. CASE pc' = "scan" /\ EndSlot(slots) = 0 /\ ~LastSector /\ NextSector
    <3>1. /\ \A i \in 1..Len(ll) : i <= Len(Chain(disk, cur.cluster)) /\ ll[i] = Chain(disk, cur.cluster)[i]
          /\ \A k \in 1..ctr : \A s \in 0..(L.spc - 1) : k < ctr \/ s < sec => GoesOn(ll[k], s)
      BY <1>1 DEF PlaceInv, WalkInv
    <3>2. GoesOn(ll[ctr], sec)
      BY <2>3, <2>7
    <3>3. L.spc \in Nat \ {0} /\ part.spc = L.spc
      BY <1>1, Places DEF Laid
    <3>4. ASSUME NEW k \in 1..ctr', NEW s \in 0..(L.spc - 1), k < ctr' \/ s < sec' PROVE GoesOn(ll[k], s)
      <4>1. CASE sec + 1 < L.spc
        <5>1. ctr' = ctr /\ sec' = sec + 1
          BY <2>7, <3>3, <4>1 DEF NextSector
        <5>2. (k < ctr \/ s < sec) \/ (k = ctr /\ s = sec)
          BY <1>1, <3>3, <3>4, <5>1
        <5> QED BY <1>1, <3>1, <3>2, <3>4, <5>1, <5>2
      <4>2. CASE ~(sec + 1 < L.spc)
        <5>1. ctr' = ctr + 1 /\ sec' = 0
          BY <2>7, <3>3, <4>2 DEF NextSector
        <5>2. k \in 1..ctr
          BY <1>1, <3>3, <3>4, <5>1
        <5>3. (k < ctr \/ s < sec) \/ (k = ctr /\ s = sec)
          BY <1>1, <3>3, <4>2, <5>2
        <5> QED BY <1>1, <3>1, <3>2, <5>2, <5>3
      <4> QED BY <4>1, <4>2
    <3>5. \A k, s : GoesOn(k, s) <=> GoesOn(k, s)'
      BY <2>1 DEF GoesOn
    <3> QED BY <1>1, <1>4, <2>1, <2>5, <2>7, <3>1, <3>4, <3>5 DEF WalkInv, Listing
  <2> QED BY <1>4, <2>6, <2>7
<1>5. \/ \E v : Return(v)
      \/ /\ ReadSector(lba) /\ files' = files \o found /\ ll' = ll
         /\ \/ pc' = "search"
            \/ pc' = "scan" /\ EndSlot(slots) = 0 /\ ~LastSector /\ NextSector
  <2> HIDE DEF lba
  <2> QED BY <1>1 DEF ScanSector, lba
<1> QED BY <1>3, <1>4, <1>5

LEMMA WalkStep ==
  ASSUME NoYes, TypeInv, NEW D, NEW F, VolInv(D, F), PlaceInv, [NextP]_<<vars, tree>>
  PROVE  WalkInv'
<1>0. WalkInv
  BY DEF PlaceInv
<1>1. CASE FollowChain \/ DirChainDone \/ ScanSector
  BY <1>1, WalkFollows, WalkScans, WalkSector
<1>2. CASE Mount
  <2>1. pc' \notin {"chain", "scan", "search"}
    BY <1>2 DEF Mount, BootSd, ReadMbr, ReadPartition, ReadLabel, Mounting
  <2> QED BY <2>1, WalkElse
<1>3. CASE Call
  <2>1. ASSUME NEW op, NEW nm, ReadDir(op, nm) PROVE WalkInv'
    <3>1. Mounted
      BY <2>1 DEF ReadDir, Begin, Mounted
    <3> QED BY <2>1, <3>1, WalkBegins
  <2>2. CASE \A op, nm : ~ReadDir(op, nm)
    <3>1. pc' \notin {"chain", "scan", "search"}
      BY <1>3, <2>2 DEF Call, ChdirRoot, ChdirUp, ListDir, Getcwd, PrintPartitionInfo, ChdirName, Mkdir, Touch,
             Begin, Open, LoadFile, Close, Read, Immediate, Show
    <3> QED BY <3>1, WalkElse
  <2> QED BY <2>1, <2>2
<1>4. CASE FinishChdir \/ ListStep \/ OpenChainDone \/ LoadChainDone \/ LoadStep \/ ReadStep
  <2>1. pc' \in {"prompt", "paging", "loading", "reading"}
    <3>1. CASE FinishChdir \/ ListStep
      BY <3>1, ListingSteps DEF FinishChdir, Return
    <3>2. CASE OpenChainDone \/ LoadChainDone
      BY <3>2 DEF OpenChainDone, LoadChainDone, Return
    <3>3. CASE LoadStep
      BY <3>3 DEF LoadStep, Return
    <3>4. CASE ReadStep
      BY <3>4 DEF ReadStep, Return
    <3> QED BY <1>4, <3>1, <3>2, <3>3, <3>4
  <2> QED BY <2>1, WalkElse
<1>5. CASE FinishOpenSearch \/ FinishLoadSearch
  <2>1. CASE \E v : Return(v)
    BY <2>1, WalkElse DEF Return
  <2>2. CASE pc' = "chain" /\ files' = <<>> /\ IsFileChain'
    BY <2>2 DEF WalkInv
  <2>3. CASE FinishOpenSearch /\ ~\E v : Return(v)
    <3>1. pc' = "chain" /\ files' = <<>> /\ FreeFds # {} /\ job' = [job EXCEPT !.fd = FirstOf(FreeFds)]
      BY <2>3 DEF FinishOpenSearch, StartChain
    <3>2. FirstOf(FreeFds) \in Nat
      <4>1. FreeFds \in SUBSET Nat
        BY DEF FreeFds, Fds
      <4> QED BY <3>1, <4>1, FirstOfIn
    <3>3. job'.fd = FirstOf(FreeFds)
      BY <3>1 DEF TypeInv, JobType
    <3>4. IsFileChain'
      BY <3>2, <3>3 DEF IsFileChain
    <3> QED BY <2>2, <3>1, <3>4
  <2>4. CASE FinishLoadSearch /\ ~\E v : Return(v)
    <3> DEFINE at == SearchDir("file")
    <3>1. pc' = "chain" /\ files' = <<>> /\ at # 0 /\ job' = [job EXCEPT !.want = files[at].size + 1]
      BY <2>4 DEF FinishLoadSearch, StartChain, Loadable
    <3>2. files[at].size \in Nat
      BY <3>1, SearchType DEF TypeInv, SlotSet
    <3>3. job'.want = files[at].size + 1
      <4> HIDE DEF at
      <4> QED BY <3>1 DEF TypeInv, JobType
    <3>4. IsFileChain'
      <4> HIDE DEF at
      <4> QED BY <3>2, <3>3 DEF IsFileChain
    <3> QED BY <2>2, <3>1, <3>4
  <2> QED BY <1>5, <2>1, <2>3, <2>4
<1>6. CASE FindFreeCluster \/ ReadFatSector \/ WriteFatSector \/ MirrorFatSector \/ ClearCluster
           \/ ReadFolderSector \/ WriteFolderSector
  <2>1. pc' \notin {"chain", "scan", "search"}
    BY <1>6 DEF FindFreeCluster, ReadFatSector, WriteFatSector, MirrorFatSector, ClearCluster, ReadFolderSector,
           WriteFolderSector, FailOnWrite, Return
  <2> QED BY <2>1, WalkElse
<1>7. CASE Reset
  BY <1>7, WalkElse DEF Reset
<1>8. CASE Halted \/ UNCHANGED <<vars, tree>>
  BY <1>0, <1>8 DEF Halted, vars, sdVars, dirVars, loopVars, WalkInv, Followed, IsFileChain, GoesOn
<1> QED BY <1>1, <1>2, <1>3, <1>4, <1>5, <1>6, <1>7, <1>8 DEF NextP, Next, Step, ListStep

----------------------------------------------------------------------------
(* Where the user is.  The folders of the path are on the card.               *)
LEMMA PathFolders ==
  ASSUME TypeInv, NEW D, NEW F, VolInv(D, F), PlaceInv, Mounted, NEW i \in 1..Len(path)
  PROVE  path[i].cluster \in Folders(disk)
<1>1. /\ tree = Tree(disk) /\ CardSet(disk) /\ WellLaid(disk) /\ Consistent(disk, D, F)
      /\ path[i].cluster \in D /\ path \in Seq(FolderSet) /\ path # <<>>
  BY DEF VolInv, CardInv, FolderInv, TypeInv, CardType, CardSet, PlaceType
<1>2. CASE i = 1
  BY <1>1, <1>2, FoldersClosed DEF PlaceInv, PathInv
<1>3. CASE i # 1
  <2>1. i \in 2..Len(path)
    BY <1>1, <1>3
  <2>2. PICK e \in tree : LeadsDown(e, path[i - 1], path[i])
    BY <1>1, <2>1 DEF PlaceInv, PathInv
  <2>3. path[i].cluster # 0
    BY <1>1, InClusters, ClusterPlaces
  <2> QED BY <1>1, <2>2, <2>3, EntryLeads DEF LeadsDown
<1> QED BY <1>2, <1>3

LEMMA PathStays ==
  ASSUME TypeInv, PlaceInv, UNCHANGED <<path, cur>>, LayoutOf(disk') = LayoutOf(disk),
         Folders(disk) \subseteq Folders(disk'), tree \subseteq tree',
         pc' \notin {"boot", "mbr", "bpb"} \/ (pc \in {"boot", "mbr", "bpb"} /\ ret' = ret)
  PROVE  PathInv'
<1>1. PathInv
  BY DEF PlaceInv
<1>2. CASE path = <<>>
  BY <1>1, <1>2 DEF PathInv
<1>3. CASE path # <<>>
  <2>1. pc' \notin {"boot", "mbr", "bpb"}
    BY <1>1, <1>3 DEF PathInv
  <2>2. \A i \in 2..Len(path) : \E e \in tree' : LeadsDown(e, path[i - 1], path[i])
    BY <1>1, <1>3 DEF PathInv
  <2>3. path[1].cluster = LayoutOf(disk').root /\ cur.cluster \in Folders(disk')
        /\ (cur.cluster = path[Len(path)].cluster \/ Len(path) = MAX_DEPTH)
    BY <1>1, <1>3 DEF PathInv
  <2> QED BY <2>1, <2>2, <2>3 DEF PathInv, LeadsDown
<1> QED BY <1>2, <1>3

(* A path cut short.                                                          *)
LEMMA FirstOnly ==
  ASSUME NEW S, NEW s \in Seq(S), s # <<>>
  PROVE  1 \in 1..Len(s) /\ SubSeq(s, 1, 1) = <<s[1]>>
<1> DEFINE x == SubSeq(s, 1, 1)
           y == <<s[1]>>
<1>1. 1 \in 1..Len(s)
  OBVIOUS
<1>2. x \in Seq(S) /\ Len(x) = 1 /\ x[1] = s[1]
  BY <1>1
<1>3. y \in Seq(S) /\ Len(y) = 1 /\ y[1] = s[1]
  BY <1>1
<1> HIDE DEF x, y
<1>4. x = y
  BY <1>2, <1>3, SeqEqual
<1> QED BY <1>1, <1>4 DEF x, y

LEMMA PathCut ==
  ASSUME TypeInv, NEW D, NEW F, VolInv(D, F), PlaceInv, Mounted, disk' = disk, tree' = tree,
         NEW n \in 1..Len(path), path' = SubSeq(path, 1, n), cur' = path[n],
         pc' \notin {"boot", "mbr", "bpb"}
  PROVE  PathInv'
<1>1. path \in Seq(FolderSet) /\ path # <<>> /\ Len(path) \in Nat
  BY DEF TypeInv, PlaceType
<1>2. Len(path') = n /\ \A i \in 1..n : path'[i] = path[i]
  BY <1>1
<1>3. path[1].cluster = LayoutOf(disk).root
      /\ \A i \in 2..Len(path) : \E e \in tree : LeadsDown(e, path[i - 1], path[i])
  BY <1>1 DEF PlaceInv, PathInv
<1>4. ASSUME NEW i \in 2..Len(path') PROVE \E e \in tree' : LeadsDown(e, path'[i - 1], path'[i])
  <2>1. i \in 2..Len(path) /\ i \in 1..n /\ i - 1 \in 1..n
    BY <1>1, <1>2
  <2> QED BY <1>2, <1>3, <2>1
<1>5. path'[1] = path[1] /\ path'[n] = path[n]
  BY <1>2
<1>6. cur'.cluster \in Folders(disk')
  BY PathFolders
<1> QED BY <1>2, <1>3, <1>4, <1>5, <1>6 DEF PathInv, LeadsDown

(* What a search finds is on the card, in the current folder.                 *)
LEMMA FoundEntry ==
  ASSUME TypeInv, NEW D, NEW F, VolInv(D, F), PlaceInv, pc = "search",
         NEW t, NEW at, at = SearchDir(t), at # 0
  PROVE  /\ files[at].t = t /\ files[at].name = job.name /\ files[at] \in SlotSet
         /\ \E e \in tree : e.dir = cur.cluster /\ e.slot = files[at]
<1>1. /\ tree = Tree(disk) /\ cur.cluster \in Folders(disk)
  BY DEF VolInv, CardInv, PlaceInv, PathInv, TypeInv, PlaceType, Mounted
<1>2. at \in 1..Len(files) /\ files[at].t = t /\ files[at].name = job.name /\ files[at] \in SlotSet
  BY SearchType DEF TypeInv, LoopType
<1>3. PICK j \in DOMAIN DirSlots(disk, cur.cluster) :
        files[at] = DirSlots(disk, cur.cluster)[j] /\ IsEntry(files[at])
  BY <1>2 DEF PlaceInv, WalkInv
<1>4. ~IsDot(files[at])
  BY <1>2 DEF PlaceInv, JobInv, IsDot
<1>5. Listed(disk, cur.cluster, j)
  BY <1>3, <1>4 DEF Listed
<1>6. Entry(disk, cur.cluster, j) \in Tree(disk)
  BY <1>1, <1>5, InTree
<1>7. Entry(disk, cur.cluster, j).dir = cur.cluster /\ Entry(disk, cur.cluster, j).slot = files[at]
  BY <1>3 DEF Entry
<1> QED BY <1>1, <1>2, <1>6, <1>7

LEMMA FoundFolder ==
  ASSUME TypeInv, NEW D, NEW F, VolInv(D, F), PlaceInv, pc = "search",
         NEW at, at = SearchDir("dir"), at # 0, files[at].cluster # 0
  PROVE  /\ files[at].cluster \in Folders(disk)
         /\ \E e \in tree : /\ e.dir = cur.cluster /\ e.slot.t = "dir" /\ e.slot.name = files[at].name
                            /\ e.slot.cluster = files[at].cluster
<1>1. tree = Tree(disk) /\ CardSet(disk) /\ WellLaid(disk) /\ Consistent(disk, D, F)
  BY DEF VolInv, CardInv, TypeInv, CardType, CardSet
<1>2. PICK e \in tree : e.dir = cur.cluster /\ e.slot = files[at]
  BY FoundEntry
<1>3. files[at].t = "dir"
  BY FoundEntry
<1>4. files[at].cluster \in Folders(disk)
  BY <1>1, <1>2, <1>3, EntryLeads
<1> QED BY <1>2, <1>3, <1>4

(* cd into a folder of the current one.                                       *)
LEMMA PathChdir ==
  ASSUME TypeInv, NEW D, NEW F, VolInv(D, F), PlaceInv, disk' = disk, tree' = tree, FinishChdir
  PROVE  PathInv'
<1> DEFINE at == SearchDir("dir")
           n == Len(path)
<1>1. /\ pc = "search" /\ Mounted /\ path \in Seq(FolderSet) /\ path # <<>> /\ n \in Nat \ {0} /\ n <= MAX_DEPTH
      /\ pc' = "prompt"
  BY DEF FinishChdir, Mounted, TypeInv, PlaceType, Return
<1>2. CASE UNCHANGED <<cur, path>>
  BY <1>1, <1>2, PathStays
<1>3. CASE cur' = path[1] /\ path' = <<path[1]>>
  <2>1. 1 \in 1..Len(path) /\ SubSeq(path, 1, 1) = <<path[1]>>
    BY <1>1, FirstOnly
  <2> QED BY <1>1, <1>3, <2>1, PathCut
<1>4. CASE /\ at # 0 /\ files[at].cluster # 0
           /\ cur' = [name |-> files[at].name, cluster |-> files[at].cluster]
           /\ IF PathFull THEN path' = path ELSE path' = PathWith(cur')
  <2>1. /\ files[at].cluster \in Folders(disk)
        /\ \E e \in tree : /\ e.dir = cur.cluster /\ e.slot.t = "dir" /\ e.slot.name = files[at].name
                           /\ e.slot.cluster = files[at].cluster
    BY <1>1, <1>4, FoundFolder
  <2> HIDE DEF at
  <2>2. cur'.cluster = files[at].cluster /\ cur'.name = files[at].name
    BY <1>4
  <2>3. /\ path[1].cluster = LayoutOf(disk).root
        /\ \A i \in 2..n : \E e \in tree : LeadsDown(e, path[i - 1], path[i])
        /\ cur.cluster = path[n].cluster \/ n = MAX_DEPTH
    BY <1>1 DEF PlaceInv, PathInv
  <2>4. CASE PathFull
    <3>1. path' = path /\ n = MAX_DEPTH
      BY <1>1, <1>4, <2>4, FatAssumption DEF PathFull
    <3> QED BY <1>1, <2>1, <2>2, <2>3, <3>1 DEF PathInv, LeadsDown
  <2>5. CASE ~PathFull
    <3>1. path' = Append(path, cur') /\ n # MAX_DEPTH
      BY <1>1, <1>4, <2>5, FatAssumption DEF PathFull, PathWith
    <3>2. Len(path') = n + 1 /\ path'[n + 1] = cur' /\ \A i \in 1..n : path'[i] = path[i]
      BY <1>1, <3>1
    <3>3. ASSUME NEW i \in 2..Len(path') PROVE \E e \in tree : LeadsDown(e, path'[i - 1], path'[i])
      <4>1. CASE i <= n
        <5>1. i \in 2..n /\ i \in 1..n /\ i - 1 \in 1..n
          BY <1>1, <3>2, <4>1
        <5> QED BY <2>3, <3>2, <5>1
      <4>2. CASE i = n + 1
        <5>1. i - 1 = n /\ n \in 1..n
          BY <1>1, <4>2
        <5>2. path'[i] = cur' /\ path'[i - 1] = path[n] /\ cur.cluster = path[n].cluster
          BY <2>3, <3>1, <3>2, <4>2, <5>1
        <5> QED BY <2>1, <2>2, <5>2 DEF LeadsDown
      <4> QED BY <1>1, <3>2, <4>1, <4>2
    <3>4. path'[1] = path[1]
      BY <1>1, <3>2
    <3> QED BY <1>1, <2>1, <2>2, <2>3, <3>2, <3>3, <3>4 DEF PathInv, LeadsDown
  <2> QED BY <2>4, <2>5
<1>5. \/ UNCHANGED <<cur, path>>
      \/ cur' = path[1] /\ path' = <<path[1]>>
      \/ /\ at # 0 /\ files[at].cluster # 0
         /\ cur' = [name |-> files[at].name, cluster |-> files[at].cluster]
         /\ IF PathFull THEN path' = path ELSE path' = PathWith(cur')
  BY DEF FinishChdir
<1> QED BY <1>2, <1>3, <1>4, <1>5

LEMMA PathMounts ==
  ASSUME NoYes, TypeInv, NEW D, NEW F, VolInv(D, F), PlaceInv, TreeStep, Mount
  PROVE  PathInv'
<1>0. disk' = disk /\ tree' = tree
  <2>1. disk' = disk
    BY AnyRead DEF Mount, BootSd, ReadMbr, ReadPartition, ReadLabel, Mounting, sdVars, VolInv
  <2> QED BY <2>1 DEF TreeStep
<1>1. ret' = ret /\ pc \in {"boot", "mbr", "bpb", "label"} /\ (pc = "label" => pc' \in {"prompt", "halted"})
  BY DEF Mount, BootSd, ReadMbr, ReadPartition, ReadLabel, Mounting
<1>2. CASE UNCHANGED <<path, cur>>
  BY <1>0, <1>1, <1>2, PathStays
<1>3. CASE ~UNCHANGED <<path, cur>>
  <2>1. /\ pc = "bpb" /\ ReadSector(sdbuf.lba) /\ part' = Layout(sdbuf.lba, sdbuf') /\ pc' = "label"
        /\ cur' = [name |-> Name("", ""), cluster |-> part'.root] /\ path' = <<cur'>>
    BY <1>3 DEF Mount, BootSd, ReadMbr, ReadPartition, ReadLabel, Mounting, dirVars
  <2>2. /\ sdbuf = disk[0] /\ ignoreCrc = FALSE /\ Consistent(disk, D, F)
    BY <2>1 DEF VolInv, MountInv, CardInv
  <2>3. sdbuf' = disk[sdbuf.lba]
    BY <2>1, <2>2, GoodRead
  <2>4. part' = LayoutOf(disk)
    BY <2>1, <2>2, <2>3 DEF LayoutOf
  <2>5. Len(path') = 1 /\ path'[1] = cur' /\ cur'.cluster = LayoutOf(disk).root /\ path' # <<>>
    BY <2>1, <2>4
  <2>6. LayoutOf(disk).root \in Folders(disk)
    BY <2>2, FoldersClosed
  <2>7. 2..1 = {}
    OBVIOUS
  <2> QED BY <1>0, <2>1, <2>5, <2>6, <2>7 DEF PathInv
<1> QED BY <1>2, <1>3

LEMMA PathStep ==
  ASSUME NoYes, TypeInv, TypeInv', NEW D, NEW F, VolInv(D, F), PlaceInv, [NextP]_<<vars, tree>>
  PROVE  PathInv'
<1>1. /\ LayoutOf(disk') = LayoutOf(disk) /\ Folders(disk) \subseteq Folders(disk') /\ tree \subseteq tree'
      /\ TreeStep
  BY NamesGrow
<1>2. ASSUME UNCHANGED <<path, cur>>, pc' \notin {"boot", "mbr", "bpb"} PROVE PathInv'
  BY <1>1, <1>2, PathStays
<1>3. CASE Mount
  BY <1>1, <1>3, PathMounts
<1>4. CASE ChdirRoot \/ ChdirUp
  <2>1. /\ pc = "prompt" /\ pc' = "prompt" /\ Mounted /\ disk' = disk /\ path \in Seq(FolderSet) /\ path # <<>>
    BY <1>4 DEF ChdirRoot, ChdirUp, Immediate, Show, sdVars, Mounted, TypeInv, PlaceType
  <2>2. tree' = tree
    BY <1>1, <2>1 DEF TreeStep
  <2>3. CASE ChdirRoot
    <3>1. 1 \in 1..Len(path) /\ path' = SubSeq(path, 1, 1) /\ cur' = path[1]
      BY <2>1, <2>3 DEF ChdirRoot
    <3> QED BY <2>1, <2>2, <3>1, PathCut
  <2>4. CASE ChdirUp /\ Len(path) > 1
    <3> DEFINE n == Len(path) - 1
    <3>1. n \in 1..Len(path) /\ Len(SubSeq(path, 1, n)) = n /\ SubSeq(path, 1, n)[n] = path[n]
      BY <2>1, <2>4
    <3>2. path' = SubSeq(path, 1, n) /\ cur' = path[n]
      BY <2>4, <3>1 DEF ChdirUp, Front, Last
    <3> QED BY <2>1, <2>2, <3>1, <3>2, PathCut
  <2>5. CASE ChdirUp /\ ~(Len(path) > 1)
    BY <1>2, <2>1, <2>5 DEF ChdirUp
  <2> QED BY <1>4, <2>3, <2>4, <2>5
<1>5. CASE Call /\ ~(ChdirRoot \/ ChdirUp)
  <2>1. UNCHANGED dirVars /\ pc' \notin {"boot", "mbr", "bpb"}
    BY <1>5 DEF Call, ListDir, ReadDir, Begin, Getcwd, PrintPartitionInfo, ChdirName, Mkdir, Touch, Open, LoadFile,
           Close, Read, Immediate, Show
  <2> QED BY <1>2, <2>1 DEF dirVars
<1>6. CASE FinishChdir
  <2>1. disk' = disk
    BY <1>6 DEF FinishChdir, sdVars
  <2> QED BY <1>1, <1>6, <2>1, PathChdir DEF TreeStep
<1>7. CASE FollowChain \/ DirChainDone \/ ScanSector \/ ListStep \/ FinishOpenSearch \/ FinishLoadSearch
  <2>1. UNCHANGED dirVars /\ pc' \in {"chain", "scan", "search", "paging", "prompt"}
    <3>1. CASE FollowChain
      BY <3>1 DEF FollowChain, ChainRefused, Return
    <3>2. CASE DirChainDone
      BY <3>2 DEF DirChainDone
    <3>3. CASE ScanSector
      BY <3>3 DEF ScanSector, Return
    <3>4. CASE ListStep \/ FinishOpenSearch \/ FinishLoadSearch
      BY <3>4, ListingSteps DEF FinishOpenSearch, FinishLoadSearch, Return
    <3> QED BY <1>7, <3>1, <3>2, <3>3, <3>4
  <2> QED BY <1>2, <2>1 DEF dirVars
<1>8. CASE OpenChainDone \/ LoadChainDone \/ LoadStep \/ ReadStep
  <2>1. UNCHANGED dirVars /\ pc' \in {"loading", "reading", "prompt"}
    <3>1. CASE OpenChainDone \/ LoadChainDone
      BY <3>1 DEF OpenChainDone, LoadChainDone, Return
    <3>2. CASE LoadStep
      BY <3>2 DEF LoadStep, Return
    <3>3. CASE ReadStep
      BY <3>3 DEF ReadStep, Return
    <3> QED BY <1>8, <3>1, <3>2, <3>3
  <2> QED BY <1>2, <2>1 DEF dirVars
<1>9. CASE FindFreeCluster \/ ReadFatSector \/ WriteFatSector \/ MirrorFatSector \/ ClearCluster
           \/ ReadFolderSector \/ WriteFolderSector
  <2>1. UNCHANGED dirVars /\ pc' \notin {"boot", "mbr", "bpb"}
    BY <1>9 DEF FindFreeCluster, ReadFatSector, WriteFatSector, MirrorFatSector, ClearCluster, ReadFolderSector,
           WriteFolderSector, FailOnWrite, Return
  <2> QED BY <1>2, <2>1 DEF dirVars
<1>10. CASE Reset
  BY <1>10 DEF Reset, PathInv
<1>11. CASE Halted \/ UNCHANGED <<vars, tree>>
  <2>1. UNCHANGED <<path, cur, pc, ret>>
    BY <1>11 DEF Halted, vars, dirVars
  <2> QED BY <1>1, <2>1, PathStays
<1> QED BY <1>3, <1>4, <1>5, <1>6, <1>7, <1>8, <1>9, <1>10, <1>11 DEF NextP, Next, Step, ListStep

----------------------------------------------------------------------------
(* Where the user is and what has been found, on any card in good order.      *)
PlacesInv == TypeInv /\ (\E D, F : VolInv(D, F)) /\ PlaceInv

LEMMA PlacesInit == GoodCards /\ InitP => PlacesInv
<1> SUFFICES ASSUME GoodCards, InitP PROVE PlacesInv
  OBVIOUS
<1>1. VolumeInv
  BY VolInit
<1>2. pc = "boot" /\ job = NoJob /\ path = <<>> /\ cur = NoFolder /\ ret = NoRet
  BY DEF InitP, Init
<1>3. PlaceInv
  BY <1>2, DotNames DEF PlaceInv, PathInv, JobInv, WalkInv, Linking
<1> QED BY <1>1, <1>3 DEF PlacesInv, VolumeInv

LEMMA PlacesStep == GoodCards /\ PlacesInv /\ [NextP]_<<vars, tree>> => PlacesInv'
<1> SUFFICES ASSUME GoodCards, PlacesInv, [NextP]_<<vars, tree>> PROVE PlacesInv'
  OBVIOUS
<1>1. PICK D, F : VolInv(D, F)
  BY DEF PlacesInv
<1>2. NoYes /\ TypeInv /\ PlaceInv
  BY DEF PlacesInv, GoodCards
<1>3. VolumeInv'
  BY <1>1, <1>2, VolumeStep DEF VolumeInv
<1>4. TypeInv' /\ (\E D2, F2 : VolInv(D2, F2))'
  BY <1>3 DEF VolumeInv
<1>5. PathInv' /\ JobInv' /\ WalkInv'
  BY <1>1, <1>2, <1>4, PathStep, JobStep, WalkStep
<1> QED BY <1>4, <1>5 DEF PlacesInv, PlaceInv

(* The path shown at the prompt leads down from the root, folder by folder,   *)
(* and the folder that calls work in can be found on the card.                *)
THEOREM PathCorrect == GoodCards => (SpecP => []PathIsReal)
<1> SUFFICES ASSUME GoodCards PROVE SpecP => []PathIsReal
  OBVIOUS
<1>1. PlacesInv => PathIsReal
  <2> SUFFICES ASSUME PlacesInv, path # <<>>
               PROVE  /\ path[1].cluster = LayoutOf(disk).root
                      /\ \A i \in 2..Len(path) : \E e \in tree : LeadsDown(e, path[i - 1], path[i])
                      /\ \/ cur.cluster = LayoutOf(disk).root
                         \/ \E e \in tree : e.slot.t = "dir" /\ e.slot.cluster = cur.cluster
    BY DEF PathIsReal, LeadsDown
  <2>1. /\ path[1].cluster = LayoutOf(disk).root /\ cur.cluster \in Folders(disk)
        /\ \A i \in 2..Len(path) : \E e \in tree : LeadsDown(e, path[i - 1], path[i])
    BY DEF PlacesInv, PlaceInv, PathInv
  <2>2. PICK D, F : VolInv(D, F)
    BY DEF PlacesInv
  <2>3. tree = Tree(disk) /\ Consistent(disk, D, F)
    BY <2>2 DEF VolInv, CardInv
  <2> QED BY <2>1, <2>3, FolderOwned
<1> QED BY <1>1, PlacesInit, PlacesStep, PTL DEF SpecP

----------------------------------------------------------------------------
(* The invariant as a whole, on a card in good order that is tidy besides.    *)
TidyCards == GoodCards /\ \A card \in Cards : Tidy(card)
NamespaceInv == TypeInv /\ (\E D, F : VolInv(D, F)) /\ Tidy(disk) /\ NameInv

LEMMA NamespaceInit == TidyCards /\ InitP => NamespaceInv
<1> SUFFICES ASSUME TidyCards, InitP PROVE NamespaceInv
  OBVIOUS
<1>1. VolumeInv
  BY VolInit DEF TidyCards
<1>2. Tidy(disk)
  BY DEF TidyCards, InitP, Init
<1>3. pc = "boot" /\ job = NoJob /\ path = <<>> /\ cur = NoFolder /\ ret = NoRet
  BY DEF InitP, Init
<1>4. NameInv
  BY <1>3, DotNames DEF NameInv, PlaceInv, PathInv, JobInv, WalkInv, NewDirInv, Linking
<1> QED BY <1>1, <1>2, <1>4 DEF NamespaceInv, VolumeInv

LEMMA NamespaceStep == TidyCards /\ NamespaceInv /\ [NextP]_<<vars, tree>> => NamespaceInv'
<1> SUFFICES ASSUME TidyCards, NamespaceInv, [NextP]_<<vars, tree>> PROVE NamespaceInv'
  OBVIOUS
<1>1. PICK D, F : VolInv(D, F)
  BY DEF NamespaceInv
<1>2. GoodCards /\ NoYes /\ TypeInv /\ Tidy(disk) /\ NameInv
  BY DEF NamespaceInv, TidyCards, GoodCards
<1>3. VolumeInv'
  BY <1>1, <1>2, VolumeStep DEF VolumeInv
<1>4. TypeInv' /\ (\E D2, F2 : VolInv(D2, F2))'
  BY <1>3 DEF VolumeInv
<1>5. Tidy(disk')
  BY <1>1, <1>2, <1>4, CardStep
<1>6. PathInv' /\ JobInv' /\ WalkInv' /\ NewDirInv'
  BY <1>1, <1>2, <1>4, PathStep, JobStep, WalkStep, NewDirStep DEF NameInv
<1> QED BY <1>4, <1>5, <1>6 DEF NamespaceInv, NameInv, PlaceInv

(* Whatever fails and wherever mkdir is cut off, no two files or folders that *)
(* can be found share a cluster, and none has one of the root directory's.    *)
THEOREM NoSharedCorrect == TidyCards => (SpecP => []NoSharedClusters)
<1> SUFFICES ASSUME TidyCards PROVE SpecP => []NoSharedClusters
  OBVIOUS
<1>1. NamespaceInv => NoSharedClusters
  BY DEF NamespaceInv, VolInv, CardInv, Tidy, NoSharedClusters
<1> QED BY <1>1, NamespaceInit, NamespaceStep, PTL DEF SpecP

(* And a folder that can be found has its "." and "..", naming itself and the *)
(* folder it is in.                                                           *)
THEOREM CompleteCorrect == TidyCards => (SpecP => []FoldersComplete)
<1> SUFFICES ASSUME TidyCards PROVE SpecP => []FoldersComplete
  OBVIOUS
<1>1. NamespaceInv => FoldersComplete
  BY DEF NamespaceInv, VolInv, CardInv, Tidy, FoldersComplete
<1> QED BY <1>1, NamespaceInit, NamespaceStep, PTL DEF SpecP

----------------------------------------------------------------------------
(* The abstract namespace: what each step is in the terms of DirTree.         *)
LEMMA Created ==
  ASSUME TypeInv, NEW D, NEW F, VolInv(D, F), NameInv, Adds(D, F)
  PROVE  Namespace!Create
<1> DEFINE d == cur.cluster
           root == LayoutOf(disk).root
<1>1. /\ pc = "slotwrite" /\ Linking /\ Mounted /\ cur' = cur /\ ret'.op = job.op
  BY DEF Adds, WriteFolderSector, FailOnWrite, Return, Ret, Linking, Mounted, dirVars
<1>2. job.op \in {"mkdir", "touch"}
  BY <1>1 DEF NameInv, PlaceInv, JobInv
<1>3. /\ tree = Tree(disk) /\ CardSet(disk) /\ WellLaid(disk) /\ Consistent(disk, D, F) /\ d \in D /\ root \in D
  BY <1>1 DEF VolInv, CardInv, FolderInv, TypeInv, CardType, CardSet, Consistent
<1>4. /\ NewEntry.cluster = next /\ NewEntry.t = IF job.op = "mkdir" THEN "dir" ELSE "file"
      /\ NewEntry.t = "file" => NewEntry.cluster = 0
      /\ NewEntry.t = "dir" => NewEntry.cluster \notin D \cup F /\ NewEntry.cluster # 0
  <2>1. NewEntry.cluster = next /\ NewEntry.t = IF job.op = "mkdir" THEN "dir" ELSE "file"
    BY <1>1, LinkReady
  <2>2. job.op # "mkdir" => next = 0
    BY <1>1 DEF VolInv, MakeInv
  <2>3. job.op = "mkdir" => next \notin D \cup F /\ next \in Clusters(disk)
    BY <1>1 DEF VolInv, MakeInv, Making
  <2>4. job.op = "mkdir" => next # 0
    BY <1>3, <2>3, ClusterPlaces
  <2> QED BY <2>1, <2>2, <2>3, <2>4
<1>5. PICK n : tree' = tree \cup NewEntries(d, n, NewEntry) /\ \A e \in tree : ~(e.dir = d /\ e.at = n)
  BY DEF Adds
<1> DEFINE new == [dir |-> d, at |-> n, slot |-> NewEntry]
<1>6. /\ new.dir = d /\ new.at = n /\ new.slot = NewEntry /\ tree' = tree \cup {new} /\ new \in tree' \ tree
  BY <1>5 DEF NewEntries
<1> HIDE DEF new
<1>7. ASSUME NewEntry.t = "dir" PROVE ~Namespace!InUse(NewEntry.cluster)
  <2>1. NewEntry.cluster # root
    BY <1>3, <1>4, <1>7
  <2>2. ASSUME NEW e \in tree PROVE e.slot.cluster # NewEntry.cluster /\ e.dir # NewEntry.cluster
    <3>1. e.dir \in D /\ LeadsTo(e.slot, D, F) /\ IsEntry(e.slot)
      BY <1>3, TreeStays
    <3> QED BY <1>4, <1>7, <3>1 DEF LeadsTo
  <2> QED BY <2>1, <2>2 DEF Namespace!InUse
<1>8. Namespace!Fresh(new)
  <2>1. \A f \in tree : <<f.dir, f.at>> # <<new.dir, new.at>>
    BY <1>5, <1>6
  <2> QED BY <1>4, <1>6, <1>7, <2>1 DEF Namespace!Fresh
<1> QED BY <1>1, <1>2, <1>4, <1>6, <1>8 DEF Namespace!Create

LEMMA Still ==
  ASSUME LayoutOf(disk') = LayoutOf(disk), tree' = tree, UNCHANGED <<cur, ret>>
  PROVE  UNCHANGED Namespace!tvars
BY DEF Namespace!tvars

(* Another call, or a routine that is over without having written an entry.   *)
LEMMA Ended ==
  ASSUME tree' = tree, cur' = cur, ret'.op \in {"mkdir", "touch"} => ret'.val # 0
  PROVE  Namespace!Create \/ Namespace!Other
BY DEF Namespace!Create, Namespace!Other

(* The write that mkdir and touch end with.                                   *)
LEMMA NamespaceLink ==
  ASSUME NoYes, TypeInv, TypeInv', NEW D, NEW F, VolInv(D, F), Tidy(disk), NameInv, TreeStep, WriteFolderSector,
         tree' = tree \/ Adds(D, F)
  PROVE  Namespace!Create \/ Namespace!Other
<1>1. CASE Adds(D, F)
  BY <1>1, Created
<1>2. CASE tree' = tree /\ ~Adds(D, F)
  <2>1. cur' = cur /\ pc = "slotwrite"
    BY DEF WriteFolderSector, dirVars
  <2>2. CASE FailOnWrite(FolderLba, WithSlot(sdbuf, NewEntry))
    <3>1. ret'.val = 255
      BY <2>2 DEF FailOnWrite, Return, Ret, ERR
    <3> QED BY <1>2, <2>1, <3>1, Ended
  <2>3. CASE ~FailOnWrite(FolderLba, WithSlot(sdbuf, NewEntry))
    <3> DEFINE lba == FolderLba
               n == UnusedSlot(disk[lba])
               content == WithSlot(disk[lba], NewEntry)
    <3>1. /\ sdbuf = disk[lba] /\ n # 0 /\ lba \in DOMAIN disk /\ NewEntry.t \in {"dir", "file"} /\ CardSet(disk)
      BY <2>1, LinkReady
    <3>2. disk' = [disk EXCEPT ![lba] = content]
      BY <2>3, <3>1 DEF WriteFolderSector, WriteSector
    <3> HIDE DEF lba
    <3>3. n \in 1..SLOTS /\ IsUnused(Slots(disk[lba])[n]) /\ Slots(disk[lba]) \in SlotSeq
      BY <3>1, UnusedType, SlotsType DEF CardSet
    <3>4. Slots(content)[n] = NewEntry
      BY <3>3 DEF WithSlot, Slots, SlotSeq
    <3>5. ~IsUnused(NewEntry)
      BY <3>1 DEF IsUnused
    <3>6. disk'[lba] = content /\ disk' # disk
      BY <3>1, <3>2, <3>3, <3>4, <3>5 DEF CardSet
    <3>7. PICK m : SlotTaken(disk, disk', D, F, cur.cluster, m, NewEntry)
      BY <3>6, EntryWritten
    <3>8. /\ ~IsDot(NewEntry) /\ Taker(disk', D, F, cur.cluster, NewEntry)
          /\ \E D2 : Consistent(disk', D2, F)
      BY <3>6, EntryWritten
    <3>9. tree = Tree(disk) /\ WellLaid(disk) /\ Consistent(disk, D, F) /\ tree' = Tree(disk')
      BY <3>6 DEF VolInv, CardInv, TreeStep
    <3>10. /\ Tree(disk') = Tree(disk) \cup NewEntries(cur.cluster, m, NewEntry)
           /\ \A e \in Tree(disk) : ~(e.dir = cur.cluster /\ e.at = m)
      BY <3>1, <3>7, <3>8, <3>9, TreeTakes
    <3>11. Adds(D, F)
      BY <3>8, <3>9, <3>10 DEF Adds
    <3> QED BY <1>2, <3>11
  <2> QED BY <2>2, <2>3
<1> QED BY <1>1, <1>2

(* The moves from folder to folder, the mount and the reset.                  *)
LEMMA NamespaceMoves ==
  ASSUME TypeInv, NEW D, NEW F, VolInv(D, F), NameInv, tree' = tree, ChdirRoot \/ ChdirUp \/ FinishChdir
  PROVE  Namespace!Move
<1>1. /\ Mounted /\ path \in Seq(FolderSet) /\ path # <<>> /\ path[1].cluster = LayoutOf(disk).root
      /\ \A i \in 2..Len(path) : \E e \in tree : LeadsDown(e, path[i - 1], path[i])
  BY DEF ChdirRoot, ChdirUp, FinishChdir, Immediate, Show, Mounted, TypeInv, PlaceType, NameInv, PlaceInv, PathInv
<1>2. ret'.op = "chdir"
  BY DEF ChdirRoot, ChdirUp, FinishChdir, Immediate, Show, Return, Ret
<1>3. ASSUME cur' = cur \/ cur'.cluster = LayoutOf(disk).root PROVE Namespace!Move
  BY <1>2, <1>3 DEF Namespace!Move
<1>4. CASE ChdirRoot
  BY <1>1, <1>3, <1>4 DEF ChdirRoot
<1>5. CASE ChdirUp
  <2>1. CASE Len(path) > 1
    <3> DEFINE n == Len(path) - 1
    <3>1. Len(path) \in 2..Len(path) /\ Len(path) \in Nat /\ n \in Nat /\ SubSeq(path, 1, n)[n] = path[n]
          /\ Len(SubSeq(path, 1, n)) = n
      BY <1>1, <2>1
    <3>2. cur' = path[n]
      BY <1>5, <2>1, <3>1 DEF ChdirUp, Front, Last
    <3>3. PICK e \in tree : LeadsDown(e, path[Len(path) - 1], path[Len(path)])
      BY <1>1, <3>1
    <3> QED BY <1>2, <3>2, <3>3 DEF Namespace!Move, LeadsDown
  <2>2. CASE ~(Len(path) > 1)
    BY <1>3, <1>5, <2>2 DEF ChdirUp
  <2> QED BY <2>1, <2>2
<1>6. CASE FinishChdir
  <2> DEFINE at == SearchDir("dir")
  <2>1. CASE at # 0 /\ files[at].cluster # 0 /\ cur' = [name |-> files[at].name, cluster |-> files[at].cluster]
    <3>1. pc = "search"
      BY <1>6 DEF FinishChdir
    <3>2. PICK e \in tree : e.dir = cur.cluster /\ e.slot.t = "dir" /\ e.slot.cluster = files[at].cluster
      BY <2>1, <3>1, FoundFolder DEF NameInv
    <3>3. cur'.cluster = files[at].cluster
      BY <2>1
    <3> QED BY <1>2, <3>2, <3>3 DEF Namespace!Move
  <2>2. cur' = cur \/ cur' = path[1] \/
        (at # 0 /\ files[at].cluster # 0 /\ cur' = [name |-> files[at].name, cluster |-> files[at].cluster])
    BY <1>6 DEF FinishChdir
  <2> QED BY <1>1, <1>3, <2>1, <2>2
<1> QED BY <1>4, <1>5, <1>6

LEMMA NamespaceMounts ==
  ASSUME NoYes, TypeInv, NEW D, NEW F, VolInv(D, F), NameInv, tree' = tree, Mount \/ Reset
  PROVE  Namespace!Other \/ UNCHANGED <<cur, ret>>
<1>1. CASE Reset
  <2>1. cur'.cluster = 0 /\ ret'.op = "none"
    BY <1>1 DEF Reset, NoFolder, NoRet, Ret
  <2> QED BY <2>1 DEF Namespace!Other
<1>2. CASE Mount /\ ~UNCHANGED <<cur, ret>>
  <2>1. /\ pc = "bpb" /\ ReadSector(sdbuf.lba) /\ part' = Layout(sdbuf.lba, sdbuf')
        /\ cur' = [name |-> Name("", ""), cluster |-> part'.root] /\ ret' = ret
    BY <1>2 DEF Mount, BootSd, ReadMbr, ReadPartition, ReadLabel, Mounting, dirVars
  <2>2. sdbuf = disk[0] /\ ignoreCrc = FALSE /\ cur = NoFolder /\ ret = NoRet
    BY <2>1 DEF VolInv, MountInv, CardInv, NameInv, PlaceInv, PathInv
  <2>3. sdbuf' = disk[sdbuf.lba]
    BY <2>1, <2>2, GoodRead
  <2>4. cur'.cluster = LayoutOf(disk).root
    BY <2>1, <2>2, <2>3 DEF LayoutOf
  <2>5. cur.cluster = 0 /\ ret'.op = "none"
    BY <2>1, <2>2 DEF NoFolder, NoRet, Ret
  <2> QED BY <2>4, <2>5 DEF Namespace!Other
<1> QED BY <1>1, <1>2

LEMMA NamespaceCalls ==
  ASSUME tree' = tree, Call, ~(ChdirRoot \/ ChdirUp)
  PROVE  Namespace!Create \/ Namespace!Other
<1>1. ASSUME NEW op, NEW v, NEW text, Show(op, v, text), op \in {"mkdir", "touch"} => v # 0, cur' = cur
      PROVE  Namespace!Create \/ Namespace!Other
  BY <1>1, Ended DEF Show, Ret
<1>2. ASSUME ret' = NoRet, cur' = cur PROVE Namespace!Create \/ Namespace!Other
  BY <1>2, Ended DEF NoRet, Ret
<1>3. ASSUME NEW op, NEW nm, ReadDir(op, nm) PROVE Namespace!Create \/ Namespace!Other
  BY <1>2, <1>3 DEF ReadDir, Begin, dirVars
<1>4. CASE ListDir
  BY <1>3, <1>4 DEF ListDir
<1>5. CASE Getcwd \/ PrintPartitionInfo
  BY <1>1, <1>5 DEF Getcwd, PrintPartitionInfo, dirVars
<1>6. ASSUME NEW arg, ChdirName(arg) \/ Open(arg) \/ LoadFile(arg) PROVE Namespace!Create \/ Namespace!Other
  BY <1>1, <1>3, <1>6 DEF ChdirName, Open, LoadFile, Immediate, dirVars
<1>7. ASSUME NEW arg, Mkdir(arg) \/ Touch(arg) PROVE Namespace!Create \/ Namespace!Other
  <2>1. cur' = cur /\ ERR # 0
    <3>1. UNCHANGED dirVars
      BY <1>7 DEF Mkdir, Touch
    <3> QED BY <3>1 DEF dirVars, ERR
  <2>2. ASSUME NEW op, Immediate(op, ERR) PROVE Namespace!Create \/ Namespace!Other
    BY <1>1, <2>1, <2>2 DEF Immediate
  <2>3. ASSUME NEW op, NEW nm, NEW at, Begin(op, nm, at) PROVE Namespace!Create \/ Namespace!Other
    BY <1>2, <2>1, <2>3 DEF Begin
  <2> QED BY <1>7, <2>2, <2>3 DEF Mkdir, Touch
<1>8. ASSUME NEW fd, NEW len, Close(fd) \/ Read(fd, len) PROVE Namespace!Create \/ Namespace!Other
  <2>1. cur' = cur
    BY <1>8 DEF Close, Read, dirVars
  <2>2. ASSUME NEW op, op \notin {"mkdir", "touch"}, Immediate(op, 0) PROVE Namespace!Create \/ Namespace!Other
    BY <1>1, <2>1, <2>2 DEF Immediate
  <2> QED BY <1>2, <1>8, <2>1, <2>2 DEF Close, Read
<1> QED BY <1>4, <1>5, <1>6, <1>7, <1>8 DEF Call

LEMMA NamespaceRoutines ==
  ASSUME NameInv, tree' = tree,
         \/ FollowChain \/ DirChainDone \/ ScanSector \/ ListStep \/ FinishOpenSearch \/ FinishLoadSearch
         \/ OpenChainDone \/ LoadChainDone \/ ReadStep \/ LoadStep
         \/ FindFreeCluster \/ ReadFatSector \/ WriteFatSector \/ MirrorFatSector \/ ClearCluster \/ ReadFolderSector
  PROVE  Namespace!Create \/ Namespace!Other \/ UNCHANGED <<cur, ret>>
<1>1. ASSUME NEW v, Return(v), cur' = cur, job.op \in {"mkdir", "touch"} => v # 0
      PROVE  Namespace!Create \/ Namespace!Other
  BY <1>1, Ended DEF Return, Ret
<1>2. CASE FollowChain \/ DirChainDone \/ ScanSector \/ ListStep \/ FinishOpenSearch \/ FinishLoadSearch
  <2>1. job.op \notin {"mkdir", "touch"}
    BY <1>2, ListingSteps
       DEF FollowChain, DirChainDone, ScanSector, FinishOpenSearch, FinishLoadSearch, NameInv, PlaceInv, JobInv
  <2>2. cur' = cur /\ ((\E v : Return(v)) \/ ret' = ret)
    <3>1. CASE FollowChain \/ DirChainDone
      BY <3>1 DEF FollowChain, DirChainDone, ChainRefused, dirVars
    <3>2. CASE ScanSector
      BY <3>2 DEF ScanSector, dirVars
    <3>3. CASE ListStep \/ FinishOpenSearch \/ FinishLoadSearch
      BY <3>3, ListingSteps DEF FinishOpenSearch, FinishLoadSearch, dirVars
    <3> QED BY <1>2, <3>1, <3>2, <3>3
  <2> QED BY <1>1, <2>1, <2>2
<1>3. CASE OpenChainDone \/ LoadChainDone \/ ReadStep \/ LoadStep
  <2>1. job.op \notin {"mkdir", "touch"}
    BY <1>3 DEF OpenChainDone, LoadChainDone, ReadStep, LoadStep, NameInv, PlaceInv, JobInv
  <2>2. cur' = cur /\ ((\E v : Return(v)) \/ ret' = ret)
    <3>1. CASE OpenChainDone \/ LoadChainDone
      BY <3>1 DEF OpenChainDone, LoadChainDone, dirVars
    <3>2. CASE ReadStep
      BY <3>2 DEF ReadStep, dirVars
    <3>3. CASE LoadStep
      BY <3>3 DEF LoadStep, dirVars
    <3> QED BY <1>3, <3>1, <3>2, <3>3
  <2> QED BY <1>1, <2>1, <2>2
<1>4. CASE FindFreeCluster \/ ReadFatSector \/ WriteFatSector \/ MirrorFatSector \/ ClearCluster \/ ReadFolderSector
  <2>1. cur' = cur /\ (Return(ERR) \/ ret' = ret)
    BY <1>4 DEF FindFreeCluster, ReadFatSector, WriteFatSector, MirrorFatSector, ClearCluster, ReadFolderSector,
           FailOnWrite, dirVars
  <2>2. ERR # 0
    BY DEF ERR
  <2> QED BY <1>1, <2>1, <2>2
<1> QED BY <1>2, <1>3, <1>4

LEMMA NamespaceNext ==
  ASSUME TidyCards, NamespaceInv, [NextP]_<<vars, tree>>
  PROVE  [Namespace!TreeNext]_(Namespace!tvars)
<1>1. PICK D, F : VolInv(D, F)
  BY DEF NamespaceInv
<1>2. NoYes /\ TypeInv /\ Tidy(disk) /\ NameInv /\ TypeInv'
  BY TypeStep DEF NamespaceInv, TidyCards, GoodCards, NextP
<1>3. /\ LayoutOf(disk') = LayoutOf(disk) /\ (tree' = tree \/ Adds(D, F)) /\ TreeStep
  BY <1>1, <1>2, CardStep DEF NextP, TreeStep, vars, sdVars
<1>4. ASSUME Namespace!Create \/ Namespace!Move \/ Namespace!Other PROVE Namespace!TreeNext
  BY <1>3, <1>4 DEF Namespace!TreeNext
<1>5. CASE WriteFolderSector
  BY <1>1, <1>2, <1>3, <1>4, <1>5, NamespaceLink
<1>6. CASE ~WriteFolderSector
  <2>1. tree' = tree
    BY <1>3, <1>6 DEF Adds
  <2>2. ASSUME UNCHANGED <<cur, ret>> PROVE UNCHANGED Namespace!tvars
    BY <1>3, <2>1, <2>2, Still
  <2>3. CASE Mount \/ Reset
    BY <1>1, <1>2, <1>4, <2>1, <2>2, <2>3, NamespaceMounts
  <2>4. CASE ChdirRoot \/ ChdirUp \/ FinishChdir
    BY <1>1, <1>2, <1>4, <2>1, <2>4, NamespaceMoves
  <2>5. CASE Call /\ ~(ChdirRoot \/ ChdirUp)
    BY <1>4, <2>1, <2>5, NamespaceCalls
  <2>6. CASE \/ FollowChain \/ DirChainDone \/ ScanSector \/ ListStep \/ FinishOpenSearch \/ FinishLoadSearch
             \/ OpenChainDone \/ LoadChainDone \/ ReadStep \/ LoadStep
             \/ FindFreeCluster \/ ReadFatSector \/ WriteFatSector \/ MirrorFatSector \/ ClearCluster \/ ReadFolderSector
    BY <1>2, <1>4, <2>1, <2>2, <2>6, NamespaceRoutines
  <2>7. CASE Halted \/ UNCHANGED <<vars, tree>>
    BY <2>2, <2>7 DEF Halted, vars, dirVars
  <2> QED BY <1>6, <2>3, <2>4, <2>5, <2>6, <2>7 DEF NextP, Next, Step, ListStep
<1> QED BY <1>5, <1>6

(* The filesystem implements the namespace of DirTree: mkdir and touch add    *)
(* one entry to the folder the user is in, or fail and add it or not; mkdir's *)
(* is empty and shares its cluster with nothing; cd moves along the entries   *)
(* that are there; and nothing else, a failure or a reset at any point        *)
(* included, changes what can be found.                                       *)
THEOREM NamespaceCorrect == TidyCards => (SpecP => GrowsByOneEntry)
<1> SUFFICES ASSUME TidyCards PROVE SpecP => GrowsByOneEntry
  OBVIOUS
<1>1. InitP => Namespace!InitTree
  <2> SUFFICES ASSUME InitP PROVE Namespace!InitTree
    OBVIOUS
  <2>1. tree = Tree(disk) /\ disk \in Cards /\ cur = NoFolder /\ ret = NoRet
    BY DEF InitP, Init
  <2>2. tree \in {Tree(dk) : dk \in Cards}
    BY <2>1
  <2>3. cur.cluster = 0 /\ ret.val = 0
    BY <2>1 DEF NoFolder, NoRet, Ret
  <2> QED BY <2>2, <2>3 DEF Namespace!InitTree
<1>2. NamespaceInv /\ [NextP]_<<vars, tree>> => [Namespace!TreeNext]_(Namespace!tvars)
  BY NamespaceNext
<1> QED BY <1>1, <1>2, NamespaceInit, NamespaceStep, PTL DEF SpecP, GrowsByOneEntry, Namespace!TreeSpec
=============================================================================
