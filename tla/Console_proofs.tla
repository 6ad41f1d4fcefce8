--------------------------- MODULE Console_proofs ---------------------------
(* The safety properties of KeyBuffer for a ring of any size N >= 2 and any   *)
(* set of bytes, and above them those of Console for every capacity of the    *)
(* chip.  The ring first: ring and queue move together in every step of the   *)
(* handler and of getch, so RingIsQueue needs no knowledge of where getch is  *)
(* except that "inc TBPL" never runs on an empty ring; and what getch has in  *)
(* A or X is out of date only after an overflow.  Then the chip: a step of    *)
(* Console is a step of KeyBuffer or leaves the ring alone, because what the  *)
(* handler reads from the chip is a byte; that it finds one is                *)
(* InterruptMeansKey.                                                         *)
EXTENDS Console, SequenceTheorems, TLAPS

(* What getch knows at each instruction.                                      *)
GetchKnows ==
  /\ pc \in {"idle", "clear"} => ~stale
  /\ pc = "cmp" => IF stale THEN q # <<>> ELSE A = TBPL
  /\ pc \in {"ldx", "lda", "inc"} => q # <<>>
  /\ pc = "lda" /\ ~stale => X = TBPL
  /\ pc = "inc" /\ ~stale => A = Head(q)

IInv == TypeOK /\ RingIsQueue /\ GetchKnows

----------------------------------------------------------------------------
(* Arithmetic of the ring, with wrap-around.                                  *)

(* The distance between two indices is below N, is 0 for equal indices, and   *)
(* is N - 1 when one more step would make them equal (the handler's test).    *)
LEMMA DistanceRange ==
  ASSUME NEW l \in Slots, NEW r \in Slots
  PROVE  /\ Inc(r) \in Slots
         /\ Distance(l, r) \in 0..(N - 1)
         /\ Distance(l, r) = 0 <=> l = r
         /\ Distance(l, r) = N - 1 <=> Inc(r) = l
BY NAssumption DEF Slots, Inc, Distance

(* A step of the write index adds a slot, one of the read index removes one.  *)
LEMMA DistanceStep ==
  ASSUME NEW l \in Slots, NEW r \in Slots
  PROVE  /\ Inc(r) # l => Distance(l, Inc(r)) = Distance(l, r) + 1
         /\ l # r => Distance(Inc(l), r) = Distance(l, r) - 1
         /\ Inc(r) = l => Distance(Inc(l), Inc(r)) = N - 1
BY NAssumption DEF Slots, Inc, Distance

(* The slots from l up to r are distinct from r, and r is the next one.       *)
LEMMA PlaceRange ==
  ASSUME NEW l \in Slots, NEW r \in Slots
  PROVE  /\ \A i \in 0..(N - 1) : Place(l, i) \in Slots
         /\ Place(l, 0) = l
         /\ Place(l, Distance(l, r)) = r
         /\ \A i \in 0..(N - 1) : i < Distance(l, r) => Place(l, i) # r
         /\ \A i \in 0..(N - 2) : Place(Inc(l), i) = Place(l, i + 1)
BY NAssumption DEF Slots, Inc, Distance, Place

----------------------------------------------------------------------------
(* The queue.                                                                 *)

(* A full ring is a queue of N - 1 bytes, an empty one has equal indices.     *)
LEMMA FullRing ==
  ASSUME TypeOK, RingIsQueue
  PROVE  /\ Full <=> Len(q) = N - 1
         /\ TBPL = TBPR <=> q = <<>>
         /\ Len(q) \in 0..(N - 1)
<1>1. Len(q) = Distance(TBPL, TBPR)
  BY DEF RingIsQueue
<1>2. q = <<>> <=> Len(q) = 0
  BY EmptySeq DEF TypeOK
<1> QED
  BY <1>1, <1>2, DistanceRange DEF TypeOK, Full

(* The oldest unread byte is the one at the read index (ldx TBPL, lda TB,x).  *)
LEMMA OldestAtReadIndex ==
  ASSUME TypeOK, RingIsQueue, q # <<>>
  PROVE  Head(q) = TB[TBPL]
<1>1. Len(q) \in Nat \ {0}
  BY EmptySeq DEF TypeOK
<1>2. q[1] = TB[Place(TBPL, 1 - 1)]
  BY <1>1 DEF RingIsQueue
<1>3. Place(TBPL, 0) = TBPL
  BY PlaceRange DEF TypeOK
<1>4. Head(q) = q[1]
  BY DEF TypeOK
<1> QED
  BY <1>2, <1>3, <1>4

(* Taking the oldest byte out by a step of the read index (inc TBPL).         *)
LEMMA TakeKeepsQueue ==
  ASSUME TypeOK, RingIsQueue, q # <<>>,
         TBPL' = Inc(TBPL), q' = Tail(q), TB' = TB, TBPR' = TBPR
  PROVE  RingIsQueue' /\ q' \in Seq(Values) /\ Len(q') = Len(q) - 1
<1>1. /\ q' \in Seq(Values)
      /\ Len(q') = Len(q) - 1
      /\ \A i \in 1..Len(q') : q'[i] = q[i + 1]
  BY HeadTailProperties DEF TypeOK
<1>2. TBPL # TBPR /\ Len(q) \in 1..(N - 1)
  BY FullRing, EmptySeq DEF TypeOK
<1>3. Len(q') = Distance(TBPL', TBPR')
  BY <1>1, <1>2, DistanceStep DEF RingIsQueue, TypeOK
<1>4. ASSUME NEW i \in 1..Len(q')
      PROVE  q'[i] = TB'[Place(TBPL', i - 1)]
  <2>1. i + 1 \in 1..Len(q) /\ i - 1 \in 0..(N - 2)
    BY <1>1, <1>2, NAssumption
  <2>2. q'[i] = TB[Place(TBPL, (i + 1) - 1)]
    BY <1>1, <2>1 DEF RingIsQueue
  <2>3. Place(Inc(TBPL), i - 1) = Place(TBPL, (i - 1) + 1)
    BY <2>1, PlaceRange DEF TypeOK
  <2> QED
    BY <2>1, <2>2, <2>3
<1> QED
  BY <1>1, <1>3, <1>4 DEF RingIsQueue

(* Storing a byte at the write index of a ring that is not full.              *)
LEMMA StoreKeepsQueue ==
  ASSUME NEW l \in Slots, NEW r \in Slots, NEW ring1 \in [Slots -> Values],
         NEW s \in Seq(Values), NEW c \in Values,
         Inc(r) # l,
         Len(s) = Distance(l, r),
         \A i \in 1..Len(s) : s[i] = ring1[Place(l, i - 1)]
  PROVE  /\ Len(Append(s, c)) = Distance(l, Inc(r))
         /\ \A i \in 1..Len(Append(s, c)) :
              Append(s, c)[i] = [ring1 EXCEPT ![r] = c][Place(l, i - 1)]
<1>1. /\ Len(Append(s, c)) = Len(s) + 1
      /\ \A i \in 1..Len(s) : Append(s, c)[i] = s[i]
      /\ Append(s, c)[Len(s) + 1] = c
  BY AppendProperties
<1>2. Len(s) \in 0..(N - 2)
  BY DistanceRange, NAssumption
<1>3. Len(Append(s, c)) = Distance(l, Inc(r))
  BY <1>1, DistanceStep
<1>4. ASSUME NEW i \in 1..Len(s)
      PROVE  Append(s, c)[i] = [ring1 EXCEPT ![r] = c][Place(l, i - 1)]
  <2>1. i - 1 \in 0..(N - 1) /\ i - 1 < Distance(l, r)
    BY <1>2, NAssumption
  <2>2. Place(l, i - 1) \in Slots /\ Place(l, i - 1) # r
    BY <2>1, PlaceRange
  <2> QED
    BY <1>1, <2>2
<1>5. Append(s, c)[Len(s) + 1] = [ring1 EXCEPT ![r] = c][Place(l, (Len(s) + 1) - 1)]
  <2>1. Place(l, (Len(s) + 1) - 1) = r
    BY <1>2, PlaceRange
  <2> QED
    BY <1>1, <2>1
<1>6. 1..Len(Append(s, c)) = 1..Len(s) \union {Len(s) + 1}
  BY <1>1, <1>2
<1> QED
  BY <1>3, <1>4, <1>5, <1>6

----------------------------------------------------------------------------
(* One step of the interrupt handler: a full ring first gives up its oldest   *)
(* byte, as getch would take it, and then there is room for the new one.      *)
LEMMA IsrStep ==
  ASSUME IInv, NEW c \in Bytes, Isr(c)
  PROVE  IInv'
<1> USE DEF IInv
<1> DEFINE s == IF Full THEN Tail(q) ELSE q
           l == IF Full THEN Inc(TBPL) ELSE TBPL
<1>1. /\ Full <=> Len(q) = N - 1
      /\ Full => q # <<>>
  BY FullRing, EmptySeq, NAssumption
<1>2. /\ s \in Seq(Values) /\ l \in Slots /\ Inc(TBPR) # l
      /\ Len(s) = Distance(l, TBPR)
      /\ \A i \in 1..Len(s) : s[i] = TB[Place(l, i - 1)]
  <2>1. CASE Full
    <3>1. Len(Tail(q)) = Len(q) - 1 /\ Tail(q) \in Seq(Values)
      BY <1>1, <2>1, HeadTailProperties DEF TypeOK
    <3>2. TBPL # TBPR /\ TBPL \in Slots /\ TBPR \in Slots
      BY <1>1, <2>1, FullRing DEF TypeOK
    <3>3. Inc(TBPL) \in Slots /\ Inc(TBPR) # Inc(TBPL)
      BY <3>2, <2>1, NAssumption DEF Full, Slots, Inc
    <3>4. Len(Tail(q)) = Distance(Inc(TBPL), TBPR)
      BY <3>1, <3>2, DistanceStep DEF RingIsQueue, TypeOK
    <3>5. ASSUME NEW i \in 1..Len(Tail(q))
          PROVE  Tail(q)[i] = TB[Place(Inc(TBPL), i - 1)]
      <4>1. Tail(q)[i] = q[i + 1]
        BY <1>1, <2>1, HeadTailProperties DEF TypeOK
      <4>2. i + 1 \in 1..Len(q) /\ i - 1 \in 0..(N - 2)
        BY <3>1, <1>1, <2>1, NAssumption
      <4>3. q[i + 1] = TB[Place(TBPL, (i + 1) - 1)]
        BY <4>2 DEF RingIsQueue
      <4>4. Place(Inc(TBPL), i - 1) = Place(TBPL, (i - 1) + 1)
        BY <4>2, <3>2, PlaceRange
      <4> QED
        BY <4>1, <4>2, <4>3, <4>4
    <3> QED
      BY <2>1, <3>1, <3>3, <3>4, <3>5
  <2>2. CASE ~Full
    BY <2>2 DEF TypeOK, RingIsQueue, Full
  <2> QED
    BY <2>1, <2>2
<1>3. /\ q' = Append(s, c) /\ TBPL' = l
      /\ TBPR' = Inc(TBPR) /\ TB' = [TB EXCEPT ![TBPR] = c]
  BY <1>1 DEF Isr
<1>4. TB \in [Slots -> Values] /\ TBPR \in Slots /\ c \in Values
  BY DEF TypeOK, Values
<1> HIDE DEF s, l
<1>5. RingIsQueue'
  <2>1. /\ Len(Append(s, c)) = Distance(l, Inc(TBPR))
        /\ \A i \in 1..Len(Append(s, c)) :
             Append(s, c)[i] = [TB EXCEPT ![TBPR] = c][Place(l, i - 1)]
    BY <1>2, <1>4, StoreKeepsQueue
  <2> QED
    BY <2>1, <1>3 DEF RingIsQueue
<1>6. TypeOK'
  <2>1. q' \in Seq(Values) /\ q' # <<>>
    BY <1>2, <1>3, <1>4, AppendProperties
  <2>2. TBPL' \in Slots /\ TBPR' \in Slots /\ TB' \in [Slots -> Values]
    BY <1>2, <1>3, <1>4, DistanceRange
  <2>3. Len(q') <= N - 1
    BY <1>5, <2>2, DistanceRange, NAssumption DEF RingIsQueue
  <2> QED
    BY <2>1, <2>2, <2>3 DEF TypeOK, Isr
<1>7. GetchKnows'
  <2>1. q' # <<>>
    BY <1>2, <1>3, <1>4, AppendProperties
  <2>2. pc' = pc /\ A' = A /\ X' = X
    BY DEF Isr
  <2>3. ASSUME pc \in {"cmp", "lda", "inc"}, ~stale'
        PROVE  ~stale /\ TBPL' = TBPL /\ q' = Append(q, c)
    BY <2>3, <1>3 DEF Isr, TypeOK, s, l
  <2>4. ASSUME pc = "inc", ~stale'
        PROVE  Head(q') = Head(q)
    BY <2>3, <2>4, HeadTailAppend DEF GetchKnows, TypeOK
  <2>5. pc \in {"idle", "clear"} => ~stale'
    BY DEF Isr, GetchKnows, TypeOK
  <2> QED
    BY <2>1, <2>2, <2>3, <2>4, <2>5 DEF GetchKnows
<1> QED
  BY <1>5, <1>6, <1>7

----------------------------------------------------------------------------
(* One step of getch or of clearcmdbuf.                                       *)
LEMMA ReaderStep ==
  ASSUME IInv, Reader
  PROVE  IInv'
<1> USE DEF IInv
<1>1. CASE LoadIndex
  BY <1>1 DEF LoadIndex, ring, TypeOK, RingIsQueue, GetchKnows
<1>2. CASE CompareIndex
  <2>1. TBPL = TBPR <=> q = <<>>
    BY FullRing
  <2>2. CASE A = TBPR /\ NoKeyExit
    BY <2>2 DEF NoKeyExit, ring, TypeOK, RingIsQueue, GetchKnows, Values
  <2>3. CASE A # TBPR /\ pc' = "ldx" /\ UNCHANGED <<ring, A, X, q, stale>>
    <3>1. pc = "cmp"
      BY <1>2 DEF CompareIndex
    <3>2. q # <<>>
      BY <2>1, <2>3, <3>1 DEF GetchKnows, TypeOK
    <3> QED
      BY <2>3, <3>2 DEF ring, TypeOK, RingIsQueue, GetchKnows
  <2> QED
    BY <1>2, <2>2, <2>3 DEF CompareIndex
<1>3. CASE LoadX
  BY <1>3 DEF LoadX, ring, TypeOK, RingIsQueue, GetchKnows
<1>4. CASE LoadByte
  <2>1. q # <<>> /\ Head(q) = TB[TBPL]
    BY <1>4, OldestAtReadIndex DEF LoadByte, GetchKnows
  <2> QED
    BY <1>4, <2>1 DEF LoadByte, ring, TypeOK, RingIsQueue, GetchKnows
<1>5. CASE TakeByte
  <2>1. /\ q # <<>> /\ TBPL' = Inc(TBPL) /\ q' = Tail(q)
        /\ TB' = TB /\ TBPR' = TBPR
    BY <1>5 DEF TakeByte, GetchKnows
  <2>2. RingIsQueue' /\ q' \in Seq(Values) /\ Len(q') = Len(q) - 1
    BY <2>1, TakeKeepsQueue
  <2>3. Inc(TBPL) \in Slots
    BY DistanceRange DEF TypeOK
  <2>4. Len(q') <= N - 1
    BY <2>2, FullRing, NAssumption
  <2> QED
    BY <1>5, <2>2, <2>3, <2>4 DEF TakeByte, TypeOK, GetchKnows
<1>6. CASE ClearCmdBuf
  BY <1>6 DEF ClearCmdBuf, ring, TypeOK, RingIsQueue, GetchKnows
<1> QED
  BY <1>1, <1>2, <1>3, <1>4, <1>5, <1>6 DEF Reader, Getch

(* The indices start equal and the queue empty (clear_zp).                    *)
LEMMA InitIInv == Init => IInv
<1> SUFFICES ASSUME Init PROVE IInv
  OBVIOUS
<1>1. q \in Seq(Values) /\ Len(q) = 0
  BY EmptySeq DEF Init
<1>2. 0 \in Slots
  BY NAssumption DEF Slots
<1>3. RingIsQueue
  BY <1>1, <1>2, DistanceRange DEF Init, RingIsQueue
<1> QED
  BY <1>1, <1>2, <1>3, NAssumption DEF Init, IInv, TypeOK, GetchKnows, Values

LEMMA NextIInv == IInv /\ [Next]_vars => IInv'
<1> SUFFICES ASSUME IInv, [Next]_vars PROVE IInv'
  OBVIOUS
<1>1. CASE UNCHANGED vars
  BY <1>1 DEF vars, ring, IInv, TypeOK, RingIsQueue, GetchKnows
<1> QED
  BY <1>1, IsrStep, ReaderStep DEF Next

(* IInv is an invariant of KeyBuffer for every N >= 2.                        *)
THEOREM Invariance == Spec => []IInv
BY InitIInv, NextIInv, PTL DEF Spec

----------------------------------------------------------------------------
(* TypeOK: no interleaving of handler and getch takes an index out of the     *)
(* ring or lets the ring hold more than N - 1 bytes.                          *)
THEOREM TypeCorrect == Spec => []TypeOK
<1>1. IInv => TypeOK
  BY DEF IInv
<1> QED
  BY <1>1, Invariance, PTL

(* RingIsQueue: the ring of isr.s and getch is a queue of N - 1 bytes that    *)
(* discards its oldest, even when the handler overflows it inside getch.      *)
THEOREM RingCorrect == Spec => []RingIsQueue
<1>1. IInv => RingIsQueue
  BY DEF IInv
<1> QED
  BY <1>1, Invariance, PTL

(* DeliversOldest: without an overflow during the call, getch returns the     *)
(* oldest unread byte and then takes that byte out.                           *)
THEOREM OldestDelivered == Spec => []DeliversOldest
<1>1. IInv => DeliversOldest
  BY DEF IInv, DeliversOldest, GetchKnows
<1> QED
  BY <1>1, Invariance, PTL

(* NoKeyMeansEmpty: without an overflow during the call, getch says "no key"  *)
(* only of an empty ring.                                                     *)
THEOREM NoKeyCorrect == Spec => NoKeyMeansEmpty
<1>1. ASSUME IInv, [Next]_vars
      PROVE  [pc = "cmp" /\ pc' = "idle" /\ ~stale => q = <<>>]_vars
  <2> SUFFICES ASSUME Next, pc = "cmp", pc' = "idle", ~stale
               PROVE  q = <<>>
    BY <1>1
  <2>1. A = TBPL
    BY <1>1 DEF IInv, GetchKnows
  <2>2. CompareIndex
    BY DEF Next, Reader, Getch, LoadIndex, LoadX, LoadByte, TakeByte,
           ClearCmdBuf, Isr
  <2>3. A = TBPR
    BY <2>2 DEF CompareIndex
  <2> QED
    BY <1>1, <2>1, <2>3, FullRing DEF IInv
<1> QED
  BY <1>1, Invariance, PTL DEF Spec, NoKeyMeansEmpty

----------------------------------------------------------------------------
(* The chip, the handler and getch together.                                  *)

CInv == IInv /\ InterruptMeansKey

(* What the chip hands over is a byte.                                        *)
LEMMA ReceivedByte == ASSUME NEW ch \in Bytes PROVE Received(ch) \in Bytes
BY ConsoleAssumption DEF Received

(* A key press leaves at least one and at most CAP keys in the chip.          *)
LEMMA KeypressStep ==
  ASSUME InterruptMeansKey, NEW ch \in Bytes, keypress(ch)
  PROVE  InterruptMeansKey'
<1> DEFINE rest == IF Len(keybuffer) >= CAP THEN Tail(keybuffer) ELSE keybuffer
<1>1. keybuffer \in Seq(Bytes) /\ Len(keybuffer) \in Nat /\ Len(keybuffer) <= CAP
  BY DEF InterruptMeansKey
<1>2. rest \in Seq(Bytes) /\ Len(rest) < CAP
  BY <1>1, ConsoleAssumption
<1>3. keybuffer' = Append(rest, ch)
  BY DEF keypress
<1>4. keybuffer' \in Seq(Bytes) /\ Len(keybuffer') <= CAP /\ keybuffer' # <<>>
  <2> HIDE DEF rest
  <2> QED
    BY <1>2, <1>3, ConsoleAssumption
<1> QED
  BY <1>4 DEF InterruptMeansKey, keypress

(* Reading the data register takes the interrupt back.                        *)
LEMMA ReadDataStep ==
  ASSUME InterruptMeansKey, ReadData
  PROVE  InterruptMeansKey' /\ \E c \in Bytes : Isr(c)
<1>1. keybuffer \in Seq(Bytes) /\ keybuffer # <<>>
  BY DEF InterruptMeansKey, ReadData
<1>2. Head(keybuffer) \in Bytes /\ Tail(keybuffer) \in Seq(Bytes)
  BY <1>1
<1>3. Len(Tail(keybuffer)) <= CAP
  BY <1>1, ConsoleAssumption DEF InterruptMeansKey
<1> QED
  BY <1>2, <1>3, ReceivedByte DEF InterruptMeansKey, ReadData

(* Every step of Console is one of the ring's, or leaves the ring alone.      *)
LEMMA RingStep ==
  ASSUME InterruptMeansKey, [ConsoleNext]_allvars
  PROVE  [Next]_vars
<1>1. CASE ReadData
  BY <1>1, ReadDataStep DEF Next
<1>2. CASE Program
  BY <1>2 DEF Program, Next
<1> QED
  BY <1>1, <1>2 DEF ConsoleNext, Handler, Interrupt, CheckStatus, keypress, allvars

LEMMA InitCInv == ConsoleInit => CInv
<1> SUFFICES ASSUME ConsoleInit PROVE CInv
  OBVIOUS
<1>1. IInv
  BY InitIInv DEF ConsoleInit
<1> QED
  BY <1>1, ConsoleAssumption DEF CInv, InterruptMeansKey, ConsoleInit

LEMMA NextCInv == CInv /\ [ConsoleNext]_allvars => CInv'
<1> SUFFICES ASSUME CInv, [ConsoleNext]_allvars PROVE CInv'
  OBVIOUS
<1> USE DEF CInv
<1>1. IInv'
  BY RingStep, NextIInv
<1>2. InterruptMeansKey'
  <2>1. CASE ReadData
    BY <2>1, ReadDataStep
  <2>2. CASE Interrupt \/ CheckStatus
    BY <2>2 DEF Interrupt, CheckStatus, InterruptMeansKey
  <2>3. CASE Program \/ UNCHANGED allvars
    BY <2>3 DEF Program, allvars, chip, InterruptMeansKey
  <2>4. CASE \E ch \in Bytes : keypress(ch)
    BY <2>4, KeypressStep
  <2> QED
    BY <2>1, <2>2, <2>3, <2>4 DEF ConsoleNext, Handler
<1> QED
  BY <1>1, <1>2

THEOREM ConsoleInvariance == ConsoleSpec => []CInv
BY InitCInv, NextCInv, PTL DEF ConsoleSpec

(* InterruptMeansKey: the handler never stores a byte that nobody typed,      *)
(* whatever arrives between its status read and its data read.                *)
THEOREM InterruptCorrect == ConsoleSpec => []InterruptMeansKey
<1>1. CInv => InterruptMeansKey
  BY DEF CInv
<1> QED
  BY <1>1, ConsoleInvariance, PTL

(* The chip, the handler and getch together still are the ring of KeyBuffer,  *)
(* whose theorems therefore hold of the whole.                                *)
THEOREM ConsoleKeepsRing == ConsoleSpec => Init /\ [][Next]_vars /\ []RingIsQueue
<1>1. ConsoleInit => Init
  BY DEF ConsoleInit
<1>2. CInv /\ [ConsoleNext]_allvars => [Next]_vars
  BY RingStep DEF CInv
<1>3. CInv => RingIsQueue
  BY DEF CInv, IInv
<1> QED
  BY <1>1, <1>2, <1>3, ConsoleInvariance, PTL DEF ConsoleSpec

----------------------------------------------------------------------------
(* Sequences of keys: the three ways a line of keys moves.                    *)
LEMMA FrontLeaves ==
  ASSUME NEW S, NEW s \in Seq(S), NEW t \in Seq(S), s # <<>>
  PROVE  s \o t # <<>> /\ Tail(s) \o t = Tail(s \o t)
OBVIOUS

LEMMA HeadCrosses ==
  ASSUME NEW S, NEW s \in Seq(S), NEW t \in Seq(S), t # <<>>
  PROVE  Append(s, Head(t)) \o Tail(t) = s \o t
OBVIOUS

LEMMA EndGrows ==
  ASSUME NEW S, NEW s \in Seq(S), NEW t \in Seq(S), NEW e \in S
  PROVE  s \o Append(t, e) = Append(s \o t, e)
OBVIOUS

(* Translating the keys of the chip one by one commutes with these.           *)
LEMMA ChipKeys ==
  ASSUME NEW keys \in Seq(Bytes)
  PROVE  /\ InChip(keys) \in Seq(Bytes) /\ Len(InChip(keys)) = Len(keys)
         /\ \A k \in 1..Len(keys) : InChip(keys)[k] = Received(keys[k])
BY ReceivedByte, LenProperties DEF InChip

LEMMA ChipMoves ==
  ASSUME NEW keys \in Seq(Bytes)
  PROVE  /\ \A ch \in Bytes : InChip(Append(keys, ch)) = Append(InChip(keys), Received(ch))
         /\ keys # <<>> => /\ InChip(keys) # <<>>
                          /\ Head(InChip(keys)) = Received(Head(keys))
                          /\ InChip(Tail(keys)) = Tail(InChip(keys))
<1>1. ASSUME NEW ch \in Bytes
      PROVE  InChip(Append(keys, ch)) = Append(InChip(keys), Received(ch))
  BY ChipKeys, ReceivedByte DEF InChip
<1>2. ASSUME keys # <<>>
      PROVE  /\ InChip(keys) # <<>> /\ Head(InChip(keys)) = Received(Head(keys))
             /\ InChip(Tail(keys)) = Tail(InChip(keys))
  BY <1>2, ChipKeys, ReceivedByte DEF InChip
<1> QED
  BY <1>1, <1>2

LEMMA LineIsSeq ==
  CInv => /\ q \in Seq(Values) /\ keybuffer \in Seq(Bytes)
          /\ InChip(keybuffer) \in Seq(Values)
BY ChipKeys DEF CInv, IInv, TypeOK, InterruptMeansKey, Values

(* Only the instruction that takes a byte out shortens the line from inside   *)
(* the program.                                                               *)
LEMMA ProgramStep ==
  ASSUME CInv, Program
  PROVE  Line' = Line \/ (Line # <<>> /\ Line' = Tail(Line) /\ pc = "inc")
<1>1. keybuffer' = keybuffer
  BY DEF Program, chip
<1>2. CASE TakeByte
  <2>1. pc = "inc" /\ q' = Tail(q) /\ q # <<>>
    BY <1>2 DEF TakeByte, CInv, IInv, GetchKnows
  <2>2. Line # <<>> /\ Line' = Tail(Line)
    BY <1>1, <2>1, LineIsSeq, FrontLeaves DEF Line, InChip
  <2> QED
    BY <2>1, <2>2
<1>3. CASE ~TakeByte
  <2>1. q' = q
    BY <1>3 DEF Program, Reader, Getch, LoadIndex, CompareIndex, NoKeyExit,
                LoadX, LoadByte, ClearCmdBuf
  <2> QED
    BY <1>1, <2>1 DEF Line, InChip
<1> QED
  BY <1>2, <1>3

(* The handler moves the first key of the chip to the end of the ring, and a  *)
(* full ring gives up the front of the line for it.                           *)
LEMMA ReadDataKeepsOrder ==
  ASSUME CInv, ReadData
  PROVE  Line' = Line \/ (Line # <<>> /\ Line' = Tail(Line) /\ Full)
<1> DEFINE c == Received(Head(keybuffer))
<1>1. keybuffer \in Seq(Bytes) /\ keybuffer # <<>> /\ keybuffer' = Tail(keybuffer) /\ Isr(c)
  BY DEF CInv, InterruptMeansKey, ReadData
<1>2. InChip(keybuffer) # <<>> /\ Head(InChip(keybuffer)) = c
      /\ InChip(keybuffer') = Tail(InChip(keybuffer))
  BY <1>1, ChipMoves
<1>3. q' = Append(IF Len(q) = N - 1 THEN Tail(q) ELSE q, c)
  BY <1>1 DEF Isr
<1>4. q \in Seq(Values) /\ InChip(keybuffer) \in Seq(Values)
  BY LineIsSeq
<1>5. Line' = q' \o InChip(keybuffer')
  BY DEF Line, InChip
<1>6. CASE Len(q) # N - 1
  BY <1>2, <1>3, <1>4, <1>5, <1>6, HeadCrosses DEF Line
<1>7. CASE Len(q) = N - 1
  <2>1. Full /\ q # <<>>
    BY <1>4, <1>7, FullRing, NAssumption DEF CInv, IInv
  <2>2. Line' = Tail(q) \o InChip(keybuffer)
    BY <1>2, <1>3, <1>4, <1>5, <1>7, <2>1, HeadCrosses
  <2> QED
    BY <1>4, <2>1, <2>2, FrontLeaves DEF Line
<1> QED
  BY <1>6, <1>7

LEMMA KeypressKeepsOrder ==
  ASSUME CInv, NEW ch \in Bytes, keypress(ch)
  PROVE  \/ Line' = Append(Line, Received(ch))
         \/ /\ Len(keybuffer) = CAP
            /\ Line' = q \o Tail(InChip(keybuffer)) \o <<Received(ch)>>
<1>1. keybuffer \in Seq(Bytes) /\ Len(keybuffer) <= CAP /\ q' = q
  BY DEF CInv, InterruptMeansKey, keypress, vars
<1>2. Received(ch) \in Values /\ q \in Seq(Values) /\ InChip(keybuffer) \in Seq(Values)
  BY LineIsSeq, ReceivedByte DEF Values
<1>3. Line' = q \o InChip(keybuffer')
  BY <1>1 DEF Line, InChip
<1>4. CASE Len(keybuffer) # CAP
  <2>1. keybuffer' = Append(keybuffer, ch)
    BY <1>1, <1>4, ConsoleAssumption DEF keypress
  <2>2. InChip(keybuffer') = Append(InChip(keybuffer), Received(ch))
    BY <1>1, <2>1, ChipMoves
  <2>3. q \o Append(InChip(keybuffer), Received(ch)) = Append(Line, Received(ch))
    BY <1>2, EndGrows DEF Line
  <2> QED
    BY <1>3, <2>2, <2>3
<1>5. CASE Len(keybuffer) = CAP
  <2>1. keybuffer # <<>> /\ Tail(keybuffer) \in Seq(Bytes)
        /\ keybuffer' = Append(Tail(keybuffer), ch)
    BY <1>1, <1>5, ConsoleAssumption DEF keypress
  <2>2. InChip(keybuffer') = Append(Tail(InChip(keybuffer)), Received(ch))
    BY <1>1, <2>1, ChipMoves
  <2>3. Tail(InChip(keybuffer)) \in Seq(Values)
    BY <1>1, <1>2, <2>1, ChipMoves
  <2>4. q \o Append(Tail(InChip(keybuffer)), Received(ch))
          = Append(q \o Tail(InChip(keybuffer)), Received(ch))
    BY <1>2, <2>3, EndGrows
  <2> QED
    BY <1>2, <1>3, <1>5, <2>2, <2>3, <2>4
<1> QED
  BY <1>4, <1>5

(* KeysKeepOrder: from the host's keyboard to getch the keys stay in line;    *)
(* one is lost only where the chip or the ring is full.                       *)
THEOREM OrderKept == ConsoleSpec => KeysKeepOrder
<1> DEFINE Moves ==
      \/ Line' = Line
      \/ Line # <<>> /\ Line' = Tail(Line) /\ (pc = "inc" \/ Full)
      \/ \E ch \in Bytes :
           /\ keypress(ch)
           /\ \/ Line' = Append(Line, Received(ch))
              \/ Len(keybuffer) = CAP
                   /\ Line' = q \o Tail(InChip(keybuffer)) \o <<Received(ch)>>
<1>1. ASSUME CInv, [ConsoleNext]_allvars
      PROVE  [Moves]_allvars
  <2>1. CASE ReadData
    BY <1>1, <2>1, ReadDataKeepsOrder
  <2>2. CASE Program
    BY <1>1, <2>2, ProgramStep
  <2>3. CASE \E ch \in Bytes : keypress(ch)
    BY <1>1, <2>3, KeypressKeepsOrder
  <2>4. CASE Interrupt \/ CheckStatus
    BY <2>4 DEF Interrupt, CheckStatus, vars, Line, InChip
  <2> QED
    BY <1>1, <2>1, <2>2, <2>3, <2>4 DEF ConsoleNext, Handler
<1> QED
  BY <1>1, ConsoleInvariance, PTL DEF ConsoleSpec, KeysKeepOrder
=============================================================================
