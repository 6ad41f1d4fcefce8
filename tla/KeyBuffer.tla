----------------------------- MODULE KeyBuffer -----------------------------
(* The key buffer of the BCOS ROM: a ring of N bytes at TB, with a write      *)
(* index TBPR and a read index TBPL.  The interrupt handler (isr.s) puts a    *)
(* received byte in, getch (io.s) takes one out with interrupts enabled.  The *)
(* processor masks interrupts while the handler runs, so the handler is one   *)
(* action; getch is one action per instruction that touches the ring.  The    *)
(* monitor's clearcmdbuf, which means to empty the ring, is here too.         *)
EXTENDS Integers, Sequences

CONSTANTS N,      \* slots of the ring (256 in the code: the indices are bytes)
          Bytes,  \* what the serial line delivers
          NoKey   \* getch's answer when there is no key (0), and cleared memory

ASSUME NAssumption == N \in Nat /\ N >= 2

VARIABLES
  TB, TBPR, TBPL,   \* the ring and its two indices
  A, X,             \* the registers getch uses
  pc,               \* where getch, or its caller, is
  q,                \* history: the unread bytes, were the ring a queue
  stale             \* history: did a full ring lose a byte since getch last
                    \* read TBPL

ring == <<TB, TBPR, TBPL>>
vars == <<ring, A, X, pc, q, stale>>

Slots == 0..(N - 1)
Values == Bytes \union {NoKey}

(* INC and INX step an index to the next slot, and from the last to slot 0.   *)
Inc_PastEnd(i) == IF i = N THEN 0 ELSE i + 1
Inc(i) == IF i = N - 1 THEN 0 ELSE i + 1

Full == Inc(TBPR) = TBPL

(* isr: a full ring gives up its oldest byte; then the new one is stored.     *)
Isr_NoDiscard(c) ==
  /\ TB' = [TB EXCEPT ![TBPR] = c] /\ TBPR' = Inc(TBPR)
  /\ q' = Append(IF Full THEN Tail(q) ELSE q, c)
  /\ UNCHANGED <<TBPL, A, X, pc, stale>>
Isr(c) ==
  /\ TBPL' = IF Full THEN Inc(TBPL) ELSE TBPL
  /\ TB' = [TB EXCEPT ![TBPR] = c]
  /\ TBPR' = Inc(TBPR)
  /\ q' = Append(IF Len(q) = N - 1 THEN Tail(q) ELSE q, c)
  /\ stale' = (stale \/ (Full /\ pc \in {"cmp", "lda", "inc"}))
  /\ UNCHANGED <<A, X, pc>>

(* getch: lda TBPL; cmp TBPR, beq; ldx TBPL; lda TB,x; inc TBPL.              *)
LoadIndex ==
  /\ pc = "idle" /\ pc' = "cmp" /\ A' = TBPL
  /\ UNCHANGED <<ring, X, q, stale>>

NoKeyExit ==
  /\ pc' = "idle" /\ A' = NoKey /\ stale' = FALSE
  /\ UNCHANGED <<ring, X, q>>

CompareIndex_Early ==
  /\ pc = "cmp"
  /\ \/ TBPR \in {A, Inc(A)} /\ NoKeyExit
     \/ A # TBPR /\ pc' = "ldx" /\ UNCHANGED <<ring, A, X, q, stale>>
CompareIndex ==
  /\ pc = "cmp"
  /\ \/ A = TBPR /\ NoKeyExit
     \/ A # TBPR /\ pc' = "ldx" /\ UNCHANGED <<ring, A, X, q, stale>>

LoadX_FromA ==
  /\ pc = "ldx" /\ pc' = "lda" /\ X' = A /\ stale' = FALSE
  /\ UNCHANGED <<ring, A, q>>
LoadX ==
  /\ pc = "ldx" /\ pc' = "lda" /\ X' = TBPL /\ stale' = FALSE
  /\ UNCHANGED <<ring, A, q>>

LoadByte ==
  /\ pc = "lda" /\ pc' = "inc" /\ A' = TB[X]
  /\ UNCHANGED <<ring, X, q, stale>>

(* The caller of getch polls again, or is the monitor and got a whole line.   *)
TakeByte_IndexFromX ==
  /\ pc = "inc" /\ pc' \in {"idle", "clear"} /\ TBPL' = X
  /\ q' = q /\ stale' = FALSE
  /\ UNCHANGED <<TB, TBPR, A, X>>
TakeByte ==
  /\ pc = "inc" /\ pc' \in {"idle", "clear"} /\ TBPL' = Inc(TBPL)
  /\ q' = Tail(q) /\ stale' = FALSE
  /\ UNCHANGED <<TB, TBPR, A, X>>

(* The monitor's clearcmdbuf zeroes what its own constants.inc calls TBPL and *)
(* TBPR, the bytes $60 and $61; the ROM's indices are at $01 and $00.         *)
ClearCmdBuf ==
  /\ pc = "clear" /\ pc' = "idle"
  /\ UNCHANGED <<ring, A, X, q, stale>>

Getch == LoadIndex \/ CompareIndex \/ LoadX \/ LoadByte \/ TakeByte
Reader == Getch \/ ClearCmdBuf
Next == Reader \/ \E c \in Bytes : Isr(c)

(* clear_mem zeroes page 2 and clear_zp the indices before CLI.               *)
Init ==
  /\ TB = [s \in Slots |-> NoKey] /\ TBPR = 0 /\ TBPL = 0
  /\ A = NoKey /\ X = 0 /\ pc = "idle"
  /\ q = <<>> /\ stale = FALSE

(* The processor goes on, and command_loop polls getch for ever.              *)
Spec == Init /\ [][Next]_vars /\ WF_vars(Reader)

----------------------------------------------------------------------------
(* TypeOK: the indices stay inside the ring, whichever wraps first, and the   *)
(* queue of unread bytes never outgrows it (isr.s, io.s getch).               *)
TypeOK ==
  /\ TB \in [Slots -> Values] /\ TBPR \in Slots /\ TBPL \in Slots
  /\ A \in Values \union Slots /\ X \in Slots
  /\ pc \in {"idle", "cmp", "ldx", "lda", "inc", "clear"}
  /\ q \in Seq(Values) /\ Len(q) <= N - 1
  /\ stale \in BOOLEAN

(* The slot i places after l, and how many slots lie from l up to r.          *)
Place(l, i) == IF l + i < N THEN l + i ELSE l + i - N
Distance(l, r) == IF l <= r THEN r - l ELSE r - l + N

(* RingIsQueue: wherever the handler interrupts getch, the slots from TBPL up *)
(* to TBPR are the unread bytes in the order they came: a queue of N - 1 that *)
(* loses its oldest byte when one more arrives (isr.s stores and discards).   *)
RingIsQueue ==
  /\ Len(q) = Distance(TBPL, TBPR)
  /\ \A i \in 1..Len(q) : q[i] = TB[Place(TBPL, i - 1)]

(* DeliversOldest: getch returns the oldest unread byte, the one its inc TBPL *)
(* then takes out, unless the ring overflowed after getch had read TBPL.      *)
DeliversOldest == pc = "inc" /\ ~stale => q # <<>> /\ A = Head(q)

(* NoKeyMeansEmpty: getch says "no key" only of an empty ring, unless the     *)
(* ring overflowed between its lda TBPL and its cmp TBPR.                     *)
NoKeyMeansEmpty ==
  [][pc = "cmp" /\ pc' = "idle" /\ ~stale => q = <<>>]_vars

(* KeysAreRead: once the keyboard is quiet, polling getch empties the ring,   *)
(* whatever overflow left behind (command_loop, main).                        *)
KeysAreRead ==
  <>[][\A c \in Bytes : ~Isr(c)]_vars => []<>(TBPL = TBPR)

(* TakesWhatItReturns: the byte getch takes out is the one it returns, and    *)
(* the only bytes lost are those the handler discards (isr.s:30).             *)
TakesWhatItReturns == pc = "inc" => A = Head(q)
=============================================================================
