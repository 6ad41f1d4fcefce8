------------------------------ MODULE Console ------------------------------
(* The way of a key from the host's keyboard to getch: the emulator's ACIA    *)
(* (acia.cpp) keeps keys in a deque and raises the interrupt line, the        *)
(* handler (isr.s) takes one byte from the chip into the ring of KeyBuffer.   *)
(* Keys arrive between any two instructions, in the handler too.              *)
EXTENDS KeyBuffer

CONSTANTS CAP,     \* keys the chip holds (16)
          LF, CR

ASSUME ConsoleAssumption == CAP \in Nat /\ CAP >= 1 /\ {LF, CR} \subseteq Bytes

VARIABLES
  keybuffer,  \* the keys in the chip
  irq,        \* the interrupt line
  isr_pc      \* where the handler stands

chip == <<keybuffer, irq, isr_pc>>

(* ACIA::keypress: a full deque drops its oldest key.                         *)
keypress(ch) ==
  /\ keybuffer' = Append(IF Len(keybuffer) >= CAP THEN Tail(keybuffer) ELSE keybuffer, ch)
  /\ irq' = TRUE /\ UNCHANGED <<vars, isr_pc>>

(* The line is looked at between two instructions, unless the handler runs.   *)
Interrupt ==
  /\ isr_pc = "off" /\ irq /\ isr_pc' = "stat"
  /\ UNCHANGED <<vars, keybuffer, irq>>

(* lda ACIA_STAT: is there a byte?                                            *)
CheckStatus ==
  /\ isr_pc = "stat" /\ isr_pc' = IF keybuffer = <<>> THEN "off" ELSE "data"
  /\ UNCHANGED <<vars, keybuffer, irq>>

(* lda ACIA_DATA, which takes the interrupt back whatever is left, and the    *)
(* rest of the handler.                                                       *)
Received(ch) == IF ch = LF THEN CR ELSE ch
ReadData_KeepsLine ==
  /\ isr_pc = "data" /\ isr_pc' = "off"
  /\ Isr(Received(Head(keybuffer)))
  /\ keybuffer' = Tail(keybuffer) /\ irq' = irq
ReadData_Newest ==
  /\ isr_pc = "data" /\ isr_pc' = "off"
  /\ Isr(Received(keybuffer[Len(keybuffer)]))
  /\ keybuffer' = SubSeq(keybuffer, 1, Len(keybuffer) - 1) /\ irq' = FALSE
ReadData ==
  /\ isr_pc = "data" /\ isr_pc' = "off"
  /\ Isr(Received(Head(keybuffer)))
  /\ keybuffer' = Tail(keybuffer) /\ irq' = FALSE

Handler == Interrupt \/ CheckStatus \/ ReadData
Program == isr_pc = "off" /\ ~irq /\ Reader /\ UNCHANGED chip

ConsoleInit == Init /\ keybuffer = <<>> /\ irq = FALSE /\ isr_pc = "off"
ConsoleNext == Handler \/ Program \/ \E ch \in Bytes : keypress(ch)
allvars == <<vars, chip>>
(* The processor goes on; keys may come or stay away.                         *)
ConsoleSpec == ConsoleInit /\ [][ConsoleNext]_allvars /\ WF_allvars(Handler \/ Program)

----------------------------------------------------------------------------
(* InterruptMeansKey: the line is up only while a key waits, and the handler  *)
(* never reads the data register of an empty chip, which would put $FF into   *)
(* the ring, whatever arrives between its status read and its data read.      *)
InterruptMeansKey ==
  /\ keybuffer \in Seq(Bytes) /\ Len(keybuffer) <= CAP
  /\ isr_pc \in {"off", "stat", "data"}
  /\ irq \/ isr_pc # "off" => keybuffer # <<>>

(* KeysKeepOrder: chip and ring together are one line of keys; only getch     *)
(* takes one from its front, a new one joins at its end, and one is lost only *)
(* where the ring or the chip is full.                                        *)
InChip(keys) == [k \in DOMAIN keys |-> Received(keys[k])]
Line == q \o InChip(keybuffer)
KeysKeepOrder ==
  [][\/ Line' = Line
     \/ Line # <<>> /\ Line' = Tail(Line) /\ (pc = "inc" \/ Full)
     \/ \E ch \in Bytes :
          /\ keypress(ch)
          /\ \/ Line' = Append(Line, Received(ch))
             \/ Len(keybuffer) = CAP
                  /\ Line' = q \o Tail(InChip(keybuffer)) \o <<Received(ch)>>]_allvars

(* KeysReachRing: a character that is available over the UART is stored in    *)
(* the key buffer (isr.s:15-16), once no more keys are pressed.               *)
KeysReachRing ==
  <>[][\A ch \in Bytes : ~keypress(ch)]_allvars => []<>(keybuffer = <<>>)
=============================================================================
