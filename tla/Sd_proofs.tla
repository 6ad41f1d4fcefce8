----------------------------- MODULE Sd_proofs -----------------------------
(* The SD driver and its card, bit by bit, for every size of a sector, every  *)
(* pair of checksums, every set of cards, sectors and addresses asked for.    *)
(* The invariant says what the card will be when the byte under way is        *)
(* through (After) and what the driver will have received by then (Got), and  *)
(* ties both to the place where the driver stands: every step that starts a   *)
(* byte decides what that is, and the eight steps that move its bits keep it. *)
EXTENDS SdProps, SequenceTheorems, TLAPS

----------------------------------------------------------------------------
(* What a card is made of.  The wires: what moves with every bit.             *)
Bit == {0, 1}
BlockMaps == UNION {[S -> HeldSectors] : S \in SUBSET Nat}
CardSet ==
  [present : BOOLEAN, cs : Bit, clk : Bit, mosi_bit : Bit, miso_bit : Bit,
   mosi_shift_reg : Byte, miso_shift_reg : Byte, mosi_bit_count : 0..7, miso_bit_count : 0..8,
   mosi_queue : Seq(Byte), miso_queue : Seq(Byte),
   awaiting_write_block : BOOLEAN, cmd24_seen_token : BOOLEAN,
   pending_write_addr : Nat, write_payload : Seq(Byte),
   image : Seq(HeldSectors), failed : BOOLEAN, read_only : BOOLEAN, dirty_blocks : BlockMaps]

(* The same apart from the wires.                                             *)
SameWrite(c, d) ==
  /\ c.awaiting_write_block = d.awaiting_write_block /\ c.cmd24_seen_token = d.cmd24_seen_token
  /\ c.pending_write_addr = d.pending_write_addr /\ c.write_payload = d.write_payload
SameStore(c, d) ==
  /\ c.present = d.present /\ c.image = d.image /\ c.failed = d.failed
  /\ c.read_only = d.read_only /\ c.dirty_blocks = d.dirty_blocks
Alike(c, d) ==
  /\ SameWrite(c, d) /\ SameStore(c, d)
  /\ c.mosi_queue = d.mosi_queue /\ c.miso_queue = d.miso_queue
SameWires(c, d) ==
  /\ c.present = d.present /\ c.cs = d.cs /\ c.clk = d.clk /\ c.mosi_bit = d.mosi_bit /\ c.miso_bit = d.miso_bit
  /\ c.mosi_shift_reg = d.mosi_shift_reg /\ c.miso_shift_reg = d.miso_shift_reg
  /\ c.mosi_bit_count = d.mosi_bit_count /\ c.miso_bit_count = d.miso_bit_count

(* A card between two bytes: fewer bytes than a command and than a payload,   *)
(* and a sector that is all in is one that the driver was given to write.     *)
Storable(c) ==
  c.awaiting_write_block /\ Len(c.write_payload) >= SECTOR
    => SubSeq(c.write_payload, 1, SECTOR) \in Sectors
Tame(c) ==
  /\ Len(c.mosi_queue) < 6 /\ Len(c.write_payload) < SECTOR + 2 /\ Storable(c)
  /\ c.awaiting_write_block => c.mosi_queue = <<>>

(* What the later theorems suppose of the cards and the two checksums.        *)
ChecksumsAgree == \A sector \in HeldSectors : card_crc(sector) = rom_crc(sector)
HoldsAll(c) == \A lba \in Lbas : lba < Len(c.image)
LongEnough == \A c \in InitialCards : c.read_only \/ HoldsAll(c)
Whole(c) == c.read_only \/ (HoldsAll(c) /\ ~c.failed /\ DOMAIN c.dirty_blocks = {})

----------------------------------------------------------------------------
(* The byte under way.  The driver puts one out with every bit, 255 when it   *)
(* only listens (the data line is up then); AfterByte is the card when the    *)
(* last bit will have gone, Got what the driver will have received.           *)
Outgoing == IF spi.op = "send" THEN spi.byte ELSE 255
Without(q) == IF q = <<>> THEN <<>> ELSE Tail(q)
Taking(c, b, n) ==
  [c EXCEPT !.mosi_queue = Append(@, b), !.miso_queue = IF n = 8 THEN Without(@) ELSE @]
AfterByte(c, b, n) == digest_sd(Taking(c, b, n))
After == IF SpiIdle \/ ~card.present THEN card ELSE AfterByte(card, Outgoing, spi.n)
Incoming ==
  IF ~card.present THEN 255
  ELSE IF spi.n = 8 THEN (IF card.miso_queue = <<>> THEN 255 ELSE Head(card.miso_queue))
  ELSE spi.byte * 2^spi.n + card.miso_shift_reg \div 2^(8 - spi.n)
Got == IF spi.op = "recv" THEN Incoming ELSE A
MosiAfter == IF spi.op = "send" THEN spi.byte % 2 ELSE port.mosi

(* Half a byte: as many bits on either side of the wire.                      *)
WireInv ==
  /\ port \in [cs : Bit, clk : {0}, mosi : Bit]
  /\ spi \in [op : {"idle", "send", "recv"}, byte : Byte, n : 0..8]
  /\ ~SpiIdle => spi.n \in 1..8
  /\ spi.op = "recv" => spi.byte < 2^(8 - spi.n)
  /\ spi.op = "recv" /\ ~card.present => spi.byte + 1 = 2^(8 - spi.n)
  /\ ~card.present => card.miso_bit = 1
  /\ card.present =>
       /\ card.clk = 0 /\ card.mosi_bit = port.mosi
       /\ IF SpiIdle THEN card.mosi_bit_count = 0 /\ card.miso_bit_count = 0 /\ card.mosi_shift_reg = 0
          ELSE /\ card.mosi_bit_count = 8 - spi.n /\ card.miso_bit_count = spi.n % 8
               /\ card.mosi_shift_reg = Outgoing \div 2^spi.n
       /\ spi.op = "recv" => port.mosi = 1

(* Where the driver stands: in which command, how far, for which call.        *)
Stations ==
  {"idle", "sdinit", "pulse", "open", "select", "command", "answer", "r5", "close", "deselect",
   "token", "data", "payload", "response", "busy", "result", "ask"}
Resting == {"idle", "sdinit", "open", "close", "result", "ask"}
ProgInv ==
  /\ pc \in Stations
  /\ which \in {"cmd00", "cmd08", "cmd55", "acmd41", "cmd58", "cmd17", "cmd24"}
  /\ pc \in Resting => SpiIdle
  /\ pc = "pulse" => i \in 0..10
  /\ pc = "command" => i \in 1..7
  /\ pc = "answer" => i \in 1..8
  /\ pc = "r5" => i \in 1..4 /\ which \in {"cmd08", "cmd58"}
  /\ pc = "data" => i \in 1..(SECTOR + 2)
  /\ pc = "payload" => i \in 0..(SECTOR + 2)
  /\ pc = "response" => i \in 1..32
  /\ pc \in {"token", "data", "ask"} => which = "cmd17"
  /\ pc \in {"payload", "response", "busy"} => which = "cmd24"
Booting == {"sdinit", "pulse"}
CallInv ==
  /\ pc = "idle" => call = NoCall
  /\ pc \in Booting => call.op = "boot"
  /\ pc \notin Booting \cup {"idle"} =>
       /\ which \notin {"cmd17", "cmd24"} => call.op = "boot"
       /\ which = "cmd17" => call.op = "read" /\ call.lba \in Lbas
       /\ which = "cmd24" => /\ call.op = "write" /\ call.lba \in Lbas /\ call.data \in Sectors
                             /\ DataOf(SDBUF) = call.data
RegInv ==
  /\ A \in Byte /\ r1 \in Byte /\ ocr \in Byte /\ i \in 0..(SECTOR + 33)
  /\ SDBUF \in [1..(SECTOR + 2) -> Byte] /\ ignore \in BOOLEAN /\ booted \in BOOLEAN

(* What the card c has understood of the command and still has to say, when   *)
(* the driver has received a and holds the data line at mosi.                 *)
Listens(c) == ~c.awaiting_write_block /\ c.mosi_queue = <<>>
Awaits(c) ==
  /\ c.awaiting_write_block /\ c.mosi_queue = <<>> /\ c.pending_write_addr = call.lba
Sent(c, k, reply) == c.miso_queue = SubSeq(reply, k + 1, Len(reply))
Streams(c, a, k, reply) == k \in 1..Len(reply) /\ a = reply[k] /\ Sent(c, k, reply)
Accepting == <<255, 5, 255>>
Reply(c) ==
  IF which = "cmd24" THEN <<255, 0>>
  ELSE IF which = "cmd17" THEN SectorResponse(Contents(c, call.lba)) ELSE Response(Command)
Answers(c) == which = "cmd17" => Contents(c, call.lba) \in HeldSectors
Silent(c) == which = "cmd17" /\ c.failed /\ c.miso_queue = <<>>
Begun(c) ==
  IF which = "cmd24" THEN Awaits(c) /\ ~c.cmd24_seen_token /\ c.write_payload = <<>> ELSE Listens(c)
Holds(c) == Contents(c, call.lba) = call.data
InBuffer(c, n) == \A k \in 1..n : SDBUF[k] = Reply(c)[7 + k]
Station(c, a, mosi) ==
  /\ pc \in Resting \cup {"pulse", "select", "deselect"} => Listens(c) /\ c.miso_queue = <<>>
  /\ pc = "command" /\ i <= 6 =>
       ~c.awaiting_write_block /\ c.mosi_queue = SubSeq(Command, 1, i - 1) /\ c.miso_queue = <<>>
  /\ pc = "command" /\ i = 7 => Begun(c) /\ (Silent(c) \/ (Answers(c) /\ Sent(c, 0, Reply(c))))
  /\ pc = "answer" =>
       /\ Begun(c)
       /\ \/ Silent(c) /\ a = 255
          \/ i \in {7, 8} /\ Answers(c) /\ Streams(c, a, 9 - i, Reply(c))
  /\ pc = "r5" => Listens(c) /\ Streams(c, a, 2 + i, Reply(c))
  /\ pc = "token" => Listens(c) /\ Answers(c) /\ \E k \in 3..7 : Streams(c, a, k, Reply(c))
  /\ pc = "data" => Listens(c) /\ Answers(c) /\ Streams(c, a, 7 + i, Reply(c))
  /\ pc = "payload" /\ i < SECTOR + 2 =>
       /\ Awaits(c) /\ c.cmd24_seen_token /\ c.miso_queue = <<>>
       /\ Len(c.write_payload) = i /\ \A k \in 1..i : k <= SECTOR => c.write_payload[k] = SDBUF[k]
  /\ pc = "payload" /\ i = SECTOR + 2 => Listens(c) /\ Sent(c, 0, Accepting)
  /\ pc = "response" => Listens(c) /\ i \in {31, 32} /\ Streams(c, a, 33 - i, Accepting)
  /\ pc = "busy" => Listens(c) /\ Streams(c, a, 3, Accepting)
  /\ pc \in {"answer", "r5", "token", "data", "response", "busy"} \/ (pc = "command" /\ i = 7)
       \/ (pc = "payload" /\ i = SECTOR + 2) => mosi = 1
(* What the driver may make of it: the bytes of the sector in the buffer, or  *)
(* the sector on the card.                                                    *)
Closing == {"close", "deselect", "result"}
Outcome(c) ==
  /\ pc \in {"token", "data", "payload"} => r1 = 0
  /\ pc = "data" => InBuffer(c, i - 1)
  /\ pc \in Closing /\ which = "cmd17" =>
       IF r1 = 0 THEN Answers(c) /\ InBuffer(c, SECTOR + 2) ELSE c.failed
  /\ pc = "ask" /\ ChecksumsAgree => c.failed
  /\ Whole(c) /\ (pc = "response" \/ (pc = "payload" /\ i = SECTOR + 2)) => Holds(c)
FrameInv == card.present => Tame(After) /\ Station(After, Got, MosiAfter) /\ Outcome(After)

(* Also without the card: what was stored is stored.                          *)
StoreInv ==
  LongEnough =>
    /\ Whole(card) /\ Whole(After)
    /\ which = "cmd24" =>
         /\ pc = "busy" \/ (pc = "response" /\ Got # 255) => Holds(After)
         /\ pc \in Closing /\ r1 = 0 => Holds(After)
    /\ \A lba \in Lbas :
         \/ Contents(After, lba) = Contents(card, lba)
         \/ call.op = "write" /\ lba = call.lba /\ Contents(After, lba) = call.data
SelectInv == pc \in {"idle", "open", "select", "pulse", "result", "ask"} => port.cs = 1
SdInv ==
  /\ card \in CardSet /\ Tame(card)
  /\ RegInv /\ ProgInv /\ CallInv /\ WireInv /\ FrameInv /\ SelectInv /\ StoreInv

----------------------------------------------------------------------------
(* The loop of handle_cmd24_payload over a queue of one byte.                 *)
Taken(c, value) ==
  IF c.awaiting_write_block THEN PayloadByte(c, value)
                            ELSE [c EXCEPT !.mosi_queue = Append(@, value)]
IsFold(f, base, q) ==
  f = [s \in SUBSET DOMAIN q |-> IF s = {} THEN base ELSE Taken(f[s \ {Max(s)}], q[Max(s)])]

LEMMA PayloadFold == ASSUME NEW c PROVE
  handle_cmd24_payload(c) =
    (CHOOSE f : IsFold(f, [c EXCEPT !.mosi_queue = <<>>], c.mosi_queue))[DOMAIN c.mosi_queue]
BY Zenon DEF handle_cmd24_payload, FoldLeft, MapThenFoldSet, IsFold, Taken

LEMMA FoldOne ==
  ASSUME NEW c, NEW b
  PROVE  (CHOOSE f : IsFold(f, c, <<b>>))[DOMAIN <<b>>] = Taken(c, b)
<1> DEFINE T == SUBSET {1}
           f == [s \in T |-> IF s = {} THEN c ELSE Taken(c, b)]
<1>1. DOMAIN <<b>> = {1} /\ <<b>>[1] = b
  OBVIOUS
<1>2. Max({1}) = 1
  BY DEF Max
<1>3. ASSUME NEW s \in T, s # {} PROVE Max(s) = 1 /\ s \ {Max(s)} = {} /\ {} \in T
  <2>1. s = {1}
    BY <1>3
  <2> QED BY <2>1, <1>2
<1>4. IsFold(f, c, <<b>>)
  <2>1. ASSUME NEW s \in T
        PROVE  (IF s = {} THEN c ELSE Taken(c, b))
                 = IF s = {} THEN c ELSE Taken(f[s \ {Max(s)}], <<b>>[Max(s)])
    BY <1>1, <1>3
  <2>2. f = [s \in T |-> IF s = {} THEN c ELSE Taken(f[s \ {Max(s)}], <<b>>[Max(s)])]
    BY <2>1
  <2> QED BY <2>2, <1>1 DEF IsFold
<1>5. PICK g : g = (CHOOSE it : IsFold(it, c, <<b>>)) /\ IsFold(g, c, <<b>>)
  BY <1>4, Zenon
<1>6. g = [s \in T |-> IF s = {} THEN c ELSE Taken(g[s \ {Max(s)}], <<b>>[Max(s)])]
  BY <1>1, <1>5 DEF IsFold
<1>7. {} \in T /\ {1} \in T /\ {1} \ {1} = {}
  OBVIOUS
<1>8. g[{}] = c
  BY <1>6, <1>7
<1>9. g[{1}] = Taken(g[{1} \ {Max({1})}], <<b>>[Max({1})])
  BY <1>6, <1>7
<1> QED BY <1>1, <1>2, <1>5, <1>7, <1>8, <1>9

----------------------------------------------------------------------------
(* digest_sd, case by case.                                                   *)
LEMMA DigestWait ==
  ASSUME NEW c, ~c.awaiting_write_block, c.mosi_queue = << 255 >>
  PROVE  digest_sd(c) = [c EXCEPT !.mosi_queue = <<>>]
BY DEF digest_sd

LEMMA DigestPart ==
  ASSUME NEW c, ~c.awaiting_write_block, c.mosi_queue \in Seq(Byte), c.mosi_queue # << 255 >>, Len(c.mosi_queue) < 6
  PROVE  digest_sd(c) = c
BY DEF digest_sd

LEMMA DigestCommand ==
  ASSUME NEW c, ~c.awaiting_write_block, c.mosi_queue \in Seq(Byte), Len(c.mosi_queue) = 6
  PROVE  digest_sd(c) = Obey([c EXCEPT !.mosi_queue = <<>>], c.mosi_queue)
BY DEF digest_sd

LEMMA DigestPayload ==
  ASSUME NEW c, c.awaiting_write_block, NEW b, c.mosi_queue = <<b>>, c \in CardSet
  PROVE  digest_sd(c) = PayloadByte([c EXCEPT !.mosi_queue = <<>>], b)
<1> DEFINE d == [c EXCEPT !.mosi_queue = <<>>]
<1>1. digest_sd(c) = handle_cmd24_payload(c)
  BY DEF digest_sd
<1>2. handle_cmd24_payload(c) = Taken(d, b)
  BY PayloadFold, FoldOne, Zenon
<1>3. d.awaiting_write_block
  BY DEF CardSet
<1> QED BY <1>1, <1>2, <1>3 DEF Taken

----------------------------------------------------------------------------
(* Bits.                                                                      *)
LEMMA Powers ==
  /\ 2^0 = 1 /\ 2^1 = 2 /\ 2^2 = 4 /\ 2^3 = 8 /\ 2^4 = 16
  /\ 2^5 = 32 /\ 2^6 = 64 /\ 2^7 = 128 /\ 2^8 = 256
OBVIOUS

LEMMA Power == ASSUME NEW n \in 1..8 PROVE 2^n = 2 * 2^(n - 1) /\ 2^n \in 1..256 /\ 2^(n - 1) \in 1..128
<1>1. CASE n = 1
  BY <1>1, Powers
<1>2. CASE n = 2
  BY <1>2, Powers
<1>3. CASE n = 3
  BY <1>3, Powers
<1>4. CASE n = 4
  BY <1>4, Powers
<1>5. CASE n = 5
  BY <1>5, Powers
<1>6. CASE n = 6
  BY <1>6, Powers
<1>7. CASE n = 7
  BY <1>7, Powers
<1>8. CASE n = 8
  BY <1>8, Powers
<1> QED BY <1>1, <1>2, <1>3, <1>4, <1>5, <1>6, <1>7, <1>8

(* The bits put out so far are those of the byte, from the top.               *)
LEMMA BitGoesOut ==
  ASSUME NEW n \in 1..8, NEW b \in Byte
  PROVE  /\ BitOut(b, n) \in Bit /\ b \div 2^n \in 0..127
         /\ b \div 2^(n - 1) = 2 * (b \div 2^n) + BitOut(b, n)
         /\ n = 8 => b \div 2^n = 0
         /\ n = 1 => BitOut(b, n) = b % 2 /\ b \div 2^(n - 1) = b
<1>1. b \in Nat /\ b < 256
  BY DEF Byte
<1>2. CASE n = 1
  BY <1>1, <1>2, Powers DEF BitOut, Bit
<1>3. CASE n = 2
  BY <1>1, <1>3, Powers DEF BitOut, Bit
<1>4. CASE n = 3
  BY <1>1, <1>4, Powers DEF BitOut, Bit
<1>5. CASE n = 4
  BY <1>1, <1>5, Powers DEF BitOut, Bit
<1>6. CASE n = 5
  BY <1>1, <1>6, Powers DEF BitOut, Bit
<1>7. CASE n = 6
  BY <1>1, <1>7, Powers DEF BitOut, Bit
<1>8. CASE n = 7
  BY <1>1, <1>8, Powers DEF BitOut, Bit
<1>9. CASE n = 8
  BY <1>1, <1>9, Powers DEF BitOut, Bit
<1> QED BY <1>2, <1>3, <1>4, <1>5, <1>6, <1>7, <1>8, <1>9

LEMMA AllOnes == ASSUME NEW n \in 1..8 PROVE BitOut(255, n) = 1
<1>2. CASE n = 1
  BY <1>2, Powers DEF BitOut
<1>3. CASE n = 2
  BY <1>3, Powers DEF BitOut
<1>4. CASE n = 3
  BY <1>4, Powers DEF BitOut
<1>5. CASE n = 4
  BY <1>5, Powers DEF BitOut
<1>6. CASE n = 5
  BY <1>6, Powers DEF BitOut
<1>7. CASE n = 6
  BY <1>7, Powers DEF BitOut
<1>8. CASE n = 7
  BY <1>8, Powers DEF BitOut
<1>9. CASE n = 8
  BY <1>9, Powers DEF BitOut
<1> QED BY <1>2, <1>3, <1>4, <1>5, <1>6, <1>7, <1>8, <1>9

(* The bits received so far and those to come are the byte that the card      *)
(* sends.                                                                     *)
Arriving(y, reg, n) == y * 2^n + reg \div 2^(8 - n)
NextBit(y, reg, n) ==
  /\ n > 1 => Arriving(y, reg, n) = Arriving(2 * y + reg \div 128, (2 * reg) % 256, n - 1)
  /\ n = 1 => Arriving(y, reg, n) = 2 * y + reg \div 128
  /\ n = 8 => Arriving(y, reg, n) = reg
LEMMA BitComesIn ==
  ASSUME NEW n \in 1..8, NEW y \in Nat, y < 2^(8 - n), NEW reg \in Byte
  PROVE  /\ reg \div 128 \in Bit /\ (2 * reg) % 256 \in Byte
         /\ 2 * y + reg \div 128 < 2^(9 - n) /\ NextBit(y, reg, n)
<1>1. reg \in Nat /\ reg < 256
  BY DEF Byte
<1>2. CASE n = 1
  BY <1>1, <1>2, Powers DEF Bit, Byte, Arriving, NextBit
<1>3. CASE n = 2
  BY <1>1, <1>3, Powers DEF Bit, Byte, Arriving, NextBit
<1>4. CASE n = 3
  BY <1>1, <1>4, Powers DEF Bit, Byte, Arriving, NextBit
<1>5. CASE n = 4
  BY <1>1, <1>5, Powers DEF Bit, Byte, Arriving, NextBit
<1>6. CASE n = 5
  BY <1>1, <1>6, Powers DEF Bit, Byte, Arriving, NextBit
<1>7. CASE n = 6
  BY <1>1, <1>7, Powers DEF Bit, Byte, Arriving, NextBit
<1>8. CASE n = 7
  BY <1>1, <1>8, Powers DEF Bit, Byte, Arriving, NextBit
<1>9. CASE n = 8
  BY <1>1, <1>9, Powers DEF Bit, Byte, Arriving, NextBit
<1> QED BY <1>2, <1>3, <1>4, <1>5, <1>6, <1>7, <1>8, <1>9

----------------------------------------------------------------------------
(* A rising and a falling clock.                                              *)
Ports == [cs : Bit, clk : Bit, mosi : Bit]
SameButLines(c, d) ==
  /\ Alike(c, d) /\ c.miso_bit = d.miso_bit
  /\ c.mosi_shift_reg = d.mosi_shift_reg /\ c.miso_shift_reg = d.miso_shift_reg
  /\ c.mosi_bit_count = d.mosi_bit_count /\ c.miso_bit_count = d.miso_bit_count

LEMMA ShiftIn == ASSUME NEW x \in Byte, NEW m \in Bit PROVE ((2 * x) % 256) + m \in Byte
BY DEF Byte, Bit

LEMMA ClockFalls ==
  ASSUME NEW c \in CardSet, NEW p \in Ports, p.clk = 0
  PROVE  LET d == update_outputs(c, p)
         IN d \in CardSet /\ SameButLines(d, c) /\ d.cs = p.cs /\ d.clk = 0 /\ d.mosi_bit = p.mosi
<1> DEFINE x == [c EXCEPT !.cs = p.cs]
           y == [x EXCEPT !.clk = p.clk]
           d == [y EXCEPT !.mosi_bit = p.mosi]
<1>1. x \in CardSet /\ x.clk = c.clk
  BY DEF CardSet, Ports
<1>2. update_outputs(c, p) = d
  BY DEF update_outputs, set_clk
<1>3. d \in CardSet
  BY DEF CardSet, Ports
<1>4. SameButLines(d, c) /\ d.cs = p.cs /\ d.clk = 0 /\ d.mosi_bit = p.mosi
  BY DEF CardSet, SameButLines, Alike, SameWrite, SameStore
<1> QED BY <1>2, <1>3, <1>4

(* The card takes in a bit that does not complete a byte.                     *)
LEMMA BitIn ==
  ASSUME NEW c \in CardSet, c.mosi_bit_count < 7
  PROVE  LET d == MosiIn(c)
         IN /\ d \in CardSet /\ Alike(d, c) /\ d.mosi_bit_count = c.mosi_bit_count + 1
            /\ d.mosi_shift_reg = ((2 * c.mosi_shift_reg) % 256) + c.mosi_bit
            /\ d.cs = c.cs /\ d.clk = c.clk /\ d.mosi_bit = c.mosi_bit /\ d.miso_bit = c.miso_bit
            /\ d.miso_shift_reg = c.miso_shift_reg /\ d.miso_bit_count = c.miso_bit_count
<1> DEFINE r == ((2 * c.mosi_shift_reg) % 256) + c.mosi_bit
           k == c.mosi_bit_count + 1
           d == [c EXCEPT !.mosi_shift_reg = r, !.mosi_bit_count = k]
<1>1. r \in Byte /\ k \in 0..7
  <2>1. c.mosi_shift_reg \in Byte /\ c.mosi_bit \in Bit /\ c.mosi_bit_count \in 0..7
    BY DEF CardSet
  <2> QED BY <2>1, ShiftIn
<1>2. MosiIn(c) = d
  BY DEF MosiIn, CardSet
<1> HIDE DEF r, k
<1>3. d \in CardSet
  BY <1>1 DEF CardSet
<1>4. /\ Alike(d, c) /\ d.mosi_bit_count = k /\ d.mosi_shift_reg = r
      /\ d.cs = c.cs /\ d.clk = c.clk /\ d.mosi_bit = c.mosi_bit /\ d.miso_bit = c.miso_bit
      /\ d.miso_shift_reg = c.miso_shift_reg /\ d.miso_bit_count = c.miso_bit_count
  BY DEF CardSet, Alike, SameWrite, SameStore
<1> QED BY <1>2, <1>3, <1>4 DEF r, k

(* The card puts out a bit, from a new byte when the last one is through.     *)
LEMMA BitOff ==
  ASSUME NEW c \in CardSet
  PROVE  LET d == MisoOut(c)
             fresh == c.miso_bit_count = 0
             reg == IF ~fresh THEN c.miso_shift_reg ELSE IF c.miso_queue = <<>> THEN 255 ELSE Head(c.miso_queue)
         IN /\ d \in CardSet /\ reg \in Byte
            /\ SameWrite(d, c) /\ SameStore(d, c) /\ d.mosi_queue = c.mosi_queue
            /\ d.miso_queue = IF fresh THEN Without(c.miso_queue) ELSE c.miso_queue
            /\ d.miso_bit = reg \div 128 /\ d.miso_shift_reg = (2 * reg) % 256
            /\ d.miso_bit_count = (IF fresh THEN 8 ELSE c.miso_bit_count) - 1
            /\ d.cs = c.cs /\ d.clk = c.clk /\ d.mosi_bit = c.mosi_bit
            /\ d.mosi_shift_reg = c.mosi_shift_reg /\ d.mosi_bit_count = c.mosi_bit_count
<1> DEFINE fresh == c.miso_bit_count = 0
           reg == IF ~fresh THEN c.miso_shift_reg ELSE IF c.miso_queue = <<>> THEN 255 ELSE Head(c.miso_queue)
           q == IF fresh THEN Without(c.miso_queue) ELSE c.miso_queue
           k == IF fresh THEN 8 ELSE c.miso_bit_count
           e == [c EXCEPT !.miso_shift_reg = reg, !.miso_queue = q, !.miso_bit_count = k]
           bit == reg \div 128
           rest == (2 * reg) % 256
           d == [e EXCEPT !.miso_bit = bit, !.miso_shift_reg = rest, !.miso_bit_count = k - 1]
<1>1. c.miso_queue \in Seq(Byte) /\ c.miso_shift_reg \in Byte /\ c.miso_bit_count \in 0..8
  BY DEF CardSet
<1>2. reg \in Byte /\ q \in Seq(Byte) /\ k \in 1..8 /\ k - 1 \in 0..8
  <2>1. c.miso_queue # <<>> => Head(c.miso_queue) \in Byte /\ Tail(c.miso_queue) \in Seq(Byte)
    BY <1>1
  <2> QED BY <1>1, <2>1 DEF Without, Byte
<1>3. bit \in Bit /\ rest \in Byte
  <2> HIDE DEF reg
  <2> QED BY <1>2 DEF Byte, Bit
<1>4. (IF c.miso_bit_count = 0 THEN LoadMiso(c) ELSE c) = e
  <2>1. CASE fresh
    <3>1. CASE c.miso_queue = <<>>
      <4>1. reg = 255 /\ q = c.miso_queue /\ k = 8
        BY <2>1, <3>1 DEF Without
      <4>2. LoadMiso(c) = [c EXCEPT !.miso_shift_reg = 255, !.miso_bit_count = 8]
        BY <3>1 DEF LoadMiso
      <4> HIDE DEF reg, q, k
      <4>3. LoadMiso(c) = e
        BY <4>1, <4>2, ZenonT(60) DEF CardSet
      <4> QED BY <2>1, <4>3
    <3>2. CASE c.miso_queue # <<>>
      <4>1. reg = Head(c.miso_queue) /\ q = Tail(c.miso_queue) /\ k = 8
        BY <2>1, <3>2 DEF Without
      <4>2. LoadMiso(c) = [c EXCEPT !.miso_shift_reg = Head(c.miso_queue), !.miso_queue = Tail(@), !.miso_bit_count = 8]
        BY <3>2 DEF LoadMiso
      <4> HIDE DEF reg, q, k
      <4>3. LoadMiso(c) = e
        BY <4>1, <4>2 DEF CardSet
      <4> QED BY <2>1, <4>3
    <3> QED BY <3>1, <3>2
  <2>2. CASE ~fresh
    BY <2>2 DEF CardSet
  <2> QED BY <2>1, <2>2
<1> HIDE DEF fresh, reg, q, k, bit, rest
<1>5. /\ e \in CardSet /\ e.miso_shift_reg = reg /\ e.miso_bit_count = k
      /\ SameWrite(e, c) /\ SameStore(e, c) /\ e.mosi_queue = c.mosi_queue /\ e.miso_queue = q
      /\ e.cs = c.cs /\ e.clk = c.clk /\ e.mosi_bit = c.mosi_bit
      /\ e.mosi_shift_reg = c.mosi_shift_reg /\ e.mosi_bit_count = c.mosi_bit_count
  <2> HIDE DEF d
  <2>1. q \in Seq(Byte) /\ k \in 0..8 /\ reg \in Byte
    BY <1>2
  <2>2. e \in CardSet
    BY <2>1 DEF CardSet
  <2>3. /\ SameWrite(e, c) /\ SameStore(e, c) /\ e.mosi_queue = c.mosi_queue /\ e.miso_queue = q
    BY DEF CardSet, SameWrite, SameStore
  <2>4. /\ e.miso_shift_reg = reg /\ e.miso_bit_count = k
        /\ e.cs = c.cs /\ e.clk = c.clk /\ e.mosi_bit = c.mosi_bit
        /\ e.mosi_shift_reg = c.mosi_shift_reg /\ e.mosi_bit_count = c.mosi_bit_count
    BY DEF CardSet
  <2> QED BY <2>2, <2>3, <2>4
<1> HIDE DEF e
<1>6. MisoOut(c) = [e EXCEPT !.miso_bit = e.miso_shift_reg \div 128, !.miso_shift_reg = (2 * @) % 256, !.miso_bit_count = @ - 1]
  BY <1>4, ZenonT(60) DEF MisoOut
<1>7. MisoOut(c) = d
  BY <1>5, <1>6 DEF CardSet, bit, rest
<1>8. d \in CardSet
  BY <1>2, <1>3, <1>5 DEF CardSet
<1>9. /\ Alike(d, e) /\ d.miso_bit = bit /\ d.miso_shift_reg = rest /\ d.miso_bit_count = k - 1
      /\ d.cs = e.cs /\ d.clk = e.clk /\ d.mosi_bit = e.mosi_bit
      /\ d.mosi_shift_reg = e.mosi_shift_reg /\ d.mosi_bit_count = e.mosi_bit_count
  BY <1>5 DEF CardSet, Alike, SameWrite, SameStore
<1> HIDE DEF d
<1>10. SameWrite(d, c) /\ SameStore(d, c) /\ d.mosi_queue = c.mosi_queue /\ d.miso_queue = q
  BY <1>5, <1>9 DEF Alike, SameWrite, SameStore
<1> QED BY <1>2, <1>5, <1>7, <1>8, <1>9, <1>10 DEF fresh, reg, q, k, bit, rest

----------------------------------------------------------------------------
(* What a byte that is through does to the card, case by case: the wires stay *)
(* as they are.                                                               *)
Becomes(d, c) == d \in CardSet /\ SameWires(d, c)

LEMMA Requeue ==
  ASSUME NEW c \in CardSet, NEW q \in Seq(Byte)
  PROVE  LET d == [c EXCEPT !.mosi_queue = q]
         IN /\ Becomes(d, c) /\ SameWrite(d, c) /\ SameStore(d, c)
            /\ d.mosi_queue = q /\ d.miso_queue = c.miso_queue
BY DEF Becomes, CardSet, SameWires, SameWrite, SameStore

LEMMA LoadResponse ==
  ASSUME NEW c \in CardSet, NEW resp \in Seq(Byte)
  PROVE  LET d == load_response(c, resp)
         IN /\ Becomes(d, c) /\ SameWrite(d, c) /\ SameStore(d, c)
            /\ d.mosi_queue = c.mosi_queue /\ d.miso_queue = c.miso_queue \o resp
<1> DEFINE q == c.miso_queue \o resp
           d == [c EXCEPT !.miso_queue = q]
<1>1. q \in Seq(Byte)
  <2>1. c.miso_queue \in Seq(Byte)
    BY DEF CardSet
  <2> QED BY <2>1
<1>2. load_response(c, resp) = d
  BY DEF load_response, CardSet
<1> HIDE DEF q
<1>3. d \in CardSet
  BY <1>1 DEF CardSet
<1>4. SameWires(d, c) /\ d.miso_queue = q /\ d.mosi_queue = c.mosi_queue
  BY DEF SameWires, CardSet
<1>5. SameWrite(d, c) /\ SameStore(d, c)
  BY DEF SameWrite, SameStore, CardSet
<1> HIDE DEF d
<1> QED BY <1>2, <1>3, <1>4, <1>5 DEF Becomes, q

----------------------------------------------------------------------------
(* Sectors and answers.                                                       *)
LEMMA CrcRange == ASSUME NEW sector \in HeldSectors PROVE card_crc(sector) \in Nat /\ card_crc(sector) < 65536
BY ChecksumAssumption DEF ChecksumAssumption

LEMMA InitialImages ==
  ASSUME NEW c \in InitialCards
  PROVE  /\ c.image \in Seq([1..SECTOR -> Byte]) /\ c.read_only \in BOOLEAN
         /\ c = FreshCard(c.image, c.read_only)
BY DriverAssumption DEF Byte

LEMMA HeldBytes ==
  /\ Zeros \in HeldSectors /\ Sectors \subseteq HeldSectors
  /\ HeldSectors \subseteq [1..SECTOR -> Byte]
  /\ \A sector \in HeldSectors : sector \in Seq(Byte) /\ Len(sector) = SECTOR
<1>1. Zeros \in HeldSectors /\ Sectors \subseteq HeldSectors
  BY DEF HeldSectors
<1>2. Zeros \in [1..SECTOR -> Byte]
  BY CardAssumption DEF CardAssumption, Zeros, Byte
<1>3. ASSUME NEW c \in InitialCards PROVE ToSet(c.image) \subseteq [1..SECTOR -> Byte]
  BY InitialImages DEF ToSet
<1>4. HeldSectors \subseteq [1..SECTOR -> Byte]
  <2>1. Sectors \subseteq [1..SECTOR -> Byte]
    BY DriverAssumption DEF Byte
  <2>2. (UNION {ToSet(c.image) : c \in InitialCards}) \subseteq [1..SECTOR -> Byte]
    BY <1>3
  <2> QED BY <1>2, <2>1, <2>2 DEF HeldSectors
<1>5. ASSUME NEW sector \in [1..SECTOR -> Byte] PROVE sector \in Seq(Byte) /\ Len(sector) = SECTOR
  BY CardAssumption DEF CardAssumption
<1> QED BY <1>1, <1>4, <1>5

(* A number of sixteen bits, high byte first.                                 *)
LEMMA HighLow ==
  ASSUME NEW n \in Nat PROVE 256 * (n \div 256) + (n % 256) = n
OBVIOUS

LEMMA TwoBytes ==
  ASSUME NEW n \in Nat, n < 65536
  PROVE  \E hi, lo \in Byte : hi = n \div 256 /\ lo = n % 256 /\ 256 * hi + lo = n
<1>1. \E hi \in Nat, lo \in Byte : hi = n \div 256 /\ lo = n % 256 /\ 256 * hi + lo = n
  <2>1. n \div 256 \in Nat
    OBVIOUS
  <2>2. n % 256 \in Byte
    BY DEF Byte
  <2> QED BY <2>1, <2>2, HighLow
<1>2. PICK hi \in Nat, lo \in Byte : hi = n \div 256 /\ lo = n % 256 /\ 256 * hi + lo = n
  BY <1>1
<1>3. hi \in Byte
  <2>1. 256 * hi + lo < 65536 /\ lo >= 0
    BY <1>2 DEF Byte
  <2> QED BY <2>1, <1>2 DEF Byte
<1> QED BY <1>2, <1>3

LEMMA CrcBytes ==
  ASSUME NEW sector \in HeldSectors
  PROVE  \E hi, lo \in Byte : /\ hi = card_crc(sector) \div 256 /\ lo = card_crc(sector) % 256
                              /\ 256 * hi + lo = card_crc(sector)
<1>1. PICK n \in Nat : n = card_crc(sector) /\ n < 65536
  BY CrcRange
<1>2. \E hi, lo \in Byte : hi = n \div 256 /\ lo = n % 256 /\ 256 * hi + lo = n
  BY <1>1, TwoBytes
<1> QED BY <1>1, <1>2

(* The seven bytes before the sector, the sector and the two after it.        *)
LEMMA SectorAnswer ==
  ASSUME NEW sector \in HeldSectors
  PROVE  LET r == SectorResponse(sector)
         IN /\ r \in Seq(Byte) /\ Len(r) = SECTOR + 9
            /\ r[1] = 255 /\ r[2] = 0 /\ r[7] = 254 /\ \A k \in 3..6 : r[k] = 255
            /\ \A k \in 1..SECTOR : r[7 + k] = sector[k]
            /\ 256 * r[SECTOR + 8] + r[SECTOR + 9] = card_crc(sector)
<1> DEFINE lead == <<255, 0, 255, 255, 255, 255, 254>>
           body == lead \o sector
           r == SectorResponse(sector)
<1>1. sector \in Seq(Byte) /\ Len(sector) = SECTOR /\ SECTOR \in Nat
  BY HeldBytes, CardAssumption DEF CardAssumption
<1>2. lead \in Seq(Byte) /\ Len(lead) = 7
  BY DEF Byte
<1> HIDE DEF lead
<1>3. PICK hi \in Byte, lo \in Byte : /\ hi = card_crc(sector) \div 256 /\ lo = card_crc(sector) % 256
                                      /\ 256 * hi + lo = card_crc(sector)
  BY CrcBytes
<1>4. /\ body \in Seq(Byte) /\ Len(body) = SECTOR + 7
      /\ \A k \in 1..7 : body[k] = lead[k]
      /\ \A k \in 1..SECTOR : body[7 + k] = sector[k]
  <2>1. Len(body) = 7 + SECTOR /\ body \in Seq(Byte)
    <3>1. /\ lead \o sector \in Seq(Byte)
          /\ Len(lead \o sector) = Len(lead) + Len(sector)
      BY <1>1, <1>2, ConcatProperties
    <3> QED BY <1>1, <1>2, <3>1
  <2>2. \A k \in 1..(7 + SECTOR) : body[k] = IF k <= 7 THEN lead[k] ELSE sector[k - 7]
    BY <1>1, <1>2, <2>1
  <2> HIDE DEF body
  <2> QED BY <1>1, <2>1, <2>2
<1>5. <<hi, lo>> \in Seq(Byte) /\ Len(<<hi, lo>>) = 2 /\ <<hi, lo>>[1] = hi /\ <<hi, lo>>[2] = lo
  BY <1>3
<1>6. r = body \o <<hi, lo>>
  BY <1>3, ZenonT(60) DEF SectorResponse, body, lead
<1> HIDE DEF body, r
<1>7. /\ r \in Seq(Byte) /\ Len(r) = SECTOR + 9
      /\ \A k \in 1..(SECTOR + 7) : r[k] = body[k]
      /\ r[SECTOR + 8] = hi /\ r[SECTOR + 9] = lo
  BY <1>1, <1>4, <1>5, <1>6, ConcatProperties
<1>8. \A k \in 1..7 : r[k] = lead[k]
  BY <1>1, <1>4, <1>7
<1>9. \A k \in 1..SECTOR : r[7 + k] = sector[k]
  BY <1>1, <1>4, <1>7
<1>10. lead[1] = 255 /\ lead[2] = 0 /\ lead[7] = 254 /\ \A k \in 3..6 : lead[k] = 255
  BY DEF lead
<1>11. 256 * r[SECTOR + 8] + r[SECTOR + 9] = card_crc(sector)
  BY <1>3, <1>7
<1>12. r[1] = 255 /\ r[2] = 0 /\ r[7] = 254 /\ \A k \in 3..6 : r[k] = 255
  BY <1>8, <1>10
<1> QED BY <1>7, <1>9, <1>11, <1>12 DEF r

LEMMA Answering ==
  /\ Known \subseteq Seq(Byte)
  /\ \A cmd \in Known : Response(cmd) \in Seq(Byte) /\ Response(cmd)[1] = 255
  /\ Response(Cmd00) = <<255, 1>> /\ Response(Cmd55) = <<255, 1>> /\ Response(Acmd41) = <<255, 0>>
  /\ Response(Cmd08) = <<255, 1, 0, 0, 1, 170>> /\ Response(Cmd58) = <<255, 0, 192, 255, 128, 0>>
<1>1. /\ Response(Cmd00) = <<255, 1>> /\ Response(Cmd55) = <<255, 1>> /\ Response(Acmd41) = <<255, 0>>
      /\ Response(Cmd08) = <<255, 1, 0, 0, 1, 170>> /\ Response(Cmd58) = <<255, 0, 192, 255, 128, 0>>
  BY DEF Response, Cmd00, Cmd08, Cmd55, Acmd41, Cmd58
<1>2. Known \subseteq Seq(Byte)
  BY DEF Known, Cmd00, Cmd08, Cmd55, Acmd41, Cmd58, Byte
<1>3. \A cmd \in Known : Response(cmd) \in Seq(Byte) /\ Response(cmd)[1] = 255
  <2>1. ASSUME NEW cmd \in Known
        PROVE  Response(cmd) \in {<<255, 1>>, <<255, 0>>, <<255, 1, 0, 0, 1, 170>>, <<255, 0, 192, 255, 128, 0>>}
    BY <1>1 DEF Known
  <2>2. /\ <<255, 1>> \in Seq(Byte) /\ <<255, 0>> \in Seq(Byte)
        /\ <<255, 1, 0, 0, 1, 170>> \in Seq(Byte) /\ <<255, 0, 192, 255, 128, 0>> \in Seq(Byte)
    BY DEF Byte
  <2>3. /\ <<255, 1>>[1] = 255 /\ <<255, 0>>[1] = 255
        /\ <<255, 1, 0, 0, 1, 170>>[1] = 255 /\ <<255, 0, 192, 255, 128, 0>>[1] = 255
    OBVIOUS
  <2> QED BY <2>1, <2>2, <2>3, ZenonT(60)
<1> QED BY <1>1, <1>2, <1>3

----------------------------------------------------------------------------
(* The commands.                                                              *)
LEMMA LoadAlike ==
  ASSUME NEW c \in CardSet, NEW d \in CardSet, Alike(c, d), NEW resp \in Seq(Byte)
  PROVE  Alike(load_response(c, resp), load_response(d, resp))
BY LoadResponse, ZenonT(60) DEF Alike, SameWrite, SameStore

LEMMA Blocks ==
  ASSUME NEW c \in CardSet
  PROVE  /\ \A a \in DOMAIN c.dirty_blocks : a \in Nat /\ c.dirty_blocks[a] \in HeldSectors
         /\ \A k \in 0..(Len(c.image) - 1) : c.image[k + 1] \in HeldSectors
<1>1. c.dirty_blocks \in BlockMaps /\ c.image \in Seq(HeldSectors)
  BY DEF CardSet
<1>2. PICK S \in SUBSET Nat : c.dirty_blocks \in [S -> HeldSectors]
  BY <1>1 DEF BlockMaps
<1>3. \A a \in DOMAIN c.dirty_blocks : a \in Nat /\ c.dirty_blocks[a] \in HeldSectors
  BY <1>2
<1>4. \A k \in 0..(Len(c.image) - 1) : c.image[k + 1] \in HeldSectors
  <2> DEFINE q == c.image
  <2>1. q \in Seq(HeldSectors)
    BY <1>1
  <2> HIDE DEF q
  <2>2. \A k \in 0..(Len(q) - 1) : q[k + 1] \in HeldSectors
    BY <2>1
  <2> QED BY <2>2 DEF q
<1> QED BY <1>3, <1>4

(* load_response_cmd17, by where the sector is found.                         *)
LEMMA ReadDirty ==
  ASSUME NEW c, NEW addr, addr \in DOMAIN c.dirty_blocks
  PROVE  load_response_cmd17(c, addr) = load_response(c, SectorResponse(c.dirty_blocks[addr]))
BY DEF load_response_cmd17

LEMMA ReadFailed ==
  ASSUME NEW c, NEW addr, addr \notin DOMAIN c.dirty_blocks, c.failed
  PROVE  load_response_cmd17(c, addr) = c
BY DEF load_response_cmd17

LEMMA ReadBeyond ==
  ASSUME NEW c, NEW addr \in Nat, addr \notin DOMAIN c.dirty_blocks, ~c.failed,
         addr % Wrap >= Len(c.image)
  PROVE  load_response_cmd17(c, addr) = [c EXCEPT !.failed = TRUE]
BY DEF load_response_cmd17

LEMMA ReadImage ==
  ASSUME NEW c \in CardSet, NEW addr \in Nat, addr \notin DOMAIN c.dirty_blocks, ~c.failed,
         ~(addr % Wrap >= Len(c.image))
  PROVE  load_response_cmd17(c, addr) = load_response(c, SectorResponse(c.image[(addr % Wrap) + 1]))
BY DEF load_response_cmd17

LEMMA Fails ==
  ASSUME NEW c \in CardSet, NEW t \in BOOLEAN
  PROVE  LET d == [c EXCEPT !.failed = t]
         IN /\ Becomes(d, c) /\ SameWrite(d, c)
            /\ d.mosi_queue = c.mosi_queue /\ d.miso_queue = c.miso_queue
            /\ d.present = c.present /\ d.image = c.image /\ d.read_only = c.read_only
            /\ d.dirty_blocks = c.dirty_blocks /\ d.failed = t
<1> DEFINE d == [c EXCEPT !.failed = t]
<1>1. d \in CardSet
  BY DEF CardSet
<1>2. SameWires(d, c)
  BY DEF CardSet, SameWires
<1>3. SameWrite(d, c)
  BY DEF CardSet, SameWrite
<1>4. /\ d.mosi_queue = c.mosi_queue /\ d.miso_queue = c.miso_queue
      /\ d.present = c.present /\ d.image = c.image /\ d.read_only = c.read_only
      /\ d.dirty_blocks = c.dirty_blocks /\ d.failed = t
  BY DEF CardSet
<1> HIDE DEF d
<1> QED BY <1>1, <1>2, <1>3, <1>4 DEF Becomes, d

LEMMA ReadTyped ==
  ASSUME NEW c \in CardSet, NEW addr \in Nat
  PROVE  LET r == load_response_cmd17(c, addr) IN r \in CardSet /\ SameWires(r, c)
<1> DEFINE at == addr % Wrap
<1>0. at \in Nat /\ Len(c.image) \in Nat
  <2>1. c.image \in Seq(HeldSectors)
    BY DEF CardSet
  <2>2. Wrap \in Nat /\ Wrap > 0
    BY DEF Wrap
  <2> QED BY <2>1, <2>2
<1> HIDE DEF at
<1>1. CASE addr \in DOMAIN c.dirty_blocks
  <2>1. SectorResponse(c.dirty_blocks[addr]) \in Seq(Byte)
    BY <1>1, Blocks, SectorAnswer
  <2> QED BY <1>1, <2>1, ReadDirty, LoadResponse DEF Becomes
<1>2. CASE addr \notin DOMAIN c.dirty_blocks /\ c.failed
  BY <1>2, ReadFailed DEF SameWires
<1>3. CASE addr \notin DOMAIN c.dirty_blocks /\ ~c.failed /\ at >= Len(c.image)
  <2> DEFINE r == [c EXCEPT !.failed = TRUE]
  <2>1. r \in CardSet /\ SameWires(r, c)
    BY Fails DEF Becomes
  <2> QED BY <1>3, <2>1, ReadBeyond DEF at
<1>4. CASE addr \notin DOMAIN c.dirty_blocks /\ ~c.failed /\ ~(at >= Len(c.image))
  <2>1. at \in 0..(Len(c.image) - 1)
    BY <1>0, <1>4
  <2>2. SectorResponse(c.image[at + 1]) \in Seq(Byte)
    BY <2>1, Blocks, SectorAnswer
  <2> QED BY <1>4, <2>2, ReadImage, LoadResponse DEF Becomes, at
<1> QED BY <1>1, <1>2, <1>3, <1>4

LEMMA ReadAlike ==
  ASSUME NEW c \in CardSet, NEW d \in CardSet, Alike(c, d), NEW addr \in Nat
  PROVE  Alike(load_response_cmd17(c, addr), load_response_cmd17(d, addr))
<1> DEFINE at == addr % Wrap
<1>0. /\ at \in Nat /\ Len(c.image) \in Nat
      /\ d.dirty_blocks = c.dirty_blocks /\ d.image = c.image /\ d.failed = c.failed
  <2>1. c.image \in Seq(HeldSectors)
    BY DEF CardSet
  <2>2. Wrap \in Nat /\ Wrap > 0
    BY DEF Wrap
  <2>3. d.dirty_blocks = c.dirty_blocks /\ d.image = c.image /\ d.failed = c.failed
    BY DEF Alike, SameStore
  <2> QED BY <2>1, <2>2, <2>3
<1> HIDE DEF at
<1>1. CASE addr \in DOMAIN c.dirty_blocks
  <2>1. SectorResponse(c.dirty_blocks[addr]) \in Seq(Byte)
    BY <1>1, Blocks, SectorAnswer
  <2> QED BY <1>0, <1>1, <2>1, ReadDirty, LoadAlike
<1>2. CASE addr \notin DOMAIN c.dirty_blocks /\ c.failed
  BY <1>0, <1>2, ReadFailed
<1>3. CASE addr \notin DOMAIN c.dirty_blocks /\ ~c.failed /\ at >= Len(c.image)
  <2>1. Alike([c EXCEPT !.failed = TRUE], [d EXCEPT !.failed = TRUE])
    BY Fails DEF Alike, SameWrite, SameStore
  <2> QED BY <1>0, <1>3, <2>1, ReadBeyond DEF at
<1>4. CASE addr \notin DOMAIN c.dirty_blocks /\ ~c.failed /\ ~(at >= Len(c.image))
  <2>1. at \in 0..(Len(c.image) - 1)
    BY <1>0, <1>4
  <2>2. SectorResponse(c.image[at + 1]) \in Seq(Byte)
    BY <2>1, Blocks, SectorAnswer
  <2> QED BY <1>0, <1>4, <2>2, ReadImage, LoadAlike DEF at
<1> QED BY <1>1, <1>2, <1>3, <1>4

LEMMA WriteTyped ==
  ASSUME NEW c \in CardSet, NEW addr \in Nat
  PROVE  LET r == AcceptWrite(c, addr)
         IN /\ Becomes(r, c) /\ SameStore(r, c)
            /\ r.awaiting_write_block = TRUE /\ r.cmd24_seen_token = FALSE
            /\ r.pending_write_addr = addr
            /\ r.write_payload = <<>> /\ r.mosi_queue = c.mosi_queue
            /\ r.miso_queue = c.miso_queue \o <<255, 0>>
<1> DEFINE x == load_response(c, <<255, 0>>)
<1>1. <<255, 0>> \in Seq(Byte)
  BY DEF Byte
<1>2. /\ x \in CardSet /\ SameWires(x, c) /\ SameStore(x, c)
      /\ x.mosi_queue = c.mosi_queue /\ x.miso_queue = c.miso_queue \o <<255, 0>>
  <2> DEFINE resp == <<255, 0>>
  <2>1. resp \in Seq(Byte)
    BY <1>1
  <2> HIDE DEF resp
  <2>2. LET y == load_response(c, resp)
        IN /\ y \in CardSet /\ SameWires(y, c) /\ SameStore(y, c)
           /\ y.mosi_queue = c.mosi_queue /\ y.miso_queue = c.miso_queue \o resp
    BY <2>1, LoadResponse DEF Becomes
  <2> QED BY <2>2 DEF resp
<1> HIDE DEF x
<1> DEFINE t == TRUE
           f == FALSE
           none == <<>>
           r == [x EXCEPT !.pending_write_addr = addr, !.awaiting_write_block = t,
                          !.cmd24_seen_token = f, !.write_payload = none]
<1>3. AcceptWrite(c, addr) = r /\ t \in BOOLEAN /\ f \in BOOLEAN
  BY DEF AcceptWrite, x
<1>4. none \in Seq(Byte)
  OBVIOUS
<1> HIDE DEF t, f, none
<1>5. r \in CardSet
  <2>1. x \in CardSet /\ t \in BOOLEAN /\ f \in BOOLEAN /\ addr \in Nat /\ none \in Seq(Byte)
    BY <1>2, <1>3, <1>4
  <2> QED BY <2>1 DEF CardSet
<1>6. SameWires(r, x)
  BY <1>2 DEF CardSet, SameWires
<1>7. SameStore(r, x)
  BY <1>2 DEF CardSet, SameStore
<1>8. /\ r.awaiting_write_block = t /\ r.cmd24_seen_token = f /\ r.pending_write_addr = addr
      /\ r.write_payload = none /\ r.mosi_queue = x.mosi_queue /\ r.miso_queue = x.miso_queue
  BY <1>2 DEF CardSet
<1> HIDE DEF r
<1>9. SameWires(r, c) /\ SameStore(r, c)
  BY <1>2, <1>6, <1>7 DEF SameWires, SameStore
<1> QED BY <1>2, <1>3, <1>5, <1>8, <1>9 DEF Becomes, t, f, none

LEMMA AddressTyped ==
  ASSUME NEW cmd \in Seq(Byte), Len(cmd) = 6 PROVE Address(cmd) \in Nat
<1>1. cmd[2] \in Byte /\ cmd[3] \in Byte /\ cmd[4] \in Byte /\ cmd[5] \in Byte
  OBVIOUS
<1>2. \A x \in Byte : x \in Nat
  BY DEF Byte
<1> QED BY <1>1, <1>2, SMTT(40) DEF Address

LEMMA ObeyTyped ==
  ASSUME NEW c \in CardSet, NEW cmd \in Seq(Byte), Len(cmd) = 6
  PROVE  LET r == Obey(c, cmd) IN r \in CardSet /\ SameWires(r, c)
<1>1. CASE cmd \in Known
  <2>1. Obey(c, cmd) = load_response(c, Response(cmd))
    BY <1>1 DEF Obey
  <2> QED BY <1>1, <2>1, Answering, LoadResponse DEF Becomes
<1>2. CASE cmd \notin Known /\ cmd[1] = 81 /\ cmd[6] = 1
  <2>1. Obey(c, cmd) = load_response_cmd17(c, Address(cmd))
    BY <1>2 DEF Obey
  <2> QED BY <2>1, ReadTyped, AddressTyped
<1>3. CASE cmd \notin Known /\ cmd[1] = 88
  <2>1. Obey(c, cmd) = AcceptWrite(c, Address(cmd))
    BY <1>3 DEF Obey
  <2> QED BY <2>1, WriteTyped, AddressTyped DEF Becomes
<1>4. CASE cmd \notin Known /\ ~(cmd[1] = 81 /\ cmd[6] = 1) /\ cmd[1] # 88
  BY <1>4 DEF Obey, SameWires
<1> QED BY <1>1, <1>2, <1>3, <1>4

LEMMA ObeyAlike ==
  ASSUME NEW c \in CardSet, NEW d \in CardSet, Alike(c, d), NEW cmd \in Seq(Byte), Len(cmd) = 6
  PROVE  Alike(Obey(c, cmd), Obey(d, cmd))
<1>1. CASE cmd \in Known
  <2>1. Obey(c, cmd) = load_response(c, Response(cmd)) /\ Obey(d, cmd) = load_response(d, Response(cmd))
    BY <1>1 DEF Obey
  <2> QED BY <1>1, <2>1, Answering, LoadAlike
<1>2. CASE cmd \notin Known /\ cmd[1] = 81 /\ cmd[6] = 1
  <2>1. /\ Obey(c, cmd) = load_response_cmd17(c, Address(cmd))
        /\ Obey(d, cmd) = load_response_cmd17(d, Address(cmd))
    BY <1>2 DEF Obey
  <2> QED BY <2>1, ReadAlike, AddressTyped
<1>3. CASE cmd \notin Known /\ cmd[1] = 88
  <2>1. Obey(c, cmd) = AcceptWrite(c, Address(cmd)) /\ Obey(d, cmd) = AcceptWrite(d, Address(cmd))
    BY <1>3 DEF Obey
  <2>2. Alike(AcceptWrite(c, Address(cmd)), AcceptWrite(d, Address(cmd)))
    <3> DEFINE a == Address(cmd)
               x == AcceptWrite(c, a)
               y == AcceptWrite(d, a)
    <3>1. a \in Nat
      BY AddressTyped
    <3> HIDE DEF a
    <3>2. /\ SameStore(x, c) /\ x.mosi_queue = c.mosi_queue /\ x.miso_queue = c.miso_queue \o <<255, 0>>
          /\ x.awaiting_write_block = TRUE /\ x.cmd24_seen_token = FALSE /\ x.pending_write_addr = a
          /\ x.write_payload = <<>>
      BY <3>1, WriteTyped, ZenonT(60)
    <3>3. /\ SameStore(y, d) /\ y.mosi_queue = d.mosi_queue /\ y.miso_queue = d.miso_queue \o <<255, 0>>
          /\ y.awaiting_write_block = TRUE /\ y.cmd24_seen_token = FALSE /\ y.pending_write_addr = a
          /\ y.write_payload = <<>>
      BY <3>1, WriteTyped, ZenonT(60)
    <3> HIDE DEF x, y
    <3>4. SameStore(x, y) /\ x.mosi_queue = y.mosi_queue /\ x.miso_queue = y.miso_queue
      BY <3>2, <3>3 DEF Alike, SameStore
    <3>5. SameWrite(x, y)
      BY <3>2, <3>3 DEF SameWrite
    <3> QED BY <3>4, <3>5 DEF x, y, a, Alike
  <2> QED BY <2>1, <2>2
<1>4. CASE cmd \notin Known /\ ~(cmd[1] = 81 /\ cmd[6] = 1) /\ cmd[1] # 88
  BY <1>4 DEF Obey
<1> QED BY <1>1, <1>2, <1>3, <1>4

----------------------------------------------------------------------------
(* The bytes of a write.                                                      *)
StoredImage(c, block) ==
  IF c.read_only THEN c.image ELSE Written(c, c.pending_write_addr, block)
StoredBlocks(c, block) ==
  IF c.read_only THEN Keep(c.dirty_blocks, c.pending_write_addr, block) ELSE c.dirty_blocks

LEMMA WrittenTyped ==
  ASSUME NEW c \in CardSet, NEW addr \in Nat, NEW block \in HeldSectors
  PROVE  Written(c, addr, block) \in Seq(HeldSectors)
<1> DEFINE img == c.image
           n == IF addr < Len(img) THEN Len(img) ELSE addr + 1
           w == [k \in 1..n |-> IF k = addr + 1 THEN block ELSE IF k <= Len(img) THEN img[k] ELSE Zeros]
<1>1. img \in Seq(HeldSectors) /\ Zeros \in HeldSectors
  BY HeldBytes DEF CardSet
<1>2. Written(c, addr, block) = IF c.failed THEN img ELSE w
  BY Zenon DEF Written
<1> HIDE DEF img
<1>3. n \in Nat
  BY <1>1
<1> HIDE DEF n
<1>4. \A k \in 1..n : (IF k = addr + 1 THEN block ELSE IF k <= Len(img) THEN img[k] ELSE Zeros) \in HeldSectors
  <2>1. \A k \in 1..n : k <= Len(img) => img[k] \in HeldSectors
    BY <1>1, <1>3
  <2> QED BY <1>1, <2>1
<1>5. w \in [1..n -> HeldSectors]
  BY <1>4
<1>6. w \in Seq(HeldSectors)
  <2> HIDE DEF w
  <2> QED BY <1>3, <1>5
<1> QED BY <1>1, <1>2, <1>6

LEMMA KeepTyped ==
  ASSUME NEW blocks \in BlockMaps, NEW addr \in Nat, NEW block \in HeldSectors
  PROVE  Keep(blocks, addr, block) \in BlockMaps
<1>1. PICK S \in SUBSET Nat : blocks \in [S -> HeldSectors]
  BY DEF BlockMaps
<1>2. DOMAIN blocks = S /\ S \cup {addr} \in SUBSET Nat
  BY <1>1
<1>3. Keep(blocks, addr, block) \in [S \cup {addr} -> HeldSectors]
  BY <1>1, <1>2 DEF Keep
<1> QED BY <1>2, <1>3 DEF BlockMaps

LEMMA StoreBlockTyped ==
  ASSUME NEW c \in CardSet, NEW block \in HeldSectors, block = SubSeq(c.write_payload, 1, SECTOR)
  PROVE  LET d == StoreBlock(c)
         IN /\ Becomes(d, c) /\ SameWrite(d, c) /\ d.present = c.present
            /\ d.mosi_queue = c.mosi_queue /\ d.miso_queue = c.miso_queue
            /\ d.failed = c.failed /\ d.read_only = c.read_only
            /\ d.image = StoredImage(c, block) /\ d.dirty_blocks = StoredBlocks(c, block)
<1> DEFINE addr == c.pending_write_addr
           w == Written(c, addr, block)
           b == Keep(c.dirty_blocks, addr, block)
<1>1. addr \in Nat /\ c.dirty_blocks \in BlockMaps
  BY DEF CardSet
<1>2. w \in Seq(HeldSectors) /\ b \in BlockMaps
  BY <1>1, WrittenTyped, KeepTyped
<1> HIDE DEF w, b
<1>3. CASE c.read_only
  <2> DEFINE d == [c EXCEPT !.dirty_blocks = b]
  <2>1. StoreBlock(c) = d
    BY <1>3 DEF StoreBlock, b
  <2>2. d \in CardSet
    BY <1>2 DEF CardSet
  <2>3. SameWires(d, c) /\ SameWrite(d, c)
    BY DEF CardSet, SameWires, SameWrite
  <2>4. /\ d.present = c.present
        /\ d.mosi_queue = c.mosi_queue /\ d.miso_queue = c.miso_queue
        /\ d.failed = c.failed /\ d.read_only = c.read_only
        /\ d.image = c.image /\ d.dirty_blocks = b
    BY DEF CardSet
  <2> HIDE DEF d
  <2>5. StoredImage(c, block) = c.image /\ StoredBlocks(c, block) = b
    BY <1>3 DEF StoredImage, StoredBlocks, b
  <2> QED BY <2>1, <2>2, <2>3, <2>4, <2>5 DEF Becomes
<1>4. CASE ~c.read_only
  <2> DEFINE d == [c EXCEPT !.image = w]
  <2>1. StoreBlock(c) = d
    BY <1>4 DEF StoreBlock, w
  <2>2. d \in CardSet
    BY <1>2 DEF CardSet
  <2>3. SameWires(d, c) /\ SameWrite(d, c)
    BY DEF CardSet, SameWires, SameWrite
  <2>4. /\ d.present = c.present
        /\ d.mosi_queue = c.mosi_queue /\ d.miso_queue = c.miso_queue
        /\ d.failed = c.failed /\ d.read_only = c.read_only
        /\ d.image = w /\ d.dirty_blocks = c.dirty_blocks
    BY DEF CardSet
  <2> HIDE DEF d
  <2>5. StoredImage(c, block) = w /\ StoredBlocks(c, block) = c.dirty_blocks
    BY <1>4 DEF StoredImage, StoredBlocks, w
  <2> QED BY <2>1, <2>2, <2>3, <2>4, <2>5 DEF Becomes
<1> QED BY <1>3, <1>4

TokenTaken(d, c, value) ==
  /\ Becomes(d, c) /\ SameStore(d, c)
  /\ d.mosi_queue = c.mosi_queue /\ d.miso_queue = c.miso_queue
  /\ d.awaiting_write_block = c.awaiting_write_block /\ d.cmd24_seen_token = (value = 254)
  /\ d.pending_write_addr = c.pending_write_addr /\ d.write_payload = c.write_payload

LEMMA PayloadToken ==
  ASSUME NEW c \in CardSet, NEW value \in Byte, ~c.cmd24_seen_token
  PROVE  TokenTaken(PayloadByte(c, value), c, value)
<1> DEFINE t == value = 254
           d == [c EXCEPT !.cmd24_seen_token = t]
<1>1. PayloadByte(c, value) = d
  BY DEF PayloadByte
<1>2. t \in BOOLEAN
  OBVIOUS
<1> HIDE DEF t
<1>3. d \in CardSet
  BY <1>2 DEF CardSet
<1>4. SameWires(d, c) /\ SameStore(d, c)
  BY DEF CardSet, SameWires, SameStore
<1>5. /\ d.mosi_queue = c.mosi_queue /\ d.miso_queue = c.miso_queue
      /\ d.awaiting_write_block = c.awaiting_write_block /\ d.cmd24_seen_token = t
      /\ d.pending_write_addr = c.pending_write_addr /\ d.write_payload = c.write_payload
  BY DEF CardSet
<1> HIDE DEF d
<1>6. TokenTaken(d, c, value)
  BY <1>3, <1>4, <1>5 DEF TokenTaken, Becomes, t
<1> QED BY <1>1, <1>6

(* The payload with a byte more.                                              *)
ByteTaken(d, c, value) ==
  /\ Becomes(d, c) /\ SameStore(d, c)
  /\ d.mosi_queue = c.mosi_queue /\ d.miso_queue = c.miso_queue
  /\ d.awaiting_write_block = c.awaiting_write_block
  /\ d.cmd24_seen_token = c.cmd24_seen_token
  /\ d.pending_write_addr = c.pending_write_addr
  /\ d.write_payload = Append(c.write_payload, value)
  /\ Len(d.write_payload) = Len(c.write_payload) + 1

LEMMA Longer ==
  ASSUME NEW c \in CardSet, NEW value \in Byte
  PROVE  ByteTaken([c EXCEPT !.write_payload = Append(@, value)], c, value)
<1> DEFINE p == Append(c.write_payload, value)
           d == [c EXCEPT !.write_payload = p]
<1>1. c.write_payload \in Seq(Byte)
  BY DEF CardSet
<1>2. p \in Seq(Byte) /\ Len(p) = Len(c.write_payload) + 1
  BY <1>1
<1>3. [c EXCEPT !.write_payload = Append(@, value)] = d
  BY DEF CardSet
<1> HIDE DEF p
<1>4. d \in CardSet
  BY <1>2 DEF CardSet
<1>5. SameWires(d, c) /\ SameStore(d, c)
  BY DEF CardSet, SameWires, SameStore
<1>6. /\ d.mosi_queue = c.mosi_queue /\ d.miso_queue = c.miso_queue
      /\ d.awaiting_write_block = c.awaiting_write_block /\ d.cmd24_seen_token = c.cmd24_seen_token
      /\ d.pending_write_addr = c.pending_write_addr /\ d.write_payload = p
  BY DEF CardSet
<1> HIDE DEF d
<1>7. ByteTaken(d, c, value)
  BY <1>2, <1>4, <1>5, <1>6 DEF ByteTaken, Becomes, p
<1> QED BY <1>3, <1>7

LEMMA PayloadMiddle ==
  ASSUME NEW c \in CardSet, NEW value \in Byte, c.cmd24_seen_token,
         Len(c.write_payload) + 1 < SECTOR + 2
  PROVE  ByteTaken(PayloadByte(c, value), c, value)
<1> DEFINE d == [c EXCEPT !.write_payload = Append(@, value)]
<1>1. ByteTaken(d, c, value)
  BY Longer
<1> HIDE DEF d
<1>2. Len(d.write_payload) < SECTOR + 2
  BY <1>1 DEF ByteTaken
<1>3. PayloadByte(c, value) = d
  BY <1>2 DEF PayloadByte, d
<1> QED BY <1>1, <1>3

LEMMA PayloadLast ==
  ASSUME NEW c \in CardSet, NEW value \in Byte, c.cmd24_seen_token,
         Len(c.write_payload) = SECTOR + 1,
         NEW block \in HeldSectors, block = SubSeq(c.write_payload, 1, SECTOR)
  PROVE  LET d == PayloadByte(c, value)
         IN /\ Becomes(d, c) /\ d.present = c.present
            /\ d.mosi_queue = c.mosi_queue /\ d.miso_queue = c.miso_queue \o Accepting
            /\ d.awaiting_write_block = FALSE /\ d.cmd24_seen_token = FALSE
            /\ d.pending_write_addr = c.pending_write_addr /\ d.write_payload = <<>>
            /\ d.failed = c.failed /\ d.read_only = c.read_only
            /\ d.image = StoredImage(c, block) /\ d.dirty_blocks = StoredBlocks(c, block)
<1> DEFINE x == [c EXCEPT !.write_payload = Append(@, value)]
           y == StoreBlock(x)
           z == load_response(y, Accepting)
           f == FALSE
           none == <<>>
           d == [z EXCEPT !.awaiting_write_block = f, !.cmd24_seen_token = f, !.write_payload = none]
<1>1. /\ x \in CardSet /\ SameWires(x, c) /\ SameStore(x, c)
      /\ x.mosi_queue = c.mosi_queue /\ x.miso_queue = c.miso_queue
      /\ x.pending_write_addr = c.pending_write_addr
      /\ x.write_payload = Append(c.write_payload, value)
      /\ Len(x.write_payload) = SECTOR + 2
  <2>1. SECTOR + 1 + 1 = SECTOR + 2
    BY CardAssumption DEF CardAssumption
  <2>2. ByteTaken(x, c, value)
    BY Longer
  <2> HIDE DEF x
  <2> QED BY <2>1, <2>2 DEF ByteTaken, Becomes
<1>2. PayloadByte(c, value) = d
  <2>1. ~(Len(x.write_payload) < SECTOR + 2)
    BY <1>1, CardAssumption DEF CardAssumption
  <2> HIDE DEF x
  <2> QED BY <2>1 DEF PayloadByte, x, Accepting
<1> HIDE DEF x
<1>3. SubSeq(x.write_payload, 1, SECTOR) = block
  <2> DEFINE p == c.write_payload
             q == x.write_payload
  <2>1. p \in Seq(Byte) /\ Len(p) = SECTOR + 1 /\ q = Append(p, value) /\ block = SubSeq(p, 1, SECTOR)
    BY <1>1 DEF CardSet
  <2> HIDE DEF p, q
  <2>2. SubSeq(q, 1, SECTOR) = SubSeq(p, 1, SECTOR)
    <3>1. SubSeq(q, 1, SECTOR) \in Seq(Byte) /\ SubSeq(p, 1, SECTOR) \in Seq(Byte)
      BY <2>1, CardAssumption DEF CardAssumption
    <3>2. Len(SubSeq(q, 1, SECTOR)) = SECTOR /\ Len(SubSeq(p, 1, SECTOR)) = SECTOR
      BY <2>1, CardAssumption DEF CardAssumption
    <3>3. \A k \in 1..SECTOR : SubSeq(q, 1, SECTOR)[k] = SubSeq(p, 1, SECTOR)[k]
      BY <2>1, CardAssumption DEF CardAssumption
    <3> QED BY <3>1, <3>2, <3>3, SeqEqual
  <2> QED BY <2>1, <2>2 DEF q
<1>4. /\ y \in CardSet /\ SameWires(y, x) /\ SameWrite(y, x) /\ y.present = x.present
      /\ y.mosi_queue = x.mosi_queue /\ y.miso_queue = x.miso_queue
      /\ y.failed = x.failed /\ y.read_only = x.read_only
      /\ y.image = StoredImage(x, block) /\ y.dirty_blocks = StoredBlocks(x, block)
  BY <1>1, <1>3, StoreBlockTyped DEF Becomes
<1>5. StoredImage(x, block) = StoredImage(c, block) /\ StoredBlocks(x, block) = StoredBlocks(c, block)
  BY <1>1 DEF StoredImage, StoredBlocks, Written, SameStore
<1> HIDE DEF y
<1>6. Accepting \in Seq(Byte)
  BY DEF Accepting, Byte
<1>7. /\ z \in CardSet /\ SameWires(z, y) /\ SameWrite(z, y) /\ SameStore(z, y)
      /\ z.mosi_queue = y.mosi_queue /\ z.miso_queue = y.miso_queue \o Accepting
  BY <1>4, <1>6, LoadResponse DEF Becomes
<1> HIDE DEF z
<1>8. f \in BOOLEAN /\ none \in Seq(Byte)
  OBVIOUS
<1> HIDE DEF f, none
<1>9. d \in CardSet
  BY <1>7, <1>8 DEF CardSet
<1>10. SameWires(d, z) /\ SameStore(d, z)
  BY <1>7 DEF CardSet, SameWires, SameStore
<1>11. /\ d.mosi_queue = z.mosi_queue /\ d.miso_queue = z.miso_queue
       /\ d.awaiting_write_block = f /\ d.cmd24_seen_token = f
       /\ d.pending_write_addr = z.pending_write_addr /\ d.write_payload = none
  BY <1>7 DEF CardSet
<1> HIDE DEF d
<1>12. SameWires(d, c)
  BY <1>1, <1>4, <1>7, <1>10 DEF SameWires
<1>13. /\ d.present = c.present /\ d.failed = c.failed /\ d.read_only = c.read_only
       /\ d.image = StoredImage(c, block) /\ d.dirty_blocks = StoredBlocks(c, block)
  BY <1>1, <1>4, <1>5, <1>7, <1>10 DEF SameStore
<1>14. /\ d.mosi_queue = c.mosi_queue /\ d.miso_queue = c.miso_queue \o Accepting
       /\ d.pending_write_addr = c.pending_write_addr
  BY <1>1, <1>4, <1>7, <1>11 DEF SameWrite
<1> QED BY <1>2, <1>9, <1>11, <1>12, <1>13, <1>14 DEF Becomes, f, none

LEMMA PayloadTyped ==
  ASSUME NEW c \in CardSet, NEW value \in Byte, c.awaiting_write_block,
         Len(c.write_payload) < SECTOR + 2, Storable(c)
  PROVE  Becomes(PayloadByte(c, value), c)
<1>1. Len(c.write_payload) \in Nat /\ SECTOR \in Nat
  <2>1. c.write_payload \in Seq(Byte)
    BY DEF CardSet
  <2> QED BY <2>1, CardAssumption DEF CardAssumption
<1>2. CASE ~c.cmd24_seen_token
  BY <1>2, PayloadToken DEF TokenTaken
<1>3. CASE c.cmd24_seen_token /\ Len(c.write_payload) + 1 < SECTOR + 2
  BY <1>3, PayloadMiddle DEF ByteTaken
<1>4. CASE c.cmd24_seen_token /\ ~(Len(c.write_payload) + 1 < SECTOR + 2)
  <2>1. Len(c.write_payload) = SECTOR + 1
    BY <1>1, <1>4
  <2>2. SubSeq(c.write_payload, 1, SECTOR) \in HeldSectors
    BY <1>1, <2>1, HeldBytes DEF Storable
  <2> QED BY <1>4, <2>1, <2>2, PayloadLast
<1> QED BY <1>2, <1>3, <1>4

LEMMA PayloadAlike ==
  ASSUME NEW c \in CardSet, NEW d \in CardSet, Alike(c, d), NEW value \in Byte,
         c.awaiting_write_block, Len(c.write_payload) < SECTOR + 2, Storable(c)
  PROVE  Alike(PayloadByte(c, value), PayloadByte(d, value))
<1>1. Len(c.write_payload) \in Nat /\ SECTOR \in Nat
  <2>1. c.write_payload \in Seq(Byte)
    BY DEF CardSet
  <2> QED BY <2>1, CardAssumption DEF CardAssumption
<1>2. SameWrite(c, d) /\ SameStore(c, d) /\ c.mosi_queue = d.mosi_queue /\ c.miso_queue = d.miso_queue
  BY DEF Alike
<1>3. /\ c.cmd24_seen_token \in BOOLEAN /\ d.cmd24_seen_token = c.cmd24_seen_token
      /\ d.write_payload = c.write_payload /\ d.awaiting_write_block = c.awaiting_write_block
      /\ d.pending_write_addr = c.pending_write_addr
  BY <1>2 DEF SameWrite, CardSet
<1> DEFINE x == PayloadByte(c, value)
           y == PayloadByte(d, value)
<1>4. CASE ~c.cmd24_seen_token
  <2>1. TokenTaken(x, c, value) /\ TokenTaken(y, d, value)
    BY <1>3, <1>4, PayloadToken
  <2> HIDE DEF x, y
  <2>2. SameStore(x, y) /\ SameWrite(x, y)
    BY <1>2, <1>3, <2>1 DEF SameStore, SameWrite, TokenTaken
  <2> QED BY <1>2, <2>1, <2>2 DEF Alike, TokenTaken, x, y
<1>5. CASE c.cmd24_seen_token /\ Len(c.write_payload) + 1 < SECTOR + 2
  <2>1. ByteTaken(x, c, value) /\ ByteTaken(y, d, value)
    BY <1>3, <1>5, PayloadMiddle
  <2> HIDE DEF x, y
  <2>2. SameStore(x, y) /\ SameWrite(x, y)
    BY <1>2, <1>3, <2>1 DEF SameStore, SameWrite, ByteTaken
  <2> QED BY <1>2, <2>1, <2>2 DEF Alike, ByteTaken, x, y
<1>6. CASE c.cmd24_seen_token /\ ~(Len(c.write_payload) + 1 < SECTOR + 2)
  <2> DEFINE block == SubSeq(c.write_payload, 1, SECTOR)
  <2>1. Len(c.write_payload) = SECTOR + 1
    BY <1>1, <1>6
  <2>2. block \in HeldSectors
    BY <1>1, <2>1, HeldBytes DEF Storable
  <2>3. block = SubSeq(d.write_payload, 1, SECTOR)
    BY <1>3
  <2>4. block = SubSeq(c.write_payload, 1, SECTOR)
    OBVIOUS
  <2> HIDE DEF block
  <2>5. /\ x.present = c.present
        /\ x.mosi_queue = c.mosi_queue /\ x.miso_queue = c.miso_queue \o Accepting
        /\ x.awaiting_write_block = FALSE /\ x.cmd24_seen_token = FALSE
        /\ x.pending_write_addr = c.pending_write_addr /\ x.write_payload = <<>>
        /\ x.failed = c.failed /\ x.read_only = c.read_only
        /\ x.image = StoredImage(c, block) /\ x.dirty_blocks = StoredBlocks(c, block)
    BY <1>6, <2>1, <2>2, <2>4, PayloadLast
  <2>6. /\ y.present = d.present
        /\ y.mosi_queue = d.mosi_queue /\ y.miso_queue = d.miso_queue \o Accepting
        /\ y.awaiting_write_block = FALSE /\ y.cmd24_seen_token = FALSE
        /\ y.pending_write_addr = d.pending_write_addr /\ y.write_payload = <<>>
        /\ y.failed = d.failed /\ y.read_only = d.read_only
        /\ y.image = StoredImage(d, block) /\ y.dirty_blocks = StoredBlocks(d, block)
    BY <1>3, <1>6, <2>1, <2>2, <2>3, PayloadLast, ZenonT(60)
  <2> HIDE DEF x, y
  <2>7. StoredImage(c, block) = StoredImage(d, block) /\ StoredBlocks(c, block) = StoredBlocks(d, block)
    BY <1>2, <1>3 DEF StoredImage, StoredBlocks, Written, SameStore
  <2>8. SameStore(x, y) /\ SameWrite(x, y)
    BY <1>2, <1>3, <2>5, <2>6, <2>7, ZenonT(60) DEF SameStore, SameWrite
  <2> QED BY <1>2, <2>5, <2>6, <2>8 DEF Alike, x, y
<1> QED BY <1>4, <1>5, <1>6

----------------------------------------------------------------------------
(* A card that has just taken a byte in.                                      *)
Fed(c) ==
  /\ Len(c.mosi_queue) \in 1..6 /\ (c.awaiting_write_block => Len(c.mosi_queue) = 1)
  /\ Len(c.write_payload) < SECTOR + 2 /\ Storable(c)

LEMMA DigestTyped ==
  ASSUME NEW c \in CardSet, Fed(c)
  PROVE  Becomes(digest_sd(c), c)
<1> DEFINE q == c.mosi_queue
           e == [c EXCEPT !.mosi_queue = <<>>]
<1>1. q \in Seq(Byte) /\ <<>> \in Seq(Byte) /\ Len(q) \in 1..6
  BY DEF CardSet, Fed
<1>2. e \in CardSet /\ SameWires(e, c) /\ SameWrite(e, c)
  BY <1>1, Requeue DEF Becomes
<1>3. CASE c.awaiting_write_block
  <2>1. Len(q) = 1
    BY <1>3 DEF Fed
  <2>2. PICK b \in Byte : q = <<b>>
    <3> HIDE DEF q
    <3> QED BY <1>1, <2>1
  <2>3. digest_sd(c) = PayloadByte(e, b)
    BY <1>3, <2>2, DigestPayload
  <2> HIDE DEF e
  <2>4. e.awaiting_write_block /\ Len(e.write_payload) < SECTOR + 2 /\ Storable(e)
    BY <1>2, <1>3 DEF SameWrite, Storable, Fed
  <2>5. Becomes(PayloadByte(e, b), e)
    BY <1>2, <2>4, PayloadTyped
  <2> QED BY <1>2, <2>3, <2>5 DEF Becomes, SameWires
<1>4. CASE ~c.awaiting_write_block /\ q = <<255>>
  BY <1>2, <1>4, DigestWait DEF Becomes
<1>5. CASE ~c.awaiting_write_block /\ q # <<255>> /\ Len(q) < 6
  BY <1>1, <1>5, DigestPart DEF Becomes, SameWires
<1>6. CASE ~c.awaiting_write_block /\ Len(q) = 6
  <2>1. digest_sd(c) = Obey(e, q)
    BY <1>1, <1>6, DigestCommand
  <2> HIDE DEF e, q
  <2>2. Becomes(Obey(e, q), e)
    BY <1>1, <1>2, <1>6, ObeyTyped DEF Becomes
  <2> QED BY <1>2, <2>1, <2>2 DEF Becomes, SameWires
<1>7. Len(q) < 6 \/ Len(q) = 6
  <2> HIDE DEF q
  <2>1. Len(q) \in 1..6
    BY <1>1
  <2>2. \A n \in 1..6 : n < 6 \/ n = 6
    OBVIOUS
  <2> QED BY <2>1, <2>2, Zenon
<1> QED BY <1>3, <1>4, <1>5, <1>6, <1>7, Zenon

LEMMA DigestAlike ==
  ASSUME NEW c \in CardSet, NEW d \in CardSet, Alike(c, d), Fed(c)
  PROVE  Alike(digest_sd(c), digest_sd(d))
<1> DEFINE q == c.mosi_queue
           e == [c EXCEPT !.mosi_queue = <<>>]
           f == [d EXCEPT !.mosi_queue = <<>>]
<1>1. q \in Seq(Byte) /\ <<>> \in Seq(Byte) /\ Len(q) \in 1..6 /\ d.mosi_queue = q
  BY DEF CardSet, Fed, Alike
<1>2. /\ e \in CardSet /\ SameWrite(e, c) /\ SameStore(e, c)
      /\ e.mosi_queue = <<>> /\ e.miso_queue = c.miso_queue
  BY <1>1, Requeue DEF Becomes
<1>3. /\ f \in CardSet /\ SameWrite(f, d) /\ SameStore(f, d)
      /\ f.mosi_queue = <<>> /\ f.miso_queue = d.miso_queue
  BY <1>1, Requeue DEF Becomes
<1>4. c.awaiting_write_block = d.awaiting_write_block /\ c.miso_queue = d.miso_queue
  BY DEF Alike, SameWrite
<1>5. Alike(e, f)
  <2> HIDE DEF e, f
  <2> QED BY <1>2, <1>3 DEF Alike, SameWrite, SameStore
<1>6. CASE c.awaiting_write_block
  <2>1. Len(q) = 1
    BY <1>6 DEF Fed
  <2>2. PICK b \in Byte : q = <<b>>
    <3> HIDE DEF q
    <3> QED BY <1>1, <2>1
  <2>3. digest_sd(c) = PayloadByte(e, b) /\ digest_sd(d) = PayloadByte(f, b)
    BY <1>1, <1>4, <1>6, <2>2, DigestPayload
  <2> HIDE DEF e, f
  <2>4. e.awaiting_write_block /\ Len(e.write_payload) < SECTOR + 2 /\ Storable(e)
    BY <1>2, <1>6 DEF SameWrite, Storable, Fed
  <2> QED BY <1>2, <1>3, <1>5, <2>3, <2>4, PayloadAlike
<1>7. CASE ~c.awaiting_write_block /\ q = <<255>>
  BY <1>1, <1>4, <1>5, <1>7, DigestWait
<1>8. CASE ~c.awaiting_write_block /\ q # <<255>> /\ Len(q) < 6
  BY <1>1, <1>4, <1>8, DigestPart
<1>9. CASE ~c.awaiting_write_block /\ Len(q) = 6
  <2>1. digest_sd(c) = Obey(e, q) /\ digest_sd(d) = Obey(f, q)
    BY <1>1, <1>4, <1>9, DigestCommand
  <2> HIDE DEF e, f, q
  <2> QED BY <1>1, <1>2, <1>3, <1>5, <1>9, <2>1, ObeyAlike
<1>10. Len(q) < 6 \/ Len(q) = 6
  <2> HIDE DEF q
  <2>1. Len(q) \in 1..6
    BY <1>1
  <2>2. \A n \in 1..6 : n < 6 \/ n = 6
    OBVIOUS
  <2> QED BY <2>1, <2>2, Zenon
<1> QED BY <1>6, <1>7, <1>8, <1>9, <1>10, Zenon

----------------------------------------------------------------------------
(* One bit of a byte b, n bits of which were to go.                           *)
Halfway(c, b, n) ==
  /\ c.mosi_bit_count = 8 - n /\ c.miso_bit_count = n % 8 /\ c.mosi_shift_reg = b \div 2^n
OutReg(c, n) ==
  IF n # 8 THEN c.miso_shift_reg ELSE IF c.miso_queue = <<>> THEN 255 ELSE Head(c.miso_queue)
OutQueue(c, n) == IF n = 8 THEN Without(c.miso_queue) ELSE c.miso_queue
MovesOn(d, c, b, n) ==
  /\ d.mosi_bit_count = (IF n = 1 THEN 0 ELSE 9 - n) /\ d.miso_bit_count = n - 1
  /\ d.mosi_shift_reg = (IF n = 1 THEN 0 ELSE b \div 2^(n - 1))
  /\ d.miso_bit = OutReg(c, n) \div 128 /\ d.miso_shift_reg = (2 * OutReg(c, n)) % 256
  /\ n > 1 => /\ SameWrite(d, c) /\ SameStore(d, c) /\ d.mosi_queue = c.mosi_queue
              /\ d.miso_queue = OutQueue(c, n)
  /\ n = 1 => Alike(d, AfterByte(c, b, 1))

LEMMA TakingTyped ==
  ASSUME NEW c \in CardSet, NEW b \in Byte, NEW n \in 1..8
  PROVE  LET d == Taking(c, b, n)
         IN /\ Becomes(d, c) /\ SameWrite(d, c) /\ SameStore(d, c)
            /\ d.mosi_queue = Append(c.mosi_queue, b) /\ d.miso_queue = OutQueue(c, n)
<1> DEFINE q == Append(c.mosi_queue, b)
           r == OutQueue(c, n)
           d == [c EXCEPT !.mosi_queue = q, !.miso_queue = r]
<1>1. q \in Seq(Byte) /\ r \in Seq(Byte)
  <2>1. c.mosi_queue \in Seq(Byte) /\ c.miso_queue \in Seq(Byte)
    BY DEF CardSet
  <2>2. c.miso_queue # <<>> => Tail(c.miso_queue) \in Seq(Byte)
    BY <2>1
  <2> QED BY <2>1, <2>2 DEF OutQueue, Without
<1>2. Taking(c, b, n) = d
  BY DEF Taking, CardSet, OutQueue
<1> HIDE DEF q, r
<1>3. d \in CardSet
  BY <1>1 DEF CardSet
<1>4. SameWires(d, c) /\ SameWrite(d, c) /\ SameStore(d, c)
  BY DEF CardSet, SameWires, SameWrite, SameStore
<1>5. d.mosi_queue = q /\ d.miso_queue = r
  BY DEF CardSet
<1> HIDE DEF d
<1> QED BY <1>2, <1>3, <1>4, <1>5 DEF Becomes, q, r

LEMMA TakingFed ==
  ASSUME NEW c \in CardSet, Tame(c), NEW b \in Byte, NEW d, SameWrite(d, c),
         d.mosi_queue = Append(c.mosi_queue, b)
  PROVE  Fed(d)
<1>1. c.mosi_queue \in Seq(Byte)
  BY DEF CardSet
<1>2. Len(c.mosi_queue) < 6 /\ (c.awaiting_write_block => Len(c.mosi_queue) = 0)
  BY DEF Tame
<1>3. Len(d.mosi_queue) \in 1..6 /\ (c.awaiting_write_block => Len(d.mosi_queue) = 1)
  <2> DEFINE q == c.mosi_queue
             r == d.mosi_queue
  <2>1. q \in Seq(Byte) /\ r = Append(q, b) /\ Len(q) < 6
    BY <1>1, <1>2
  <2>2. c.awaiting_write_block => Len(q) = 0
    BY <1>2
  <2> HIDE DEF q, r
  <2>3. Len(r) = Len(q) + 1 /\ Len(q) \in Nat
    BY <2>1
  <2>4. Len(r) \in 1..6 /\ (c.awaiting_write_block => Len(r) = 1)
    BY <2>1, <2>2, <2>3
  <2> QED BY <2>4 DEF r
<1>4. d.awaiting_write_block = c.awaiting_write_block /\ d.write_payload = c.write_payload
  BY DEF SameWrite
<1>5. Len(d.write_payload) < SECTOR + 2 /\ Storable(d)
  BY <1>4 DEF Tame, Storable
<1> QED BY <1>3, <1>4, <1>5 DEF Fed

LEMMA Rises ==
  ASSUME NEW c \in CardSet, Tame(c), c.clk = 0, NEW n \in 1..8, NEW b \in Byte,
         Halfway(c, b, n), c.mosi_bit = BitOut(b, n),
         NEW p \in Ports, p.clk = 1
  PROVE  LET d == update_outputs(c, p)
         IN d \in CardSet /\ MovesOn(d, c, b, n) /\ d.cs = p.cs /\ d.mosi_bit = p.mosi
<1> DEFINE x == [c EXCEPT !.cs = p.cs]
           y == MosiIn(x)
           z == MisoOut(y)
           v == [z EXCEPT !.clk = p.clk]
           d == [v EXCEPT !.mosi_bit = p.mosi]
           reg == b \div 2^(n - 1)
<1>1. /\ x \in CardSet /\ Alike(x, c) /\ x.cs = p.cs /\ x.clk = 0 /\ x.mosi_bit = c.mosi_bit
      /\ x.mosi_bit_count = c.mosi_bit_count /\ x.miso_bit_count = c.miso_bit_count
      /\ x.mosi_shift_reg = c.mosi_shift_reg /\ x.miso_shift_reg = c.miso_shift_reg
  <2>1. x \in CardSet
    BY DEF CardSet, Ports
  <2>2. Alike(x, c)
    BY DEF CardSet, Alike, SameWrite, SameStore
  <2>3. /\ x.cs = p.cs /\ x.clk = c.clk /\ x.mosi_bit = c.mosi_bit
        /\ x.mosi_bit_count = c.mosi_bit_count /\ x.miso_bit_count = c.miso_bit_count
        /\ x.mosi_shift_reg = c.mosi_shift_reg /\ x.miso_shift_reg = c.miso_shift_reg
    BY DEF CardSet
  <2> QED BY <2>1, <2>2, <2>3
<1>2. update_outputs(c, p) = d
  BY <1>1 DEF update_outputs, set_clk
<1> HIDE DEF x
<1>3. ((2 * x.mosi_shift_reg) % 256) + x.mosi_bit = reg /\ (n = 1 => reg = b) /\ reg \in Byte
  <2>1. x.mosi_shift_reg = b \div 2^n /\ x.mosi_bit = BitOut(b, n)
    BY <1>1 DEF Halfway
  <2>2. b \div 2^n \in 0..127 /\ BitOut(b, n) \in {0, 1} /\ reg = 2 * (b \div 2^n) + BitOut(b, n)
    BY BitGoesOut DEF Bit
  <2>3. n = 1 => reg = b
    BY BitGoesOut
  <2> DEFINE h == b \div 2^n
             m == BitOut(b, n)
  <2> HIDE DEF h, m, reg
  <2>4. h \in 0..127 /\ m \in {0, 1} /\ reg = 2 * h + m
    BY <2>2 DEF h, m
  <2>5. ((2 * h) % 256) + m = reg /\ reg \in Byte
    BY <2>4 DEF Byte
  <2> QED BY <2>1, <2>3, <2>5 DEF h, m
<1> HIDE DEF reg
<1>4. y \in CardSet /\ y.cs = x.cs /\ y.miso_shift_reg = x.miso_shift_reg
      /\ y.miso_bit_count = x.miso_bit_count
      /\ y.mosi_bit_count = (IF n = 1 THEN 0 ELSE 9 - n) /\ y.mosi_shift_reg = (IF n = 1 THEN 0 ELSE reg)
      /\ (n > 1 => Alike(y, x)) /\ (n = 1 => Alike(y, AfterByte(c, b, 1)))
  <2>1. CASE n > 1
    <3>1. x.mosi_bit_count = 8 - n /\ x.mosi_bit_count < 7
      BY <1>1, <2>1 DEF Halfway
    <3>2. /\ y \in CardSet /\ Alike(y, x) /\ y.mosi_bit_count = x.mosi_bit_count + 1
          /\ y.mosi_shift_reg = ((2 * x.mosi_shift_reg) % 256) + x.mosi_bit
          /\ y.cs = x.cs /\ y.miso_shift_reg = x.miso_shift_reg /\ y.miso_bit_count = x.miso_bit_count
      BY <1>1, <3>1, BitIn
    <3> HIDE DEF y
    <3>3. 8 - n + 1 = 9 - n
      BY <2>1
    <3> QED BY <1>3, <2>1, <3>1, <3>2, <3>3
  <2>2. CASE n = 1
    <3> DEFINE q == Append(x.mosi_queue, b)
               zero == 0
               w == [x EXCEPT !.mosi_queue = q, !.mosi_bit_count = zero, !.mosi_shift_reg = zero]
               t == Taking(c, b, 1)
    <3>1. x.mosi_bit_count = 7
      BY <1>1, <2>2 DEF Halfway
    <3>2. y = digest_sd(w)
      BY <1>1, <1>3, <2>2, <3>1 DEF MosiIn, CardSet
    <3>3. q \in Seq(Byte)
      <4>1. x.mosi_queue \in Seq(Byte)
        BY <1>1 DEF CardSet
      <4> QED BY <4>1
    <3> HIDE DEF q, zero
    <3>4. w \in CardSet
      <4>1. zero \in Byte /\ zero \in 0..7
        BY DEF Byte, zero
      <4> QED BY <1>1, <3>3, <4>1 DEF CardSet
    <3>5. SameWrite(w, x) /\ SameStore(w, x) /\ w.mosi_queue = q /\ w.miso_queue = x.miso_queue
      BY <1>1 DEF CardSet, SameWrite, SameStore
    <3>6. /\ w.cs = x.cs /\ w.mosi_bit_count = zero /\ w.mosi_shift_reg = zero
          /\ w.miso_shift_reg = x.miso_shift_reg /\ w.miso_bit_count = x.miso_bit_count
      BY <1>1 DEF CardSet
    <3> HIDE DEF w
    <3>7. /\ t \in CardSet /\ SameWrite(t, c) /\ SameStore(t, c)
          /\ t.mosi_queue = Append(c.mosi_queue, b) /\ t.miso_queue = c.miso_queue
      BY TakingTyped DEF Becomes, OutQueue
    <3> HIDE DEF t
    <3>8. Fed(w)
      <4>1. SameWrite(w, c) /\ w.mosi_queue = Append(c.mosi_queue, b)
        BY <1>1, <3>5 DEF SameWrite, Alike, q
      <4> QED BY <4>1, TakingFed
    <3>9. Alike(w, t)
      BY <1>1, <3>5, <3>7 DEF Alike, SameWrite, SameStore, q
    <3>10. Becomes(y, w) /\ Alike(y, digest_sd(t))
      BY <3>2, <3>4, <3>7, <3>8, <3>9, DigestTyped, DigestAlike
    <3> HIDE DEF y
    <3> QED BY <2>2, <3>6, <3>10 DEF Becomes, SameWires, AfterByte, t, zero
  <2>3. n = 1 \/ n > 1
    OBVIOUS
  <2> QED BY <2>1, <2>2, <2>3
<1> HIDE DEF y
<1>5. n % 8 = IF n = 8 THEN 0 ELSE n
  OBVIOUS
<1>6. y.miso_bit_count = (IF n = 8 THEN 0 ELSE n) /\ (y.miso_bit_count = 0 <=> n = 8)
  BY <1>1, <1>4, <1>5 DEF Halfway
<1>7. n > 1 => y.miso_queue = c.miso_queue
  BY <1>1, <1>4 DEF Alike
<1>8. (IF y.miso_bit_count # 0 THEN y.miso_shift_reg ELSE IF y.miso_queue = <<>> THEN 255 ELSE Head(y.miso_queue)) = OutReg(c, n)
  BY <1>1, <1>4, <1>6, <1>7 DEF OutReg
<1>9. /\ z \in CardSet
      /\ SameWrite(z, y) /\ SameStore(z, y) /\ z.mosi_queue = y.mosi_queue
      /\ z.miso_queue = IF y.miso_bit_count = 0 THEN Without(y.miso_queue) ELSE y.miso_queue
      /\ z.miso_bit = OutReg(c, n) \div 128 /\ z.miso_shift_reg = (2 * OutReg(c, n)) % 256
      /\ z.miso_bit_count = (IF y.miso_bit_count = 0 THEN 8 ELSE y.miso_bit_count) - 1
      /\ z.cs = y.cs /\ z.mosi_shift_reg = y.mosi_shift_reg /\ z.mosi_bit_count = y.mosi_bit_count
  <2> DEFINE out == OutReg(c, n)
  <2> HIDE DEF out
  <2>1. out = IF ~(y.miso_bit_count = 0) THEN y.miso_shift_reg ELSE IF y.miso_queue = <<>> THEN 255 ELSE Head(y.miso_queue)
    BY <1>8 DEF out
  <2>2. /\ z \in CardSet
        /\ SameWrite(z, y) /\ SameStore(z, y) /\ z.mosi_queue = y.mosi_queue
        /\ z.miso_queue = IF y.miso_bit_count = 0 THEN Without(y.miso_queue) ELSE y.miso_queue
        /\ z.miso_bit = out \div 128 /\ z.miso_shift_reg = (2 * out) % 256
        /\ z.miso_bit_count = (IF y.miso_bit_count = 0 THEN 8 ELSE y.miso_bit_count) - 1
        /\ z.cs = y.cs /\ z.mosi_shift_reg = y.mosi_shift_reg /\ z.mosi_bit_count = y.mosi_bit_count
    BY <1>4, <2>1, BitOff
  <2> QED BY <2>2 DEF out
<1> HIDE DEF z
<1>10. v \in CardSet /\ SameWires([v EXCEPT !.clk = z.clk], z)
  <2>1. p.clk \in Bit
    BY DEF Ports
  <2>2. v \in CardSet
    BY <1>9, <2>1, ZenonT(60) DEF CardSet
  <2> QED BY <1>9, <2>2 DEF CardSet, SameWires
<1>11. d \in CardSet
  <2>1. p.mosi \in Bit
    BY DEF Ports
  <2> HIDE DEF v
  <2> QED BY <1>10, <2>1, ZenonT(60) DEF CardSet
<1>12. Alike(d, z)
  BY <1>9 DEF CardSet, Alike, SameWrite, SameStore
<1>13. /\ d.cs = z.cs /\ d.mosi_bit = p.mosi
       /\ d.mosi_bit_count = z.mosi_bit_count /\ d.miso_bit_count = z.miso_bit_count
       /\ d.mosi_shift_reg = z.mosi_shift_reg /\ d.miso_shift_reg = z.miso_shift_reg
       /\ d.miso_bit = z.miso_bit
  BY <1>9 DEF CardSet
<1> HIDE DEF d
<1>14. d.miso_bit_count = n - 1
  BY <1>6, <1>9, <1>13
<1>15. n > 1 => /\ SameWrite(d, c) /\ SameStore(d, c) /\ d.mosi_queue = c.mosi_queue
                /\ d.miso_queue = OutQueue(c, n)
  BY <1>1, <1>4, <1>6, <1>7, <1>9, <1>12 DEF Alike, SameWrite, SameStore, OutQueue
<1>16. n = 1 => Alike(d, AfterByte(c, b, 1))
  <2> DEFINE a == AfterByte(c, b, 1)
  <2>1. n = 1 => Alike(y, a) /\ z.miso_queue = y.miso_queue
    BY <1>4, <1>6, <1>9
  <2> HIDE DEF a
  <2>2. n = 1 => Alike(d, a)
    BY <1>9, <1>12, <2>1 DEF Alike, SameWrite, SameStore
  <2> QED BY <2>2 DEF a
<1>17. MovesOn(d, c, b, n)
  BY <1>4, <1>9, <1>13, <1>14, <1>15, <1>16 DEF MovesOn, reg
<1> QED BY <1>1, <1>2, <1>4, <1>9, <1>11, <1>13, <1>17

(* The falling clocks around it change none of that.                          *)
LEMMA Clocked ==
  ASSUME NEW c \in CardSet, Tame(c), NEW x \in CardSet, SameButLines(x, c),
         NEW b \in Byte, NEW n \in 1..8, NEW d, MovesOn(d, x, b, n)
  PROVE  MovesOn(d, c, b, n)
<1>1. Alike(x, c) /\ x.miso_shift_reg = c.miso_shift_reg
  BY DEF SameButLines
<1>2. OutReg(x, n) = OutReg(c, n) /\ OutQueue(x, n) = OutQueue(c, n)
  BY <1>1 DEF OutReg, OutQueue, Alike
<1>3. n > 1 => /\ SameWrite(d, c) /\ SameStore(d, c) /\ d.mosi_queue = c.mosi_queue
               /\ d.miso_queue = OutQueue(c, n)
  <2>1. n > 1 => /\ SameWrite(d, x) /\ SameStore(d, x) /\ d.mosi_queue = x.mosi_queue
                 /\ d.miso_queue = OutQueue(x, n)
    BY DEF MovesOn
  <2> QED BY <1>1, <1>2, <2>1 DEF Alike, SameWrite, SameStore
<1>4. n = 1 => Alike(d, AfterByte(c, b, 1))
  <2> DEFINE s == Taking(x, b, 1)
             t == Taking(c, b, 1)
  <2>1. /\ s \in CardSet /\ SameWrite(s, x) /\ SameStore(s, x)
        /\ s.mosi_queue = Append(x.mosi_queue, b) /\ s.miso_queue = x.miso_queue
    BY TakingTyped DEF Becomes, OutQueue
  <2>2. /\ t \in CardSet /\ SameWrite(t, c) /\ SameStore(t, c)
        /\ t.mosi_queue = Append(c.mosi_queue, b) /\ t.miso_queue = c.miso_queue
    BY TakingTyped DEF Becomes, OutQueue
  <2> HIDE DEF s, t
  <2>3. Alike(t, s)
    BY <1>1, <2>1, <2>2 DEF Alike, SameWrite, SameStore
  <2>4. Fed(t)
    BY <2>2, TakingFed
  <2>5. Alike(digest_sd(t), digest_sd(s))
    BY <2>1, <2>2, <2>3, <2>4, DigestAlike
  <2>6. n = 1 => Alike(d, digest_sd(s))
    BY DEF MovesOn, AfterByte, s
  <2>7. n = 1 => Alike(d, digest_sd(t))
    BY <2>5, <2>6 DEF Alike, SameWrite, SameStore
  <2> QED BY <2>7 DEF AfterByte, t
<1>5. /\ d.mosi_bit_count = (IF n = 1 THEN 0 ELSE 9 - n) /\ d.miso_bit_count = n - 1
      /\ d.mosi_shift_reg = (IF n = 1 THEN 0 ELSE b \div 2^(n - 1))
      /\ d.miso_bit = OutReg(x, n) \div 128 /\ d.miso_shift_reg = (2 * OutReg(x, n)) % 256
  BY DEF MovesOn
<1> QED BY <1>2, <1>3, <1>4, <1>5 DEF MovesOn

LEMMA Falls ==
  ASSUME NEW x \in CardSet, NEW d \in CardSet, SameButLines(d, x),
         NEW c, NEW b, NEW n, MovesOn(x, c, b, n)
  PROVE  MovesOn(d, c, b, n)
<1>1. /\ d.miso_bit = x.miso_bit
      /\ d.mosi_shift_reg = x.mosi_shift_reg /\ d.miso_shift_reg = x.miso_shift_reg
      /\ d.mosi_bit_count = x.mosi_bit_count /\ d.miso_bit_count = x.miso_bit_count
  BY DEF SameButLines
<1>2. Alike(d, x)
  BY DEF SameButLines
<1>3. n > 1 => /\ SameWrite(x, c) /\ SameStore(x, c) /\ x.mosi_queue = c.mosi_queue
               /\ x.miso_queue = OutQueue(c, n)
  BY DEF MovesOn
<1>4. n > 1 => /\ SameWrite(d, c) /\ SameStore(d, c) /\ d.mosi_queue = c.mosi_queue
               /\ d.miso_queue = OutQueue(c, n)
  BY <1>2, <1>3 DEF Alike, SameWrite, SameStore
<1> DEFINE a == AfterByte(c, b, 1)
<1>5. n = 1 => Alike(x, a)
  BY DEF MovesOn
<1> HIDE DEF a
<1>6. n = 1 => Alike(d, a)
  BY <1>2, <1>5 DEF Alike, SameWrite, SameStore
<1> QED BY <1>1, <1>4, <1>6 DEF MovesOn, a

----------------------------------------------------------------------------
(* A bit of the driver.                                                       *)
LEMMA HalfByte ==
  ASSUME SdInv, ~SpiIdle, card.present
  PROVE  /\ card \in CardSet /\ Tame(card) /\ card.clk = 0 /\ spi.n \in 1..8 /\ Outgoing \in Byte
         /\ Halfway(card, Outgoing, spi.n) /\ port \in Ports /\ port.clk = 0
         /\ card.mosi_bit = port.mosi
<1>1. 255 \in Byte
  BY DEF Byte
<1> QED BY <1>1 DEF SdInv, WireInv, Halfway, Outgoing, Ports, Bit

LEMMA SendBitMoves ==
  ASSUME SdInv, SendBit, card.present
  PROVE  /\ card' \in CardSet /\ MovesOn(card', card, Outgoing, spi.n)
         /\ card'.clk = 0 /\ card'.mosi_bit = port'.mosi
         /\ port' \in Ports /\ port'.clk = 0 /\ port'.cs = port.cs
         /\ port'.mosi = BitOut(Outgoing, spi.n)
<1> DEFINE b == Outgoing
           n == spi.n
           p == [port EXCEPT !.mosi = BitOut(b, n), !.clk = 0]
           high == [p EXCEPT !.clk = 1]
           x == update_outputs(card, p)
           y == update_outputs(x, high)
           z == update_outputs(y, p)
<1>1. /\ card \in CardSet /\ Tame(card) /\ card.clk = 0 /\ n \in 1..8 /\ b \in Byte
      /\ Halfway(card, b, n) /\ port \in Ports
  BY HalfByte DEF SendBit, SpiIdle
<1>2. b = spi.byte /\ BitOut(b, n) \in Bit
  BY <1>1, BitGoesOut DEF SendBit, Outgoing
<1>3. /\ p \in Ports /\ p.clk = 0 /\ p.mosi = BitOut(b, n) /\ p.cs = port.cs
      /\ high \in Ports /\ high.clk = 1 /\ high.mosi = p.mosi /\ high.cs = p.cs
  <2> HIDE DEF b, n
  <2> QED BY <1>1, <1>2 DEF Ports, Bit
<1>4. port' = p /\ card' = Put(Put(Put(card, p), high), p)
  BY <1>2 DEF SendBit
<1> HIDE DEF p, high, b, n
<1>5. x \in CardSet /\ SameButLines(x, card) /\ x.clk = 0 /\ x.mosi_bit = p.mosi
  BY <1>1, <1>3, ClockFalls
<1>6. x.present /\ Halfway(x, b, n) /\ Tame(x)
  BY <1>1, <1>5 DEF SameButLines, Alike, SameWrite, SameStore, Halfway, Tame, Storable
<1> HIDE DEF x
<1>7. y \in CardSet /\ MovesOn(y, x, b, n)
  BY <1>1, <1>3, <1>5, <1>6, Rises
<1>8. MovesOn(y, card, b, n)
  BY <1>1, <1>5, <1>7, Clocked
<1>9. y.present
  <2>1. n > 1 => y.present
    BY <1>7, <1>6 DEF MovesOn, SameStore
  <2>2. n = 1 => y.present
    <3> DEFINE t == Taking(x, b, 1)
    <3>1. t \in CardSet /\ SameWrite(t, x) /\ SameStore(t, x) /\ t.mosi_queue = Append(x.mosi_queue, b)
      BY <1>1, <1>5, TakingTyped DEF Becomes
    <3> HIDE DEF t
    <3>2. Becomes(digest_sd(t), t)
      BY <1>1, <1>5, <1>6, <3>1, TakingFed, DigestTyped
    <3>3. n = 1 => Alike(y, digest_sd(t))
      BY <1>7 DEF MovesOn, AfterByte, t
    <3> QED BY <1>6, <3>1, <3>2, <3>3 DEF Alike, SameStore, Becomes, SameWires
  <2> QED BY <1>1, <2>1, <2>2
<1> HIDE DEF y
<1>10. z \in CardSet /\ SameButLines(z, y) /\ z.clk = 0 /\ z.mosi_bit = p.mosi
  BY <1>3, <1>7, ClockFalls
<1> HIDE DEF z
<1>11. card' = z
  BY <1>4, <1>6, <1>9 DEF Put, x, y, z
<1>12. MovesOn(z, card, b, n)
  BY <1>7, <1>8, <1>10, Falls
<1> QED BY <1>3, <1>4, <1>10, <1>11, <1>12 DEF b, n

LEMMA RecvBitMoves ==
  ASSUME SdInv, RecvBit, card.present
  PROVE  /\ card' \in CardSet /\ MovesOn(card', card, Outgoing, spi.n)
         /\ card'.clk = 0 /\ card'.mosi_bit = port'.mosi
         /\ port' \in Ports /\ port'.clk = 0 /\ port'.cs = port.cs
         /\ port'.mosi = port.mosi /\ port.mosi = 1
         /\ Look(card, port) = OutReg(card, spi.n) \div 128
<1> DEFINE b == Outgoing
           n == spi.n
           p == [port EXCEPT !.clk = 0]
           high == [port EXCEPT !.clk = 1]
           y == update_outputs(card, high)
           z == update_outputs(y, p)
<1>1. /\ card \in CardSet /\ Tame(card) /\ card.clk = 0 /\ n \in 1..8 /\ b \in Byte
      /\ Halfway(card, b, n) /\ port \in Ports /\ card.mosi_bit = port.mosi
  BY HalfByte DEF RecvBit, SpiIdle
<1>2. port.mosi = 1 /\ b = 255 /\ BitOut(b, n) = 1
  <2>1. port.mosi = 1 /\ b = 255
    BY DEF SdInv, WireInv, RecvBit, Outgoing
  <2>2. BitOut(255, n) = 1
    BY <1>1, AllOnes
  <2> QED BY <2>1, <2>2
<1>3. /\ p \in Ports /\ p.clk = 0 /\ p.mosi = port.mosi /\ p.cs = port.cs
      /\ high \in Ports /\ high.clk = 1 /\ high.mosi = p.mosi /\ high.cs = p.cs
  BY <1>1 DEF Ports, Bit
<1>4. port' = p /\ card' = Put(Put(card, high), p) /\ Look(card, port) = Put(card, high).miso_bit
  BY DEF RecvBit, Look
<1> HIDE DEF p, high, b, n
<1>7. y \in CardSet /\ MovesOn(y, card, b, n)
  BY <1>1, <1>2, <1>3, Rises
<1>9. y.present
  <2>1. n > 1 => y.present
    BY <1>7 DEF MovesOn, SameStore
  <2>2. n = 1 => y.present
    <3> DEFINE t == Taking(card, b, 1)
    <3>1. t \in CardSet /\ SameWrite(t, card) /\ SameStore(t, card) /\ t.mosi_queue = Append(card.mosi_queue, b)
      BY <1>1, TakingTyped DEF Becomes
    <3> HIDE DEF t
    <3>2. Becomes(digest_sd(t), t)
      BY <1>1, <3>1, TakingFed, DigestTyped
    <3>3. n = 1 => Alike(y, digest_sd(t))
      BY <1>7 DEF MovesOn, AfterByte, t
    <3> QED BY <3>1, <3>2, <3>3 DEF Alike, SameStore, Becomes, SameWires
  <2> QED BY <1>1, <2>1, <2>2
<1>8. y.miso_bit = OutReg(card, n) \div 128
  BY <1>7 DEF MovesOn
<1>5. Put(card, high) = y
  BY DEF Put
<1> HIDE DEF y
<1>10. z \in CardSet /\ SameButLines(z, y) /\ z.clk = 0 /\ z.mosi_bit = p.mosi
  BY <1>3, <1>7, ClockFalls
<1> HIDE DEF z
<1>11. card' = z
  BY <1>4, <1>5, <1>9 DEF Put, z
<1>12. MovesOn(z, card, b, n)
  BY <1>7, <1>10, Falls
<1> QED BY <1>2, <1>3, <1>4, <1>5, <1>8, <1>10, <1>11, <1>12 DEF b, n

(* What both kinds of bit have in common.                                     *)
BitGone ==
  /\ spi.n \in 1..8 /\ Outgoing \in Byte /\ spi.op \in {"send", "recv"}
  /\ card' \in CardSet /\ MovesOn(card', card, Outgoing, spi.n)
  /\ card'.clk = 0 /\ card'.mosi_bit = port'.mosi
  /\ port' \in Ports /\ port'.clk = 0 /\ port'.cs = port.cs
  /\ spi.n = 1 => spi' = IdleSpi
  /\ spi.n > 1 => /\ spi' \in [op : {"idle", "send", "recv"}, byte : Byte, n : 0..8]
                  /\ spi'.op = spi.op /\ spi'.n = spi.n - 1
  /\ spi.op = "send" =>
       /\ A' = A /\ port'.mosi = BitOut(Outgoing, spi.n)
       /\ spi.n > 1 => spi'.byte = spi.byte
  /\ spi.op = "recv" =>
       LET byte == 2 * spi.byte + OutReg(card, spi.n) \div 128 IN
       /\ spi.byte \in Nat /\ spi.byte < 2^(8 - spi.n) /\ port'.mosi = 1 /\ port.mosi = 1
       /\ A' = (IF spi.n = 1 THEN byte ELSE A)
       /\ spi.n > 1 => spi'.byte = byte

LEMMA Registers ==
  ASSUME NEW c \in CardSet, NEW n \in 1..8 PROVE OutReg(c, n) \in Byte
<1>1. c.miso_queue \in Seq(Byte) /\ c.miso_shift_reg \in Byte
  BY DEF CardSet
<1>2. c.miso_queue # <<>> => Head(c.miso_queue) \in Byte
  BY <1>1
<1> QED BY <1>1, <1>2 DEF OutReg, Byte

LEMMA SendGone == ASSUME SdInv, SendBit, card.present PROVE BitGone
<1>1. /\ card' \in CardSet /\ MovesOn(card', card, Outgoing, spi.n)
      /\ card'.clk = 0 /\ card'.mosi_bit = port'.mosi
      /\ port' \in Ports /\ port'.clk = 0 /\ port'.cs = port.cs
      /\ port'.mosi = BitOut(Outgoing, spi.n)
  BY SendBitMoves
<1>2. spi.n \in 1..8 /\ Outgoing \in Byte
  BY HalfByte DEF SendBit, SpiIdle
<1>3. spi \in [op : {"idle", "send", "recv"}, byte : Byte, n : 0..8] /\ spi.op = "send"
  BY DEF SdInv, WireInv, SendBit
<1>4. A' = A /\ spi' = IF spi.n = 1 THEN IdleSpi ELSE [spi EXCEPT !.n = @ - 1]
  BY DEF SendBit, LastBit
<1>5. spi.n > 1 => /\ spi' \in [op : {"idle", "send", "recv"}, byte : Byte, n : 0..8]
                   /\ spi'.op = spi.op /\ spi'.n = spi.n - 1 /\ spi'.byte = spi.byte
  BY <1>2, <1>3, <1>4
<1> QED BY <1>1, <1>2, <1>3, <1>4, <1>5 DEF BitGone

LEMMA RecvGone == ASSUME SdInv, RecvBit, card.present PROVE BitGone
<1>1. /\ card' \in CardSet /\ MovesOn(card', card, Outgoing, spi.n)
      /\ card'.clk = 0 /\ card'.mosi_bit = port'.mosi
      /\ port' \in Ports /\ port'.clk = 0 /\ port'.cs = port.cs
      /\ port'.mosi = port.mosi /\ port.mosi = 1
      /\ Look(card, port) = OutReg(card, spi.n) \div 128
  BY RecvBitMoves
<1>2. spi.n \in 1..8 /\ Outgoing \in Byte /\ card \in CardSet
  BY HalfByte DEF RecvBit, SpiIdle
<1>3. /\ spi \in [op : {"idle", "send", "recv"}, byte : Byte, n : 0..8] /\ spi.op = "recv"
      /\ spi.byte < 2^(8 - spi.n)
  BY DEF SdInv, WireInv, RecvBit
<1> DEFINE byte == 2 * spi.byte + OutReg(card, spi.n) \div 128
<1>4. /\ A' = IF spi.n = 1 THEN byte ELSE A
      /\ spi' = IF spi.n = 1 THEN IdleSpi ELSE [spi EXCEPT !.byte = byte, !.n = spi.n - 1]
  BY <1>1 DEF RecvBit, LastBit
<1>5. spi.byte \in Nat
  BY <1>3 DEF Byte
<1>6. spi.n > 1 => byte \in Byte
  <2> DEFINE y == spi.byte
             n == spi.n
             reg == OutReg(card, n)
  <2>1. reg \in Byte /\ y \in Nat /\ y < 2^(8 - n) /\ n \in 1..8
    BY <1>2, <1>3, <1>5, Registers
  <2> HIDE DEF y, n, reg
  <2>2. reg \div 128 \in Bit /\ 2 * y + reg \div 128 < 2^(9 - n)
    BY <2>1, BitComesIn
  <2> DEFINE m == 9 - n
  <2>3. m \in 1..8
    BY <2>1
  <2> HIDE DEF m
  <2>4. 2^m \in 1..256
    BY <2>3, Power, ZenonT(60)
  <2>5. 2 * y + reg \div 128 \in Byte
    <3>1. 2 * y + reg \div 128 < 2^m
      BY <2>2 DEF m
    <3> QED BY <2>1, <2>2, <2>4, <3>1 DEF Bit, Byte
  <2> QED BY <2>5 DEF y, n, reg
<1> HIDE DEF byte
<1>7. spi.n > 1 => /\ spi' \in [op : {"idle", "send", "recv"}, byte : Byte, n : 0..8]
                   /\ spi'.op = spi.op /\ spi'.n = spi.n - 1 /\ spi'.byte = byte
  <2>1. spi.n > 1 => spi' = [spi EXCEPT !.byte = byte, !.n = spi.n - 1] /\ spi.n - 1 \in 0..8
    BY <1>2, <1>4
  <2> DEFINE k == spi.n - 1
  <2> HIDE DEF k
  <2>2. spi.n > 1 => spi' = [spi EXCEPT !.byte = byte, !.n = k] /\ k \in 0..8 /\ byte \in Byte
    BY <1>6, <2>1 DEF k
  <2>3. spi.n > 1 => /\ spi' \in [op : {"idle", "send", "recv"}, byte : Byte, n : 0..8]
                     /\ spi'.op = spi.op /\ spi'.n = k /\ spi'.byte = byte
    BY <1>3, <2>2
  <2> QED BY <2>3 DEF k
<1> QED BY <1>1, <1>2, <1>3, <1>4, <1>5, <1>7 DEF BitGone, byte

(* A bit more that was not the last, or the last.                             *)
LEMMA BitWires ==
  ASSUME SdInv, card.present, BitGone PROVE WireInv' /\ card'.present
<1> DEFINE n == spi.n
<1>0. n = 1 \/ n > 1
  BY DEF BitGone
<1>1. CASE n > 1
  <2>1. card'.present
    BY <1>1 DEF BitGone, MovesOn, SameStore
  <2>2. Outgoing' = Outgoing /\ spi'.op = spi.op /\ ~SpiIdle'
    BY <1>1 DEF BitGone, Outgoing, SpiIdle
  <2>3. spi'.n = n - 1 /\ n - 1 \in 1..7 /\ (n - 1) % 8 = n - 1
    BY <1>1 DEF BitGone
  <2>4. /\ card'.mosi_bit_count = 8 - spi'.n /\ card'.miso_bit_count = spi'.n % 8
        /\ card'.mosi_shift_reg = Outgoing' \div 2^(spi'.n)
    <3>1. card'.mosi_bit_count = 9 - n /\ card'.miso_bit_count = n - 1
          /\ card'.mosi_shift_reg = Outgoing \div 2^(n - 1)
      BY <1>1 DEF BitGone, MovesOn
    <3>2. 9 - n = 8 - (n - 1)
      BY <2>3
    <3> HIDE DEF n
    <3> QED BY <2>2, <2>3, <3>1, <3>2
  <2>5. spi'.op = "recv" => spi'.byte < 2^(8 - spi'.n)
    <3> DEFINE y == spi.byte
               reg == OutReg(card, n)
    <3>1. reg \in Byte
      BY Registers DEF BitGone, SdInv
    <3>2. spi.op = "recv" => y \in Nat /\ y < 2^(8 - n) /\ n \in 1..8 /\ spi'.byte = 2 * y + reg \div 128
      BY <1>1 DEF BitGone
    <3> HIDE DEF y, reg
    <3>3. spi.op = "recv" => 2 * y + reg \div 128 < 2^(9 - n)
      BY <3>1, <3>2, BitComesIn
    <3>4. 8 - (n - 1) = 9 - n
      BY <2>3
    <3> HIDE DEF n
    <3> QED BY <2>2, <2>3, <3>2, <3>3, <3>4
  <2>6. /\ port' \in [cs : Bit, clk : {0}, mosi : Bit]
        /\ spi' \in [op : {"idle", "send", "recv"}, byte : Byte, n : 0..8]
    BY <1>1 DEF BitGone, Ports
  <2>7. card'.clk = 0 /\ card'.mosi_bit = port'.mosi /\ (spi'.op = "recv" => port'.mosi = 1)
    BY <2>2 DEF BitGone
  <2>8. spi'.n \in 1..8
    BY <2>3
  <2> QED BY <2>1, <2>2, <2>4, <2>5, <2>6, <2>7, <2>8 DEF WireInv
<1>2. CASE n = 1
  <2>1. /\ card'.mosi_bit_count = 0 /\ card'.miso_bit_count = 0 /\ card'.mosi_shift_reg = 0
        /\ Alike(card', AfterByte(card, Outgoing, 1))
    BY <1>2 DEF BitGone, MovesOn
  <2>2. card'.present
    <3> DEFINE t == Taking(card, Outgoing, 1)
    <3>1. t \in CardSet /\ SameWrite(t, card) /\ SameStore(t, card) /\ t.mosi_queue = Append(card.mosi_queue, Outgoing)
      BY TakingTyped DEF Becomes, SdInv, BitGone
    <3> HIDE DEF t
    <3>2. Becomes(digest_sd(t), t)
      BY <3>1, TakingFed, DigestTyped DEF SdInv, BitGone
    <3>3. Alike(card', digest_sd(t))
      BY <2>1 DEF AfterByte, t
    <3> QED BY <3>1, <3>2, <3>3 DEF Alike, SameStore, Becomes, SameWires
  <2>3. /\ spi' = IdleSpi /\ SpiIdle' /\ port' \in [cs : Bit, clk : {0}, mosi : Bit]
    BY <1>2 DEF BitGone, SpiIdle, IdleSpi, Ports
  <2>4. spi' \in [op : {"idle", "send", "recv"}, byte : Byte, n : 0..8] /\ spi'.op # "recv"
    BY <2>3 DEF IdleSpi, Byte
  <2>5. card'.clk = 0 /\ card'.mosi_bit = port'.mosi
    BY DEF BitGone
  <2> QED BY <2>1, <2>2, <2>3, <2>4, <2>5 DEF WireInv
<1> QED BY <1>0, <1>1, <1>2

(* The card after the byte, and the byte received, are the same as before.    *)
LEMMA BitAfter ==
  ASSUME SdInv, card.present, BitGone, ~SpiIdle
  PROVE  Alike(After', After) /\ Tame(card')
<1> DEFINE n == spi.n
           b == Outgoing
<1>0. /\ (n = 1 \/ n > 1) /\ n \in 1..8 /\ b \in Byte /\ card \in CardSet /\ card' \in CardSet
      /\ Tame(card) /\ Tame(After)
  BY DEF BitGone, SdInv, FrameInv
<1>1. After = AfterByte(card, b, n)
  BY DEF After
<1>2. card'.present
  BY BitWires
<1>3. CASE n > 1
  <2>1. /\ SameWrite(card', card) /\ SameStore(card', card) /\ card'.mosi_queue = card.mosi_queue
        /\ card'.miso_queue = OutQueue(card, n)
    BY <1>3 DEF BitGone, MovesOn
  <2>2. After' = AfterByte(card', b, n - 1)
    <3>1. Outgoing' = b /\ ~SpiIdle' /\ spi'.n = n - 1
      BY <1>3 DEF BitGone, Outgoing, SpiIdle
    <3> QED BY <1>2, <3>1 DEF After
  <2> DEFINE s == Taking(card', b, n - 1)
             t == Taking(card, b, n)
  <2>3. /\ t \in CardSet /\ SameWrite(t, card) /\ SameStore(t, card)
        /\ t.mosi_queue = Append(card.mosi_queue, b) /\ t.miso_queue = OutQueue(card, n)
    BY <1>0, TakingTyped DEF Becomes
  <2>4. /\ s \in CardSet /\ SameWrite(s, card') /\ SameStore(s, card')
        /\ s.mosi_queue = Append(card'.mosi_queue, b) /\ s.miso_queue = card'.miso_queue
    <3> DEFINE m == n - 1
    <3>1. m \in 1..8 /\ m # 8
      BY <1>0, <1>3
    <3> HIDE DEF m
    <3> DEFINE r == Taking(card', b, m)
    <3>2. /\ r \in CardSet /\ SameWrite(r, card') /\ SameStore(r, card')
          /\ r.mosi_queue = Append(card'.mosi_queue, b) /\ r.miso_queue = card'.miso_queue
      BY <1>0, <3>1, TakingTyped DEF Becomes, OutQueue
    <3> QED BY <3>2 DEF m
  <2> HIDE DEF s, t
  <2>5. Alike(t, s)
    BY <2>1, <2>3, <2>4 DEF Alike, SameWrite, SameStore
  <2>6. Alike(digest_sd(t), digest_sd(s))
    BY <1>0, <2>3, <2>4, <2>5, TakingFed, DigestAlike
  <2>7. Tame(card')
    BY <1>0, <2>1 DEF Tame, Storable, SameWrite
  <2>8. Alike(digest_sd(s), digest_sd(t))
    BY <2>6 DEF Alike, SameWrite, SameStore
  <2> QED BY <1>1, <2>2, <2>7, <2>8 DEF AfterByte, s, t
<1>4. CASE n = 1
  <2>1. Alike(card', AfterByte(card, b, 1))
    BY <1>4 DEF BitGone, MovesOn
  <2>2. After' = card' /\ Alike(card', After)
    BY <1>1, <1>4, <2>1 DEF BitGone, After, SpiIdle, IdleSpi
  <2>3. Tame(card')
    BY <1>0, <2>2 DEF Alike, SameWrite, Tame, Storable
  <2> QED BY <2>2, <2>3
<1> QED BY <1>0, <1>3, <1>4

LEMMA BitGot ==
  ASSUME SdInv, card.present, BitGone, ~SpiIdle
  PROVE  Got' = Got /\ MosiAfter' = MosiAfter
<1> DEFINE n == spi.n
           reg == OutReg(card, n)
           y == spi.byte
<1>0. (n = 1 \/ n > 1) /\ n \in 1..8 /\ card \in CardSet /\ reg \in Byte /\ card'.present
  BY Registers, BitWires DEF BitGone, SdInv
<1>1. CASE spi.op = "send"
  <2>1. Got = A /\ A' = A /\ spi'.op # "recv"
    BY <1>0, <1>1 DEF Got, BitGone, IdleSpi
  <2>2. MosiAfter = y % 2
    BY <1>1 DEF MosiAfter
  <2>3. n = 1 => MosiAfter' = y % 2
    <3>1. Outgoing = y /\ y \in Byte
      BY <1>1 DEF Outgoing, BitGone
    <3>2. n = 1 => BitOut(y, n) = y % 2
      BY <1>0, <3>1, BitGoesOut
    <3>3. n = 1 => MosiAfter' = port'.mosi
      BY DEF MosiAfter, BitGone, IdleSpi
    <3> QED BY <1>1, <3>1, <3>2, <3>3 DEF BitGone
  <2>4. n > 1 => MosiAfter' = y % 2
    BY <1>1 DEF MosiAfter, BitGone
  <2> QED BY <1>0, <2>1, <2>2, <2>3, <2>4 DEF Got
<1>2. CASE spi.op = "recv"
  <2>1. y \in Nat /\ y < 2^(8 - n)
    BY <1>2 DEF BitGone
  <2>3. NextBit(y, reg, n)
    <3> HIDE DEF y, reg, n
    <3> QED BY <1>0, <2>1, BitComesIn
  <2>2. Got = Arriving(y, reg, n)
    BY <1>2, <2>3 DEF Got, Incoming, OutReg, Arriving, NextBit
  <2>4. n = 1 => Got' = 2 * y + reg \div 128
    BY <1>2 DEF BitGone, Got, IdleSpi
  <2>5. n > 1 => Got' = Arriving(2 * y + reg \div 128, (2 * reg) % 256, n - 1)
    <3>1. n > 1 => /\ spi'.op = "recv" /\ spi'.n = n - 1 /\ spi'.byte = 2 * y + reg \div 128
                   /\ card'.miso_shift_reg = (2 * reg) % 256
      BY <1>2 DEF BitGone, MovesOn
    <3>2. n - 1 # 8
      BY <1>0
    <3> HIDE DEF y, reg, n
    <3> QED BY <1>0, <3>1, <3>2 DEF Got, Incoming, Arriving
  <2>6. MosiAfter = 1 /\ MosiAfter' = 1
    BY <1>2, <1>0 DEF MosiAfter, BitGone, IdleSpi
  <2> QED BY <1>0, <2>2, <2>3, <2>4, <2>5, <2>6 DEF NextBit
<1> QED BY <1>1, <1>2 DEF BitGone

----------------------------------------------------------------------------
(* Nothing but the wires of the card distinguishes cards that are alike, and  *)
(* a step that leaves the driver where it is leaves what it waits for.        *)
LEMMA SameContents ==
  ASSUME NEW c, NEW d, SameStore(d, c), NEW lba PROVE Contents(d, lba) = Contents(c, lba)
BY DEF SameStore, Contents

StaysPut == UNCHANGED <<pc, i, which, call, SDBUF, r1>>
LEMMA ReplyAlike ==
  ASSUME NEW c, NEW d, Alike(d, c)
  PROVE  /\ Reply(d) = Reply(c) /\ Contents(d, call.lba) = Contents(c, call.lba)
         /\ Listens(d) = Listens(c) /\ Awaits(d) = Awaits(c) /\ Begun(d) = Begun(c)
         /\ Silent(d) = Silent(c) /\ Answers(d) = Answers(c) /\ Holds(d) = Holds(c)
         /\ \A n : InBuffer(d, n) = InBuffer(c, n)
         /\ \A k, r : Sent(d, k, r) = Sent(c, k, r)
         /\ \A a, k, r : Streams(d, a, k, r) = Streams(c, a, k, r)
<1>1. Contents(d, call.lba) = Contents(c, call.lba)
  BY SameContents DEF Alike
<1>2. Reply(d) = Reply(c)
  BY <1>1 DEF Reply
<1>3. /\ d.awaiting_write_block = c.awaiting_write_block /\ d.mosi_queue = c.mosi_queue
      /\ d.pending_write_addr = c.pending_write_addr /\ d.miso_queue = c.miso_queue
      /\ d.cmd24_seen_token = c.cmd24_seen_token /\ d.write_payload = c.write_payload
      /\ d.failed = c.failed
  BY DEF Alike, SameWrite, SameStore
<1>4. Listens(d) = Listens(c) /\ Awaits(d) = Awaits(c)
  BY <1>3 DEF Listens, Awaits
<1>5. Begun(d) = Begun(c)
  BY <1>3, <1>4 DEF Begun
<1>6. Silent(d) = Silent(c)
  BY <1>3 DEF Silent
<1>7. Answers(d) = Answers(c) /\ Holds(d) = Holds(c)
  BY <1>1 DEF Answers, Holds
<1>8. \A n : InBuffer(d, n) = InBuffer(c, n)
  BY <1>2 DEF InBuffer
<1>9. \A k, r : Sent(d, k, r) = Sent(c, k, r)
  BY <1>3 DEF Sent
<1>10. \A a, k, r : Streams(d, a, k, r) = Streams(c, a, k, r)
  BY <1>9 DEF Streams
<1> QED BY <1>1, <1>2, <1>4, <1>5, <1>6, <1>7, <1>8, <1>9, <1>10

LEMMA StationAlike ==
  ASSUME NEW c, NEW d, Alike(d, c), NEW a, NEW m, Station(c, a, m) PROVE Station(d, a, m)
<1>1. /\ Reply(d) = Reply(c) /\ Contents(d, call.lba) = Contents(c, call.lba)
      /\ Listens(d) = Listens(c) /\ Awaits(d) = Awaits(c) /\ Begun(d) = Begun(c)
      /\ Silent(d) = Silent(c) /\ Answers(d) = Answers(c) /\ Holds(d) = Holds(c)
      /\ \A k, r : Sent(d, k, r) = Sent(c, k, r)
      /\ \A b, k, r : Streams(d, b, k, r) = Streams(c, b, k, r)
  BY ReplyAlike
<1>2. /\ d.awaiting_write_block = c.awaiting_write_block /\ d.mosi_queue = c.mosi_queue
      /\ d.miso_queue = c.miso_queue
      /\ d.cmd24_seen_token = c.cmd24_seen_token /\ d.write_payload = c.write_payload
  BY DEF Alike, SameWrite
<1> QED BY <1>1, <1>2 DEF Station

LEMMA OutcomeAlike ==
  ASSUME NEW c, NEW d, Alike(d, c), Outcome(c) PROVE Outcome(d)
<1>1. /\ Answers(d) = Answers(c) /\ Holds(d) = Holds(c) /\ \A n : InBuffer(d, n) = InBuffer(c, n)
  BY ReplyAlike
<1>2. d.failed = c.failed /\ Whole(d) = Whole(c)
  BY DEF Alike, SameStore, Whole, HoldsAll
<1> QED BY <1>1, <1>2 DEF Outcome

LEMMA StationKept ==
  ASSUME StaysPut, NEW c, NEW a, NEW m, Station(c, a, m) PROVE Station(c, a, m)'
<1>1. pc' = pc /\ i' = i /\ which' = which /\ call' = call /\ SDBUF' = SDBUF
  BY DEF StaysPut
<1>2. Command' = Command
  BY <1>1 DEF Command
<1>3. Reply(c)' = Reply(c)
  BY <1>1, <1>2 DEF Reply
<1>4. /\ Listens(c)' = Listens(c) /\ Awaits(c)' = Awaits(c)
      /\ Silent(c)' = Silent(c) /\ Answers(c)' = Answers(c)
  BY <1>1 DEF Listens, Awaits, Silent, Answers
<1>5. Begun(c)' = Begun(c)
  BY <1>1, <1>4 DEF Begun
<1>6. \A r : Sent(c, 0, r)' = Sent(c, 0, r)
  BY DEF Sent
<1>7. \A b, k, r : Streams(c, b, k, r)' = Streams(c, b, k, r)
  BY DEF Streams, Sent
<1> QED BY <1>1, <1>2, <1>3, <1>4, <1>5, <1>6, <1>7 DEF Station

LEMMA OutcomeKept == ASSUME StaysPut, NEW c, Outcome(c) PROVE Outcome(c)'
BY DEF Outcome, StaysPut, Answers, InBuffer, Reply, Holds, Command

LEMMA BitFrame ==
  ASSUME SdInv, card.present, BitGone, ~SpiIdle, StaysPut PROVE FrameInv'
<1>1. Tame(After) /\ Station(After, Got, MosiAfter) /\ Outcome(After)
  BY DEF SdInv, FrameInv
<1>2. Alike(After', After) /\ Got' = Got /\ MosiAfter' = MosiAfter
  BY BitAfter, BitGot
<1>3. Station(After', Got, MosiAfter) /\ Outcome(After')
  BY <1>1, <1>2, StationAlike, OutcomeAlike
<1>4. \A c, a, m : Station(c, a, m) => Station(c, a, m)'
  BY StationKept
<1>5. \A c : Outcome(c) => Outcome(c)'
  BY OutcomeKept
<1>6. Tame(After')
  BY <1>1, <1>2 DEF Tame, Storable, Alike, SameWrite
<1> QED BY <1>2, <1>3, <1>4, <1>5, <1>6 DEF FrameInv

LEMMA WholeAlike == ASSUME NEW c, NEW d, SameStore(d, c), Whole(c) PROVE Whole(d)
BY DEF Whole, HoldsAll, SameStore

(* What a step that leaves the driver and its registers where they are keeps. *)
LEMMA DriverKept ==
  ASSUME SdInv, StaysPut, UNCHANGED <<ocr, ignore, booted>>, A' \in Byte, spi' # spi => ~SpiIdle, port'.cs = port.cs
  PROVE  RegInv' /\ CallInv' /\ SelectInv' /\ (ProgInv' <=> (pc \in Resting => SpiIdle'))
<1>1. pc' = pc /\ i' = i /\ which' = which /\ call' = call /\ SDBUF' = SDBUF /\ r1' = r1
  BY DEF StaysPut
<1>2. RegInv'
  BY <1>1 DEF SdInv, RegInv
<1>3. CallInv'
  BY <1>1 DEF SdInv, CallInv
<1>4. SelectInv'
  BY <1>1 DEF SdInv, SelectInv
<1>5. ProgInv' <=> (pc \in Resting => SpiIdle')
  BY <1>1 DEF SdInv, ProgInv
<1> QED BY <1>2, <1>3, <1>4, <1>5

LEMMA BitStore ==
  ASSUME SdInv, card.present, BitGone, ~SpiIdle, StaysPut PROVE StoreInv'
<1>1. Alike(After', After) /\ Got' = Got /\ (spi.n = 1 \/ spi.n > 1)
  BY BitAfter, BitGot DEF BitGone
<1>2. pc' = pc /\ i' = i /\ which' = which /\ call' = call /\ r1' = r1
  BY DEF StaysPut
<1>3. SameStore(After', After)
  BY <1>1 DEF Alike
<1>4. \A lba : Contents(After', lba) = Contents(After, lba)
  BY <1>3, SameContents
<1>5. LongEnough' = LongEnough /\ \A c : Holds(c)' = Holds(c)
  BY <1>2 DEF LongEnough, HoldsAll, Holds
<1>6. Holds(After') = Holds(After)
  BY <1>4 DEF Holds
<1>7. SameStore(card', card) \/ SameStore(card', After)
  <2>1. CASE spi.n > 1
    BY <2>1 DEF BitGone, MovesOn
  <2>2. CASE spi.n = 1
    BY <2>2 DEF BitGone, MovesOn, Alike, After
  <2> QED BY <1>1, <2>1, <2>2
<1>8. \A lba : Contents(card', lba) = Contents(card, lba) \/ Contents(card', lba) = Contents(After, lba)
  BY <1>7, SameContents
<1>9. SameStore(card', card) => \A lba : Contents(card', lba) = Contents(card, lba)
  BY SameContents
<1>10. SameStore(card', After) => \A lba : Contents(card', lba) = Contents(After, lba)
  BY SameContents
<1> SUFFICES ASSUME LongEnough PROVE StoreInv'
  BY <1>5 DEF StoreInv
<1>11. /\ Whole(card) /\ Whole(After)
       /\ which = "cmd24" =>
            /\ pc = "busy" \/ (pc = "response" /\ Got # 255) => Holds(After)
            /\ pc \in Closing /\ r1 = 0 => Holds(After)
       /\ \A lba \in Lbas :
            \/ Contents(After, lba) = Contents(card, lba)
            \/ call.op = "write" /\ lba = call.lba /\ Contents(After, lba) = call.data
  BY DEF SdInv, StoreInv
<1>12. Whole(card') /\ Whole(After')
  BY <1>3, <1>7, <1>11, WholeAlike
<1>13. which' = "cmd24" =>
         /\ pc' = "busy" \/ (pc' = "response" /\ Got' # 255) => Holds(After)'
         /\ pc' \in Closing /\ r1' = 0 => Holds(After)'
  <2>1. Holds(After)' = Holds(After')
    BY <1>2 DEF Holds
  <2> QED BY <1>1, <1>2, <1>6, <1>11, <2>1
<1>14. \A lba \in Lbas :
         \/ Contents(After', lba) = Contents(card', lba)
         \/ call'.op = "write" /\ lba = call'.lba /\ Contents(After', lba) = call'.data
  BY <1>2, <1>4, <1>7, <1>9, <1>10, <1>11
<1>15. /\ Whole(After)' = Whole(After') /\ Whole(card)' = Whole(card')
  BY DEF Whole, HoldsAll
<1> QED BY <1>12, <1>13, <1>14, <1>15 DEF StoreInv

LEMMA BitPresent ==
  ASSUME SdInv, card.present, BitGone, ~SpiIdle, StaysPut, UNCHANGED <<ocr, ignore, booted>>
  PROVE  SdInv'
<1>1. FrameInv' /\ StoreInv' /\ WireInv' /\ Tame(card') /\ card' \in CardSet
  BY BitFrame, BitStore, BitWires, BitAfter DEF BitGone
<1>2. A' \in Byte
  <2> DEFINE y == spi.byte
             reg == OutReg(card, spi.n)
  <2>1. reg \in Byte /\ A \in Byte
    BY Registers DEF BitGone, SdInv, RegInv
  <2>2. A' = A \/ (A' = 2 * y + reg \div 128 /\ y \in Nat /\ y < 2^7)
    <3>1. A' = A \/ (spi.n = 1 /\ A' = 2 * y + reg \div 128 /\ y \in Nat /\ y < 2^(8 - spi.n))
      BY DEF BitGone
    <3>2. 8 - 1 = 7
      OBVIOUS
    <3> QED BY <3>1, <3>2
  <2> HIDE DEF y, reg
  <2>3. y \in Nat /\ y < 2^7 => 2 * y + reg \div 128 \in Byte
    BY <2>1, Powers DEF Byte
  <2> QED BY <2>1, <2>2, <2>3
<1>3. port'.cs = port.cs /\ pc \notin Resting
  BY DEF BitGone, SdInv, ProgInv
<1>4. RegInv' /\ CallInv' /\ SelectInv' /\ ProgInv'
  BY <1>2, <1>3, DriverKept
<1>5. Tame(card)'
  BY <1>1 DEF Tame, Storable
<1> QED BY <1>1, <1>4, <1>5 DEF SdInv

(* Without a card the lines move, and every bit that is looked at is a one.   *)
LEMMA Doubled == ASSUME NEW n \in 2..8 PROVE 2^(8 - (n - 1)) = 2 * 2^(8 - n) /\ 2^(8 - n) \in 1..64
<1>1. CASE n = 2
  BY <1>1, Powers
<1>2. CASE n = 3
  BY <1>2, Powers
<1>3. CASE n = 4
  BY <1>3, Powers
<1>4. CASE n = 5
  BY <1>4, Powers
<1>5. CASE n = 6
  BY <1>5, Powers
<1>6. CASE n = 7
  BY <1>6, Powers
<1>7. CASE n = 8
  BY <1>7, Powers
<1> QED BY <1>1, <1>2, <1>3, <1>4, <1>5, <1>6, <1>7

LEMMA BitAway ==
  ASSUME SdInv, SendBit \/ RecvBit, ~card.present PROVE SdInv'
<1> DEFINE Spis == [op : {"idle", "send", "recv"}, byte : Byte, n : 0..8]
<1>1. /\ spi \in Spis /\ spi.n \in 1..8 /\ ~SpiIdle /\ port \in [cs : Bit, clk : {0}, mosi : Bit]
      /\ spi.op = "recv" => spi.byte + 1 = 2^(8 - spi.n)
      /\ card.miso_bit = 1
  BY DEF SdInv, WireInv, SendBit, RecvBit, SpiIdle
<1>2. card' = card
  BY DEF SendBit, RecvBit, Put
<1>3. StaysPut /\ UNCHANGED <<ocr, ignore, booted>>
  BY DEF SendBit, RecvBit, StaysPut
<1>4. port' \in [cs : Bit, clk : {0}, mosi : Bit] /\ port'.cs = port.cs
  <2>1. CASE SendBit
    <3> DEFINE m == BitOut(spi.byte, spi.n)
    <3>1. m \in Bit
      BY <1>1, BitGoesOut
    <3> HIDE DEF m
    <3>2. port' = [port EXCEPT !.mosi = m, !.clk = 0]
      BY <2>1 DEF SendBit, m
    <3> QED BY <1>1, <3>1, <3>2
  <2>2. CASE RecvBit
    BY <1>1, <2>2 DEF RecvBit
  <2> QED BY <2>1, <2>2
<1> DEFINE Bits == /\ spi' \in Spis /\ (spi'.op # "idle" => spi'.n \in 1..8) /\ A' \in Byte
                   /\ spi'.op = "recv" => spi'.byte + 1 = 2^(8 - spi'.n)
                   /\ pc = "response" /\ Got # 255 <=> pc = "response" /\ Got' # 255
<1>5. ASSUME SendBit PROVE Bits
  <2>1. A' = A /\ A \in Byte /\ spi.op = "send"
    BY <1>5 DEF SendBit, SdInv, RegInv
  <2>2. CASE spi.n = 1
    <3>1. spi' = IdleSpi
      BY <1>5, <2>2 DEF SendBit, LastBit
    <3>2. spi' \in Spis /\ spi'.op = "idle"
      BY <3>1 DEF IdleSpi, Byte
    <3> QED BY <2>1, <3>2 DEF Got
  <2>3. CASE spi.n # 1
    <3> DEFINE k == spi.n - 1
    <3>1. k \in 1..8 /\ k \in 0..8
      BY <1>1, <2>3
    <3> HIDE DEF k
    <3>2. spi' = [spi EXCEPT !.n = k]
      BY <1>5, <2>3 DEF SendBit, LastBit, k
    <3>3. spi' \in Spis /\ spi'.n = k /\ spi'.op = "send"
      BY <1>1, <2>1, <3>1, <3>2
    <3> QED BY <2>1, <3>1, <3>3 DEF Got
  <2> QED BY <2>2, <2>3
<1>6. ASSUME RecvBit PROVE Bits
  <2>1. A \in Byte /\ spi.op = "recv" /\ spi.byte + 1 = 2^(8 - spi.n) /\ Got = 255 /\ spi.byte \in Nat
    <3>1. A \in Byte /\ spi.op = "recv" /\ Got = 255
      BY <1>6 DEF RecvBit, SdInv, RegInv, Got, Incoming
    <3>2. spi.byte \in Nat
      BY <1>1 DEF Byte
    <3> QED BY <1>1, <3>1, <3>2
  <2>2. Look(card, port) = 1
    BY <1>1 DEF Look, Put
  <2>3. CASE spi.n = 1
    <3>1. spi' = IdleSpi /\ A' = 2 * spi.byte + 1
      BY <1>6, <2>2, <2>3 DEF RecvBit, LastBit
    <3>2. spi' \in Spis /\ spi'.op = "idle"
      BY <3>1 DEF IdleSpi, Byte
    <3>3. A' = 255
      <4>1. 8 - spi.n = 7
        BY <2>3
      <4> DEFINE y == spi.byte
      <4>2. y + 1 = 128 /\ y \in Nat
        BY <2>1, <4>1, Powers, ZenonT(60)
      <4> HIDE DEF y
      <4>3. 2 * y + 1 = 255
        BY <4>2
      <4> QED BY <3>1, <4>3 DEF y
    <3> QED BY <2>1, <3>2, <3>3 DEF Got, Byte
  <2>4. CASE spi.n # 1
    <3> DEFINE k == spi.n - 1
               y == 2 * spi.byte + 1
    <3>1. k \in 1..8 /\ k \in 0..8 /\ spi.n \in 2..8
      BY <1>1, <2>4
    <3>2. y + 1 = 2^(8 - k) /\ y \in Byte
      <4> DEFINE z == spi.byte
                 w == 2^(8 - spi.n)
      <4>1. 2^(8 - k) = 2 * w /\ w \in 1..64
        BY <3>1, Doubled
      <4>2. z + 1 = w /\ z \in Nat
        BY <2>1
      <4> HIDE DEF z, w
      <4>3. 2 * z + 1 + 1 = 2 * w /\ 2 * z + 1 \in Byte
        BY <4>1, <4>2 DEF Byte
      <4> QED BY <4>1, <4>3 DEF z
    <3> HIDE DEF k, y
    <3>3. spi' = [spi EXCEPT !.byte = y, !.n = k] /\ A' = A
      BY <1>6, <2>2, <2>4 DEF RecvBit, LastBit, k, y
    <3>4. spi' \in Spis /\ spi'.n = k /\ spi'.op = "recv" /\ spi'.byte = y
      BY <1>1, <2>1, <3>1, <3>2, <3>3
    <3>5. Got' = 255
      BY <1>2, <3>4 DEF Got, Incoming
    <3> QED BY <2>1, <3>1, <3>2, <3>3, <3>4, <3>5
  <2> QED BY <2>3, <2>4
<1>7. Bits
  BY <1>5, <1>6
<1>8. spi'.op = "recv" => spi'.byte < 2^(8 - spi'.n)
  <2> DEFINE y == spi'.byte
             w == 2^(8 - spi'.n)
  <2>1. spi'.op = "recv" => y \in Nat /\ y + 1 = w
    BY <1>7 DEF Byte
  <2> HIDE DEF y, w
  <2>2. spi'.op = "recv" => y < w
    BY <2>1
  <2> QED BY <2>2 DEF y, w
<1>9. WireInv'
  BY <1>1, <1>2, <1>4, <1>7, <1>8 DEF WireInv, SpiIdle
<1>10. pc \notin Resting
  BY <1>1 DEF SdInv, ProgInv
<1>11. RegInv' /\ CallInv' /\ SelectInv' /\ ProgInv'
  BY <1>1, <1>3, <1>4, <1>7, <1>10, DriverKept
<1>12. After = card /\ After' = card
  BY <1>2 DEF After
<1>13. FrameInv'
  BY <1>2 DEF FrameInv
<1>14. StoreInv'
  BY <1>2, <1>3, <1>7, <1>12
     DEF SdInv, StoreInv, StaysPut, LongEnough, Whole, HoldsAll, Holds, Contents, Closing
<1>15. card' \in CardSet /\ Tame(card)'
  BY <1>2 DEF SdInv, Tame, Storable
<1> QED BY <1>9, <1>11, <1>13, <1>14, <1>15 DEF SdInv

LEMMA BitKeeps == ASSUME SdInv, SendBit \/ RecvBit PROVE SdInv'
<1>1. ~SpiIdle /\ StaysPut /\ UNCHANGED <<ocr, ignore, booted>>
  BY DEF SendBit, RecvBit, StaysPut, SpiIdle
<1>2. CASE card.present
  BY <1>1, <1>2, SendGone, RecvGone, BitPresent
<1>3. CASE ~card.present
  BY <1>3, BitAway
<1> QED BY <1>2, <1>3 DEF SdInv, CardSet

----------------------------------------------------------------------------
(* A byte starts, or nothing is sent.                                         *)
Heard == IF ~card.present \/ card.miso_queue = <<>> THEN 255 ELSE Head(card.miso_queue)
Next8(b) == IF card.present THEN AfterByte(card, b, 8) ELSE card

LEMMA SendStarts ==
  ASSUME SdInv, SpiIdle, NEW b \in Byte, Send(b)
  PROVE  /\ WireInv' /\ After' = Next8(b) /\ Got' = A /\ MosiAfter' = b % 2
         /\ card' = card /\ port' = port /\ A' = A /\ ~SpiIdle'
<1>1. spi' = [op |-> "send", byte |-> b, n |-> 8] /\ card' = card /\ port' = port /\ A' = A
  BY DEF Send
<1>2. After' = Next8(b) /\ Got' = A /\ MosiAfter' = b % 2 /\ ~SpiIdle'
  BY <1>1 DEF After, Got, MosiAfter, SpiIdle, Outgoing, Next8
<1>3. spi' \in [op : {"idle", "send", "recv"}, byte : Byte, n : 0..8] /\ spi'.n = 8
  BY <1>1
<1>4. b \div 2^8 = 0 /\ 8 % 8 = 0 /\ 8 - 8 = 0
  BY Powers DEF Byte
<1>5. /\ port \in [cs : Bit, clk : {0}, mosi : Bit] /\ (~card.present => card.miso_bit = 1)
      /\ card.present => /\ card.clk = 0 /\ card.mosi_bit = port.mosi
                         /\ card.mosi_bit_count = 0 /\ card.miso_bit_count = 0
                         /\ card.mosi_shift_reg = 0
  BY DEF SdInv, WireInv
<1>6. Outgoing' = b
  BY <1>1 DEF Outgoing
<1>7. WireInv'
  BY <1>1, <1>2, <1>3, <1>4, <1>5, <1>6 DEF WireInv
<1> QED BY <1>1, <1>2, <1>7

LEMMA RecvStarts ==
  ASSUME SdInv, SpiIdle, card.present => port.mosi = 1, Recv
  PROVE  /\ WireInv' /\ After' = Next8(255) /\ Got' = Heard /\ MosiAfter' = port.mosi
         /\ card' = card /\ port' = port /\ A' = A /\ ~SpiIdle'
<1>1. spi' = [op |-> "recv", byte |-> 0, n |-> 8] /\ card' = card /\ port' = port /\ A' = A
  BY DEF Recv
<1>2. After' = Next8(255) /\ Got' = Heard /\ MosiAfter' = port.mosi /\ ~SpiIdle'
  BY <1>1 DEF After, Got, MosiAfter, SpiIdle, Outgoing, Next8, Heard, Incoming
<1>3. spi' \in [op : {"idle", "send", "recv"}, byte : Byte, n : 0..8] /\ spi'.n = 8
  BY <1>1 DEF Byte
<1>4. 255 \div 2^8 = 0 /\ 8 % 8 = 0 /\ 8 - 8 = 0 /\ 0 < 2^0 /\ 0 + 1 = 2^0
  BY Powers
<1>5. /\ port \in [cs : Bit, clk : {0}, mosi : Bit] /\ (~card.present => card.miso_bit = 1)
      /\ card.present => /\ card.clk = 0 /\ card.mosi_bit = port.mosi
                         /\ card.mosi_bit_count = 0 /\ card.miso_bit_count = 0
                         /\ card.mosi_shift_reg = 0
  BY DEF SdInv, WireInv
<1>6. Outgoing' = 255
  BY <1>1 DEF Outgoing
<1>7. WireInv'
  BY <1>1, <1>2, <1>3, <1>4, <1>5, <1>6 DEF WireInv
<1> QED BY <1>1, <1>2, <1>7

LEMMA QuietStays ==
  ASSUME SdInv, SpiIdle, Quiet
  PROVE  /\ WireInv' /\ After' = card /\ Got' = A /\ MosiAfter' = port.mosi
         /\ card' = card /\ port' = port /\ A' = A /\ SpiIdle'
<1>1. card' = card /\ port' = port /\ spi' = spi /\ A' = A /\ spi.op = "idle"
  BY DEF Quiet, io, SpiIdle
<1> QED BY <1>1 DEF SdInv, WireInv, After, Got, MosiAfter, SpiIdle, Outgoing

LEMMA BeforeByte ==
  ASSUME SdInv, SpiIdle
  PROVE  /\ After = card /\ Got = A /\ MosiAfter = port.mosi
         /\ card \in CardSet /\ Tame(card)
         /\ card.present => Station(card, A, port.mosi) /\ Outcome(card)
<1>1. After = card /\ Got = A /\ MosiAfter = port.mosi
  BY DEF SpiIdle, After, Got, MosiAfter
<1> QED BY <1>1 DEF SdInv, FrameInv

----------------------------------------------------------------------------
(* What a whole byte does to a card, from one byte to the next.               *)
Steady(d, c) == d \in CardSet /\ SameWrite(d, c) /\ SameStore(d, c)
Queues(d, q, r) == d.mosi_queue = q /\ d.miso_queue = r

LEMMA TakingEight ==
  ASSUME NEW c \in CardSet, NEW b \in Byte
  PROVE  LET t == Taking(c, b, 8)
         IN /\ t \in CardSet /\ SameWrite(t, c) /\ SameStore(t, c)
            /\ t.mosi_queue = Append(c.mosi_queue, b) /\ t.miso_queue = Without(c.miso_queue)
BY TakingTyped DEF Becomes, OutQueue

LEMMA ByteWaits ==
  ASSUME NEW c \in CardSet, Tame(c), Listens(c)
  PROVE  LET d == AfterByte(c, 255, 8)
         IN Steady(d, c) /\ Queues(d, <<>>, Without(c.miso_queue)) /\ Listens(d) /\ Tame(d)
<1> DEFINE t == Taking(c, 255, 8)
           d == [t EXCEPT !.mosi_queue = <<>>]
<1>1. /\ t \in CardSet /\ SameWrite(t, c) /\ SameStore(t, c)
      /\ t.mosi_queue = Append(c.mosi_queue, 255) /\ t.miso_queue = Without(c.miso_queue)
  <2> DEFINE b == 255
  <2>1. b \in Byte
    BY DEF Byte
  <2> HIDE DEF b
  <2> DEFINE s == Taking(c, b, 8)
  <2>2. /\ s \in CardSet /\ SameWrite(s, c) /\ SameStore(s, c)
        /\ s.mosi_queue = Append(c.mosi_queue, b) /\ s.miso_queue = Without(c.miso_queue)
    BY <2>1, TakingTyped DEF Becomes, OutQueue
  <2> QED BY <2>2 DEF b
<1>2. t.mosi_queue = <<255>> /\ ~t.awaiting_write_block
  BY <1>1 DEF Listens, SameWrite
<1> HIDE DEF t
<1>3. digest_sd(t) = d
  BY <1>2, DigestWait
<1>4. /\ d \in CardSet /\ SameWrite(d, t) /\ SameStore(d, t)
      /\ d.mosi_queue = <<>> /\ d.miso_queue = t.miso_queue
  <2>1. <<>> \in Seq(Byte)
    OBVIOUS
  <2> QED BY <1>1, <2>1, Requeue DEF Becomes
<1> HIDE DEF d
<1>5. Steady(d, c) /\ Queues(d, <<>>, Without(c.miso_queue))
  BY <1>1, <1>4 DEF Steady, Queues, SameWrite, SameStore
<1>6. Listens(d) /\ Tame(d)
  <2>1. d.awaiting_write_block = c.awaiting_write_block /\ d.write_payload = c.write_payload
    BY <1>5 DEF Steady, SameWrite
  <2>2. d.mosi_queue = <<>> /\ Len(<<>>) < 6
    BY <1>4
  <2> QED BY <2>1, <2>2 DEF Listens, Tame, Storable
<1> QED BY <1>3, <1>5, <1>6 DEF AfterByte, t

LEMMA ByteKept ==
  ASSUME NEW c \in CardSet, Tame(c), ~c.awaiting_write_block, NEW b \in Byte,
         Len(c.mosi_queue) < 5, c.mosi_queue = <<>> => b # 255,
         c.mosi_queue # <<>> => c.mosi_queue[1] # 255
  PROVE  LET d == AfterByte(c, b, 8)
         IN Steady(d, c) /\ Queues(d, Append(c.mosi_queue, b), Without(c.miso_queue)) /\ Tame(d)
<1> DEFINE t == Taking(c, b, 8)
           q == c.mosi_queue
           r == t.mosi_queue
<1>1. /\ t \in CardSet /\ SameWrite(t, c) /\ SameStore(t, c)
      /\ r = Append(q, b) /\ t.miso_queue = Without(c.miso_queue)
  BY TakingTyped DEF Becomes, OutQueue
<1>2. q \in Seq(Byte)
  BY DEF CardSet
<1>3. r \in Seq(Byte) /\ Len(r) < 6 /\ r # <<255>>
  <2> HIDE DEF r, q, t
  <2>1. r \in Seq(Byte) /\ Len(r) = Len(q) + 1 /\ Len(q) \in Nat /\ Len(q) < 5
    BY <1>1, <1>2 DEF q
  <2>2. r # <<255>>
    <3>1. CASE q = <<>>
      BY <1>1, <3>1 DEF q
    <3>2. CASE q # <<>>
      <4>1. r[1] = q[1]
        BY <1>1, <1>2, <3>2
      <4> QED BY <4>1, <3>2 DEF q
    <3> QED BY <3>1, <3>2
  <2> QED BY <2>1, <2>2
<1>4. ~t.awaiting_write_block /\ t.write_payload = c.write_payload
  BY <1>1 DEF SameWrite
<1>5. digest_sd(t) = t
  BY <1>3, <1>4, DigestPart
<1>6. Tame(t)
  BY <1>3, <1>4 DEF Tame, Storable
<1> HIDE DEF t
<1> QED BY <1>1, <1>5, <1>6 DEF AfterByte, Steady, Queues, t

(* An answer, byte by byte.                                                   *)
LEMMA StreamStep ==
  ASSUME NEW c \in CardSet, Tame(c), Listens(c), NEW reply \in Seq(Byte),
         NEW k \in 0..(Len(reply) - 1), Sent(c, k, reply)
  PROVE  LET d == AfterByte(c, 255, 8)
         IN /\ c.miso_queue # <<>> /\ Head(c.miso_queue) = reply[k + 1]
            /\ Steady(d, c) /\ Listens(d) /\ Tame(d)
            /\ Streams(d, Head(c.miso_queue), k + 1, reply)
<1> DEFINE n == Len(reply)
           q == SubSeq(reply, k + 1, n)
           d == AfterByte(c, 255, 8)
<1>1. n \in Nat /\ k \in Nat /\ k < n /\ c.miso_queue = q
  BY DEF Sent
<1>2. q # <<>> /\ Head(q) = reply[k + 1] /\ Tail(q) = SubSeq(reply, k + 2, n)
  <2>1. q \in Seq(Byte) /\ Len(q) = n - k /\ \A j \in 1..(n - k) : q[j] = reply[k + j]
    BY <1>1
  <2> DEFINE r == SubSeq(reply, k + 2, n)
  <2>2. r \in Seq(Byte) /\ Len(r) = n - k - 1 /\ \A j \in 1..(n - k - 1) : r[j] = reply[k + 1 + j]
    BY <1>1
  <2> HIDE DEF n, q, r
  <2>3. q # <<>> /\ Head(q) = q[1] /\ q[1] = reply[k + 1]
    BY <1>1, <2>1
  <2>4. Tail(q) \in Seq(Byte) /\ Len(Tail(q)) = n - k - 1
    BY <1>1, <2>1, <2>3
  <2>5. \A j \in 1..(n - k - 1) : Tail(q)[j] = q[j + 1]
    BY <1>1, <2>1, <2>3
  <2>6. \A j \in 1..(n - k - 1) : Tail(q)[j] = r[j]
    BY <1>1, <2>1, <2>2, <2>5
  <2>7. Tail(q) = r
    BY <2>2, <2>4, <2>6, SeqEqual
  <2> QED BY <2>3, <2>7 DEF r
<1>3. Steady(d, c) /\ Listens(d) /\ Tame(d) /\ d.miso_queue = Without(c.miso_queue)
  BY ByteWaits DEF Queues
<1> HIDE DEF d, q, n
<1>4. Sent(d, k + 1, reply)
  <2>1. k + 1 + 1 = k + 2
    BY <1>1
  <2> QED BY <1>1, <1>2, <1>3, <2>1 DEF Sent, Without, n
<1>5. Streams(d, Head(c.miso_queue), k + 1, reply)
  <2>1. k + 1 \in 1..Len(reply)
    BY <1>1 DEF n
  <2> QED BY <1>1, <1>2, <1>4, <2>1 DEF Streams
<1> QED BY <1>1, <1>2, <1>3, <1>5 DEF d

LEMMA StreamEnds ==
  ASSUME NEW c, NEW reply \in Seq(Byte), Sent(c, Len(reply), reply) PROVE c.miso_queue = <<>>
<1>1. SubSeq(reply, Len(reply) + 1, Len(reply)) = <<>>
  OBVIOUS
<1> QED BY <1>1 DEF Sent

LEMMA StreamStarts ==
  ASSUME NEW c, NEW reply \in Seq(Byte), c.miso_queue = reply PROVE Sent(c, 0, reply)
<1>1. SubSeq(reply, 1, Len(reply)) = reply /\ 0 + 1 = 1
  <2>1. SubSeq(reply, 1, Len(reply)) \in Seq(Byte) /\ Len(SubSeq(reply, 1, Len(reply))) = Len(reply)
    OBVIOUS
  <2>2. \A j \in 1..Len(reply) : SubSeq(reply, 1, Len(reply))[j] = reply[j]
    OBVIOUS
  <2> QED BY <2>1, <2>2, SeqEqual
<1> QED BY <1>1 DEF Sent

LEMMA OneMore ==
  ASSUME NEW S, NEW s \in Seq(S), NEW k \in 1..Len(s)
  PROVE  /\ Append(SubSeq(s, 1, k - 1), s[k]) = SubSeq(s, 1, k) /\ s[k] \in S
         /\ SubSeq(s, 1, k - 1) \in Seq(S) /\ Len(SubSeq(s, 1, k - 1)) = k - 1
         /\ k > 1 => SubSeq(s, 1, k - 1)[1] = s[1]
<1> DEFINE q == SubSeq(s, 1, k - 1)
           r == SubSeq(s, 1, k)
<1>1. k \in 1..Len(s) /\ Len(s) \in Nat /\ k - 1 \in Nat /\ s[k] \in S
  OBVIOUS
<1>2. q \in Seq(S) /\ Len(q) = k - 1 /\ \A j \in 1..(k - 1) : q[j] = s[j]
  BY <1>1
<1>3. r \in Seq(S) /\ Len(r) = k /\ \A j \in 1..k : r[j] = s[j]
  BY <1>1
<1> HIDE DEF q, r
<1> DEFINE p == Append(q, s[k])
<1>4. p \in Seq(S) /\ Len(p) = k /\ p[k] = s[k] /\ \A j \in 1..(k - 1) : p[j] = q[j]
  BY <1>1, <1>2
<1> HIDE DEF p
<1>5. \A j \in 1..k : j = k \/ j \in 1..(k - 1)
  BY <1>1
<1>6. \A j \in 1..k : p[j] = r[j]
  BY <1>1, <1>2, <1>3, <1>4, <1>5
<1>7. p = r
  BY <1>3, <1>4, <1>6, SeqEqual
<1>8. k > 1 => q[1] = s[1]
  BY <1>1, <1>2
<1> QED BY <1>1, <1>2, <1>7, <1>8 DEF p, q, r

LEMMA AllOfIt == ASSUME NEW S, NEW s \in Seq(S) PROVE SubSeq(s, 1, Len(s)) = s
<1> DEFINE r == SubSeq(s, 1, Len(s))
<1>1. r \in Seq(S) /\ Len(r) = Len(s) /\ \A j \in 1..Len(s) : r[j] = s[j]
  OBVIOUS
<1> HIDE DEF r
<1>2. r = s
  BY <1>1, SeqEqual
<1> QED BY <1>2 DEF r

(* A command, byte by byte.                                                   *)
LEMMA CommandMiddle ==
  ASSUME NEW c \in CardSet, Tame(c), ~c.awaiting_write_block, NEW cmd \in Seq(Byte),
         Len(cmd) = 6, cmd[1] # 255, NEW k \in 1..5, c.mosi_queue = SubSeq(cmd, 1, k - 1)
  PROVE  LET d == AfterByte(c, cmd[k], 8)
         IN Steady(d, c) /\ Queues(d, SubSeq(cmd, 1, k), Without(c.miso_queue)) /\ Tame(d)
<1> DEFINE q == SubSeq(cmd, 1, k - 1)
           b == cmd[k]
<1>0. k \in 1..Len(cmd)
  OBVIOUS
<1>1. /\ q \in Seq(Byte) /\ Len(q) = k - 1 /\ b \in Byte /\ Append(q, b) = SubSeq(cmd, 1, k)
      /\ k > 1 => q[1] = cmd[1]
  <2>1. \A j \in 1..Len(cmd) :
          /\ Append(SubSeq(cmd, 1, j - 1), cmd[j]) = SubSeq(cmd, 1, j) /\ cmd[j] \in Byte
          /\ SubSeq(cmd, 1, j - 1) \in Seq(Byte) /\ Len(SubSeq(cmd, 1, j - 1)) = j - 1
          /\ j > 1 => SubSeq(cmd, 1, j - 1)[1] = cmd[1]
    BY OneMore, ZenonT(60)
  <2> QED BY <1>0, <2>1, ZenonT(60)
<1>2. c.mosi_queue = q /\ (k = 1 => b # 255)
  OBVIOUS
<1> HIDE DEF q, b
<1>3. Len(q) < 5 /\ (q = <<>> => k = 1) /\ (q # <<>> => k > 1)
  BY <1>1
<1>4. /\ Len(c.mosi_queue) < 5 /\ (c.mosi_queue = <<>> => b # 255)
      /\ c.mosi_queue # <<>> => c.mosi_queue[1] # 255
  BY <1>1, <1>2, <1>3
<1>5. LET d == AfterByte(c, b, 8)
      IN Steady(d, c) /\ Queues(d, Append(c.mosi_queue, b), Without(c.miso_queue)) /\ Tame(d)
  BY <1>1, <1>4, ByteKept
<1> QED BY <1>1, <1>2, <1>5 DEF b

LEMMA CommandEnds ==
  ASSUME NEW c \in CardSet, Tame(c), ~c.awaiting_write_block, c.miso_queue = <<>>,
         NEW cmd \in Seq(Byte), Len(cmd) = 6, c.mosi_queue = SubSeq(cmd, 1, 5)
  PROVE  \E e \in CardSet : /\ SameWrite(e, c) /\ SameStore(e, c) /\ Queues(e, <<>>, <<>>)
                            /\ AfterByte(c, cmd[6], 8) = Obey(e, cmd)
<1> DEFINE b == cmd[6]
           t == Taking(c, b, 8)
           e == [t EXCEPT !.mosi_queue = <<>>]
<1>0. 6 \in 1..Len(cmd) /\ 6 - 1 = 5
  OBVIOUS
<1>1. b \in Byte /\ Append(SubSeq(cmd, 1, 5), b) = SubSeq(cmd, 1, 6) /\ SubSeq(cmd, 1, 6) = cmd
  BY <1>0, OneMore, AllOfIt
<1>2. Append(c.mosi_queue, b) = cmd
  BY <1>1
<1> HIDE DEF b
<1>3. /\ t \in CardSet /\ SameWrite(t, c) /\ SameStore(t, c)
      /\ t.mosi_queue = Append(c.mosi_queue, b) /\ t.miso_queue = Without(c.miso_queue)
  BY <1>1, TakingEight, Zenon
<1>4. t.mosi_queue = cmd /\ t.miso_queue = <<>> /\ ~t.awaiting_write_block
  BY <1>2, <1>3 DEF Without, SameWrite
<1> HIDE DEF t
<1>5. digest_sd(t) = Obey(e, cmd)
  BY <1>4, DigestCommand
<1>6. /\ e \in CardSet /\ SameWrite(e, t) /\ SameStore(e, t)
      /\ e.mosi_queue = <<>> /\ e.miso_queue = t.miso_queue
  <2>1. <<>> \in Seq(Byte)
    OBVIOUS
  <2> QED BY <1>3, <2>1, Requeue DEF Becomes
<1> HIDE DEF e
<1>7. SameWrite(e, c) /\ SameStore(e, c) /\ Queues(e, <<>>, <<>>)
  BY <1>3, <1>4, <1>6 DEF SameWrite, SameStore, Queues
<1> QED BY <1>5, <1>6, <1>7 DEF AfterByte, t, b

LEMMA KnownCommands ==
  \A cmd \in Known : cmd \in Seq(Byte) /\ Len(cmd) = 6 /\ cmd[1] # 255 /\ cmd[1] # 81 /\ cmd[1] # 88
<1>1. Len(Cmd00) = 6 /\ Cmd00[1] = 64
  BY DEF Cmd00
<1>2. Len(Cmd08) = 6 /\ Cmd08[1] = 72
  BY DEF Cmd08
<1>3. Len(Cmd55) = 6 /\ Cmd55[1] = 119
  BY DEF Cmd55
<1>4. Len(Acmd41) = 6 /\ Acmd41[1] = 105
  BY DEF Acmd41
<1>5. Len(Cmd58) = 6 /\ Cmd58[1] = 122
  BY DEF Cmd58
<1>6. \A cmd \in Known : cmd \in Seq(Byte)
  BY Answering
<1> QED BY <1>1, <1>2, <1>3, <1>4, <1>5, <1>6, SMTT(40) DEF Known

SectorCommand(cmd, first, lba) ==
  /\ cmd \in Seq(Byte) /\ Len(cmd) = 6 /\ cmd[1] = first /\ cmd \notin Known /\ Address(cmd) = lba
LEMMA ReadCommand ==
  ASSUME NEW lba \in 0..255 PROVE SectorCommand(Cmd17(lba), 81, lba) /\ Cmd17(lba)[6] = 1
<1>1. lba \in Byte /\ lba \in Nat /\ 81 \in Byte /\ 0 \in Byte /\ 1 \in Byte
  BY DEF Byte
<1>2. /\ Cmd17(lba) \in Seq(Byte) /\ Len(Cmd17(lba)) = 6 /\ Cmd17(lba)[1] = 81 /\ Cmd17(lba)[6] = 1
      /\ Address(Cmd17(lba)) = lba
  BY <1>1 DEF Cmd17, Address
<1> QED BY <1>2, KnownCommands DEF SectorCommand

LEMMA WriteCommand == ASSUME NEW lba \in 0..255 PROVE SectorCommand(Cmd24(lba), 88, lba)
<1>1. lba \in Byte /\ lba \in Nat /\ 88 \in Byte /\ 0 \in Byte /\ 1 \in Byte
  BY DEF Byte
<1>2. Cmd24(lba) \in Seq(Byte) /\ Len(Cmd24(lba)) = 6 /\ Cmd24(lba)[1] = 88 /\ Address(Cmd24(lba)) = lba
  BY <1>1 DEF Cmd24, Address
<1> QED BY <1>2, KnownCommands DEF SectorCommand

(* The card's answer to a command whose sixth byte is in.                     *)
CommandIn(c, cmd) ==
  /\ Tame(c) /\ ~c.awaiting_write_block /\ c.miso_queue = <<>> /\ c.mosi_queue = SubSeq(cmd, 1, 5)

LEMMA ListeningTame ==
  ASSUME NEW c, Tame(c), NEW d, SameWrite(d, c), Listens(d) PROVE Tame(d)
<1>1. Len(<<>>) < 6
  OBVIOUS
<1> QED BY <1>1 DEF Tame, SameWrite, Listens, Storable

LEMMA NoneBefore == ASSUME NEW q \in Seq(Byte) PROVE <<>> \o q = q
OBVIOUS

LEMMA KnownAnswer ==
  ASSUME NEW c \in CardSet, NEW cmd \in Known, CommandIn(c, cmd)
  PROVE  LET d == AfterByte(c, cmd[6], 8)
         IN Steady(d, c) /\ Listens(d) /\ Tame(d) /\ d.miso_queue = Response(cmd)
<1>1. cmd \in Seq(Byte) /\ Len(cmd) = 6
  BY KnownCommands
<1>2. PICK e \in CardSet : /\ SameWrite(e, c) /\ SameStore(e, c) /\ Queues(e, <<>>, <<>>)
                           /\ AfterByte(c, cmd[6], 8) = Obey(e, cmd)
  BY <1>1, CommandEnds DEF CommandIn
<1> DEFINE d == load_response(e, Response(cmd))
<1>3. AfterByte(c, cmd[6], 8) = d
  BY <1>2 DEF Obey
<1>4. Response(cmd) \in Seq(Byte)
  BY Answering
<1>5. /\ d \in CardSet /\ SameWrite(d, e) /\ SameStore(d, e)
      /\ d.mosi_queue = e.mosi_queue /\ d.miso_queue = e.miso_queue \o Response(cmd)
  BY <1>4, LoadResponse DEF Becomes
<1> HIDE DEF d
<1>6. SameWrite(d, c) /\ SameStore(d, c)
  BY <1>2, <1>5 DEF SameWrite, SameStore
<1>7. d.mosi_queue = <<>> /\ d.miso_queue = Response(cmd)
  BY <1>2, <1>4, <1>5, NoneBefore DEF Queues
<1>8. Listens(d)
  BY <1>6, <1>7 DEF Listens, SameWrite, CommandIn
<1>9. Tame(d)
  BY <1>6, <1>8, ListeningTame DEF CommandIn
<1> QED BY <1>3, <1>5, <1>6, <1>7, <1>8, <1>9 DEF Steady

LEMMA WriteAnswer ==
  ASSUME NEW c \in CardSet, NEW lba \in 0..255, CommandIn(c, Cmd24(lba))
  PROVE  LET d == AfterByte(c, Cmd24(lba)[6], 8)
         IN /\ d \in CardSet /\ SameStore(d, c) /\ Tame(d) /\ Queues(d, <<>>, <<255, 0>>)
            /\ d.awaiting_write_block = TRUE /\ d.cmd24_seen_token = FALSE
            /\ d.pending_write_addr = lba /\ d.write_payload = <<>>
<1> DEFINE cmd == Cmd24(lba)
<1>1. cmd \in Seq(Byte) /\ Len(cmd) = 6 /\ cmd \notin Known /\ cmd[1] = 88 /\ Address(cmd) = lba
  BY WriteCommand, Zenon DEF SectorCommand
<1> HIDE DEF cmd
<1>2. CommandIn(c, cmd)
  BY DEF cmd
<1>3. PICK e \in CardSet : /\ SameWrite(e, c) /\ SameStore(e, c) /\ Queues(e, <<>>, <<>>)
                           /\ AfterByte(c, cmd[6], 8) = Obey(e, cmd)
  BY <1>1, <1>2, CommandEnds DEF CommandIn
<1> DEFINE d == AcceptWrite(e, lba)
<1>4. AfterByte(c, cmd[6], 8) = d
  BY <1>1, <1>3 DEF Obey
<1>5. /\ d \in CardSet /\ SameStore(d, e)
      /\ d.awaiting_write_block = TRUE /\ d.cmd24_seen_token = FALSE /\ d.pending_write_addr = lba
      /\ d.write_payload = <<>> /\ d.mosi_queue = e.mosi_queue
      /\ d.miso_queue = e.miso_queue \o <<255, 0>>
  <2>1. lba \in Nat
    OBVIOUS
  <2> QED BY <2>1, WriteTyped, ZenonT(60) DEF Becomes
<1> HIDE DEF d
<1>6. SameStore(d, c)
  BY <1>3, <1>5 DEF SameStore
<1>7. Queues(d, <<>>, <<255, 0>>)
  <2>1. <<255, 0>> \in Seq(Byte)
    BY DEF Byte
  <2>2. <<>> \o <<255, 0>> = <<255, 0>>
    BY <2>1, NoneBefore
  <2> QED BY <1>3, <1>5, <2>2 DEF Queues
<1>8. Tame(d)
  <2>1. Len(<<>>) = 0 /\ 0 < 6 /\ 0 < SECTOR + 2 /\ ~(0 >= SECTOR)
    BY CardAssumption DEF CardAssumption
  <2> QED BY <1>5, <1>7, <2>1 DEF Tame, Storable, Queues
<1> QED BY <1>4, <1>5, <1>6, <1>7, <1>8 DEF cmd

SameSectors(d, c) ==
  /\ d.present = c.present /\ d.image = c.image /\ d.read_only = c.read_only
  /\ d.dirty_blocks = c.dirty_blocks
LEMMA SectorAsked ==
  ASSUME NEW e \in CardSet, e.miso_queue = <<>>, NEW lba \in 0..255
  PROVE  LET d == load_response_cmd17(e, lba)
             held == Contents(e, lba)
         IN /\ d \in CardSet /\ SameWrite(d, e) /\ SameSectors(d, e) /\ d.mosi_queue = e.mosi_queue
            /\ d.failed = e.failed \/ (d.failed /\ held = NoSector)
            /\ \/ d.failed /\ d.miso_queue = <<>>
               \/ held \in HeldSectors /\ d.miso_queue = SectorResponse(held)
            /\ held = NoSector \/ ~(lba \notin DOMAIN e.dirty_blocks /\ lba >= Len(e.image))
<1> DEFINE held == Contents(e, lba)
           d == load_response_cmd17(e, lba)
<1>1. e.image \in Seq(HeldSectors) /\ Len(e.image) \in Nat
  BY DEF CardSet
<1>2. lba \in Nat /\ lba % Wrap = lba
  <2>1. Wrap \in Nat /\ Wrap > 255
    BY DEF Wrap
  <2> QED BY <2>1
<1> DEFINE Goal == /\ d \in CardSet /\ SameWrite(d, e) /\ SameSectors(d, e) /\ d.mosi_queue = e.mosi_queue
                   /\ d.failed = e.failed \/ (d.failed /\ held = NoSector)
                   /\ \/ d.failed /\ d.miso_queue = <<>>
                      \/ held \in HeldSectors /\ d.miso_queue = SectorResponse(held)
                   /\ held = NoSector \/ ~(lba \notin DOMAIN e.dirty_blocks /\ lba >= Len(e.image))
<1>3. ASSUME held \in HeldSectors, d = load_response(e, SectorResponse(held)),
             lba \in DOMAIN e.dirty_blocks \/ ~(lba >= Len(e.image))
      PROVE  Goal
  <2> HIDE DEF held, d
  <2> DEFINE resp == SectorResponse(held)
  <2>1. resp \in Seq(Byte)
    BY <1>3, SectorAnswer
  <2> HIDE DEF resp
  <2>2. d = load_response(e, resp)
    BY <1>3 DEF resp
  <2>3. /\ d \in CardSet /\ SameWrite(d, e) /\ SameStore(d, e)
        /\ d.mosi_queue = e.mosi_queue /\ d.miso_queue = e.miso_queue \o resp
    BY <2>1, <2>2, LoadResponse DEF Becomes
  <2>4. d.miso_queue = resp
    BY <2>1, <2>3, NoneBefore
  <2> QED BY <1>3, <2>3, <2>4 DEF SameStore, SameSectors, resp
<1>4. CASE lba \in DOMAIN e.dirty_blocks
  <2>1. held = e.dirty_blocks[lba]
    BY <1>4 DEF Contents
  <2>2. held \in HeldSectors
    BY <1>4, <2>1, Blocks
  <2> QED BY <1>3, <1>4, <2>1, <2>2, ReadDirty
<1>5. CASE lba \notin DOMAIN e.dirty_blocks /\ e.failed
  <2>1. d = e
    BY <1>5, ReadFailed
  <2>2. held = NoSector \/ ~(lba >= Len(e.image))
    BY <1>1, <1>2, <1>5 DEF Contents
  <2> HIDE DEF d, held
  <2>3. Goal
    BY <1>5, <2>1, <2>2 DEF SameWrite, SameSectors
  <2> QED BY <2>3 DEF d, held
<1>6. CASE lba \notin DOMAIN e.dirty_blocks /\ ~e.failed /\ lba >= Len(e.image)
  <2>1. d = [e EXCEPT !.failed = TRUE]
    BY <1>2, <1>6, ReadBeyond
  <2>2. held = NoSector
    BY <1>1, <1>2, <1>6 DEF Contents
  <2> DEFINE t == TRUE
             f == [e EXCEPT !.failed = t]
  <2>3. t \in BOOLEAN
    OBVIOUS
  <2> HIDE DEF t
  <2>4. /\ f \in CardSet /\ SameWrite(f, e)
        /\ f.mosi_queue = e.mosi_queue /\ f.miso_queue = e.miso_queue
        /\ f.present = e.present /\ f.image = e.image /\ f.read_only = e.read_only
        /\ f.dirty_blocks = e.dirty_blocks /\ f.failed = t
    BY <2>3, Fails DEF Becomes
  <2>5. d = f /\ t = TRUE
    BY <2>1 DEF t
  <2> HIDE DEF d, held, f
  <2>6. Goal
    BY <2>2, <2>4, <2>5 DEF SameSectors
  <2> QED BY <2>6 DEF d, held
<1>7. CASE lba \notin DOMAIN e.dirty_blocks /\ ~e.failed /\ ~(lba >= Len(e.image))
  <2>1. held = e.image[lba + 1] /\ lba \in 0..(Len(e.image) - 1)
    BY <1>1, <1>2, <1>7 DEF Contents
  <2>2. held \in HeldSectors
    BY <2>1, Blocks
  <2>3. d = load_response(e, SectorResponse(held))
    BY <1>2, <1>7, <2>1, ReadImage
  <2> QED BY <1>3, <1>7, <2>2, <2>3
<1> QED BY <1>4, <1>5, <1>6, <1>7, Zenon

LEMMA ReadAnswer ==
  ASSUME NEW c \in CardSet, NEW lba \in 0..255, CommandIn(c, Cmd17(lba))
  PROVE  LET d == AfterByte(c, Cmd17(lba)[6], 8)
             held == Contents(d, lba)
         IN /\ d \in CardSet /\ SameWrite(d, c) /\ SameSectors(d, c) /\ Tame(d) /\ Listens(d)
            /\ d.failed = c.failed \/ (d.failed /\ held = NoSector)
            /\ \/ d.failed /\ d.miso_queue = <<>>
               \/ held \in HeldSectors /\ d.miso_queue = SectorResponse(held)
            /\ held = NoSector \/ ~(lba \notin DOMAIN d.dirty_blocks /\ lba >= Len(d.image))
<1> DEFINE cmd == Cmd17(lba)
<1>1. cmd \in Seq(Byte) /\ Len(cmd) = 6 /\ cmd \notin Known /\ cmd[1] = 81 /\ cmd[6] = 1 /\ Address(cmd) = lba
  BY ReadCommand, Zenon DEF SectorCommand
<1> HIDE DEF cmd
<1>2. CommandIn(c, cmd)
  BY DEF cmd
<1>3. PICK e \in CardSet : /\ SameWrite(e, c) /\ SameStore(e, c) /\ Queues(e, <<>>, <<>>)
                           /\ AfterByte(c, cmd[6], 8) = Obey(e, cmd)
  BY <1>1, <1>2, CommandEnds DEF CommandIn
<1> DEFINE d == load_response_cmd17(e, lba)
           held == Contents(e, lba)
<1>4. AfterByte(c, cmd[6], 8) = d
  BY <1>1, <1>3 DEF Obey
<1>5. /\ d \in CardSet /\ SameWrite(d, e) /\ SameSectors(d, e) /\ d.mosi_queue = e.mosi_queue
      /\ d.failed = e.failed \/ (d.failed /\ held = NoSector)
      /\ \/ d.failed /\ d.miso_queue = <<>>
         \/ held \in HeldSectors /\ d.miso_queue = SectorResponse(held)
      /\ held = NoSector \/ ~(lba \notin DOMAIN e.dirty_blocks /\ lba >= Len(e.image))
  BY <1>3, SectorAsked DEF Queues
<1> HIDE DEF d, held
<1>6. Contents(d, lba) = held
  BY <1>5 DEF SameSectors, Contents, held
<1>7. SameWrite(d, c) /\ SameSectors(d, c) /\ (d.failed = e.failed <=> d.failed = c.failed)
  BY <1>3, <1>5 DEF SameWrite, SameSectors, SameStore
<1>8. Listens(d)
  BY <1>2, <1>3, <1>5, <1>7 DEF Listens, SameWrite, CommandIn, Queues
<1>9. Tame(d)
  BY <1>2, <1>7, <1>8, ListeningTame DEF CommandIn
<1>10. DOMAIN d.dirty_blocks = DOMAIN e.dirty_blocks /\ d.image = e.image
  BY <1>5 DEF SameSectors
<1> QED BY <1>4, <1>5, <1>6, <1>7, <1>8, <1>9, <1>10 DEF cmd

(* A byte of a write.                                                         *)
LEMMA PayloadIn ==
  ASSUME NEW c \in CardSet, c.awaiting_write_block, c.mosi_queue = <<>>, NEW b \in Byte
  PROVE  \E e \in CardSet : /\ SameWrite(e, c) /\ SameStore(e, c)
                            /\ Queues(e, <<>>, Without(c.miso_queue))
                            /\ AfterByte(c, b, 8) = PayloadByte(e, b)
<1> DEFINE t == Taking(c, b, 8)
           e == [t EXCEPT !.mosi_queue = <<>>]
<1>1. /\ t \in CardSet /\ SameWrite(t, c) /\ SameStore(t, c)
      /\ t.mosi_queue = Append(c.mosi_queue, b) /\ t.miso_queue = Without(c.miso_queue)
  BY TakingEight, Zenon
<1>2. t.mosi_queue = <<b>> /\ t.awaiting_write_block
  <2>1. Append(<<>>, b) = <<b>>
    OBVIOUS
  <2> QED BY <1>1, <2>1 DEF SameWrite
<1> HIDE DEF t
<1>3. digest_sd(t) = PayloadByte(e, b)
  BY <1>1, <1>2, DigestPayload
<1>4. /\ e \in CardSet /\ SameWrite(e, t) /\ SameStore(e, t)
      /\ e.mosi_queue = <<>> /\ e.miso_queue = t.miso_queue
  <2>1. <<>> \in Seq(Byte)
    OBVIOUS
  <2> QED BY <1>1, <2>1, Requeue DEF Becomes
<1> HIDE DEF e
<1>5. SameWrite(e, c) /\ SameStore(e, c) /\ Queues(e, <<>>, Without(c.miso_queue))
  BY <1>1, <1>4 DEF SameWrite, SameStore, Queues
<1> QED BY <1>3, <1>4, <1>5 DEF AfterByte, t

LEMMA TokenIn ==
  ASSUME NEW c \in CardSet, c.awaiting_write_block = TRUE, c.mosi_queue = <<>>, ~c.cmd24_seen_token
  PROVE  LET d == AfterByte(c, 254, 8)
         IN /\ d \in CardSet /\ SameStore(d, c) /\ Queues(d, <<>>, Without(c.miso_queue))
            /\ d.awaiting_write_block = TRUE /\ d.cmd24_seen_token = TRUE
            /\ d.pending_write_addr = c.pending_write_addr /\ d.write_payload = c.write_payload
<1> DEFINE b == 254
<1>1. b \in Byte /\ (b = 254) = TRUE
  BY DEF Byte
<1> HIDE DEF b
<1>2. PICK e \in CardSet : /\ SameWrite(e, c) /\ SameStore(e, c)
                           /\ Queues(e, <<>>, Without(c.miso_queue))
                           /\ AfterByte(c, b, 8) = PayloadByte(e, b)
  BY <1>1, PayloadIn
<1> DEFINE d == PayloadByte(e, b)
<1>3. TokenTaken(d, e, b)
  BY <1>1, <1>2, PayloadToken DEF SameWrite
<1> HIDE DEF d
<1>4. /\ d \in CardSet /\ SameStore(d, c) /\ Queues(d, <<>>, Without(c.miso_queue))
      /\ d.awaiting_write_block = TRUE /\ d.cmd24_seen_token = (b = 254)
      /\ d.pending_write_addr = c.pending_write_addr /\ d.write_payload = c.write_payload
  BY <1>2, <1>3 DEF TokenTaken, SameWrite, SameStore, Queues, Becomes
<1>5. d.cmd24_seen_token = TRUE
  BY <1>1, <1>4
<1> QED BY <1>2, <1>4, <1>5 DEF d, b

LEMMA PayloadGrows ==
  ASSUME NEW c \in CardSet, c.awaiting_write_block = TRUE, c.mosi_queue = <<>>,
         c.cmd24_seen_token = TRUE, Len(c.write_payload) + 1 < SECTOR + 2, NEW b \in Byte
  PROVE  LET d == AfterByte(c, b, 8)
         IN /\ d \in CardSet /\ SameStore(d, c) /\ Queues(d, <<>>, Without(c.miso_queue))
            /\ d.awaiting_write_block = TRUE /\ d.cmd24_seen_token = TRUE
            /\ d.pending_write_addr = c.pending_write_addr
            /\ d.write_payload = Append(c.write_payload, b)
<1>2. PICK e \in CardSet : /\ SameWrite(e, c) /\ SameStore(e, c)
                           /\ Queues(e, <<>>, Without(c.miso_queue))
                           /\ AfterByte(c, b, 8) = PayloadByte(e, b)
  BY PayloadIn
<1> DEFINE d == PayloadByte(e, b)
<1>3. ByteTaken(d, e, b)
  <2>1. e.write_payload = c.write_payload /\ e.cmd24_seen_token
    BY <1>2 DEF SameWrite
  <2> QED BY <2>1, PayloadMiddle
<1> HIDE DEF d
<1>4. /\ d \in CardSet /\ SameStore(d, c) /\ Queues(d, <<>>, Without(c.miso_queue))
      /\ d.awaiting_write_block = TRUE /\ d.cmd24_seen_token = TRUE
      /\ d.pending_write_addr = c.pending_write_addr
      /\ d.write_payload = Append(c.write_payload, b)
  BY <1>2, <1>3 DEF ByteTaken, SameWrite, SameStore, Queues, Becomes
<1> QED BY <1>2, <1>4 DEF d

LEMMA PayloadEnds ==
  ASSUME NEW c \in CardSet, c.awaiting_write_block = TRUE, c.mosi_queue = <<>>, c.miso_queue = <<>>,
         c.cmd24_seen_token = TRUE, Len(c.write_payload) = SECTOR + 1, NEW b \in Byte,
         NEW block \in HeldSectors, block = SubSeq(c.write_payload, 1, SECTOR)
  PROVE  LET d == AfterByte(c, b, 8)
         IN /\ d \in CardSet /\ d.present = c.present /\ Queues(d, <<>>, Accepting)
            /\ d.awaiting_write_block = FALSE /\ d.write_payload = <<>>
            /\ d.failed = c.failed /\ d.read_only = c.read_only
            /\ d.image = StoredImage(c, block) /\ d.dirty_blocks = StoredBlocks(c, block)
<1>2. PICK e \in CardSet : /\ SameWrite(e, c) /\ SameStore(e, c)
                           /\ Queues(e, <<>>, Without(c.miso_queue))
                           /\ AfterByte(c, b, 8) = PayloadByte(e, b)
  BY PayloadIn
<1> DEFINE d == PayloadByte(e, b)
<1>3. e.write_payload = c.write_payload /\ e.cmd24_seen_token /\ e.pending_write_addr = c.pending_write_addr
  BY <1>2 DEF SameWrite
<1>4. /\ d \in CardSet /\ d.present = e.present
      /\ d.mosi_queue = e.mosi_queue /\ d.miso_queue = e.miso_queue \o Accepting
      /\ d.awaiting_write_block = FALSE /\ d.write_payload = <<>>
      /\ d.failed = e.failed /\ d.read_only = e.read_only
      /\ d.image = StoredImage(e, block) /\ d.dirty_blocks = StoredBlocks(e, block)
  BY <1>3, PayloadLast, ZenonT(60) DEF Becomes
<1> HIDE DEF d
<1>5. StoredImage(e, block) = StoredImage(c, block) /\ StoredBlocks(e, block) = StoredBlocks(c, block)
  BY <1>2, <1>3 DEF StoredImage, StoredBlocks, Written, SameStore
<1>6. d.miso_queue = Accepting
  <2>1. Accepting \in Seq(Byte)
    BY DEF Accepting, Byte
  <2> QED BY <1>2, <1>4, <2>1, NoneBefore DEF Queues, Without
<1>7. d.present = c.present /\ d.failed = c.failed /\ d.read_only = c.read_only
  BY <1>2, <1>4 DEF SameStore
<1> QED BY <1>2, <1>4, <1>5, <1>6, <1>7 DEF d, Queues

(* What is stored is at its address, and nothing else has changed.            *)
LEMMA StoredContents ==
  ASSUME NEW c \in CardSet, NEW block \in HeldSectors, NEW d,
         d.image = StoredImage(c, block), d.dirty_blocks = StoredBlocks(c, block),
         d.failed = c.failed, d.read_only = c.read_only, Whole(c),
         c.pending_write_addr \in Lbas
  PROVE  /\ Whole(d) /\ Contents(d, c.pending_write_addr) = block
         /\ \A lba \in Lbas : lba # c.pending_write_addr => Contents(d, lba) = Contents(c, lba)
<1> DEFINE addr == c.pending_write_addr
<1>1. addr \in Nat /\ \A lba \in Lbas : lba \in Nat
  <2>1. \A lba \in 0..255 : lba \in Nat
    OBVIOUS
  <2> QED BY <2>1, DriverAssumption DEF DriverAssumption
<1>2. CASE c.read_only
  <2>1. d.image = c.image /\ d.dirty_blocks = Keep(c.dirty_blocks, addr, block) /\ d.read_only
    BY <1>2 DEF StoredImage, StoredBlocks
  <2>2. /\ DOMAIN d.dirty_blocks = DOMAIN c.dirty_blocks \cup {addr} /\ d.dirty_blocks[addr] = block
        /\ \A a \in DOMAIN c.dirty_blocks : a # addr => d.dirty_blocks[a] = c.dirty_blocks[a]
    BY <2>1 DEF Keep
  <2>3. Contents(d, addr) = block
    BY <2>2 DEF Contents
  <2>4. ASSUME NEW lba \in Lbas, lba # addr PROVE Contents(d, lba) = Contents(c, lba)
    BY <2>1, <2>2, <2>4 DEF Contents
  <2> QED BY <2>1, <2>3, <2>4 DEF Whole
<1>3. CASE ~c.read_only
  <2> DEFINE n == Len(c.image)
             img == [k \in 1..(IF addr < n THEN n ELSE addr + 1) |->
                       IF k = addr + 1 THEN block ELSE IF k <= n THEN c.image[k] ELSE Zeros]
  <2>1. /\ ~c.failed /\ addr < n /\ c.image \in Seq(HeldSectors) /\ n \in Nat
        /\ (\A lba \in Lbas : lba < n) /\ DOMAIN c.dirty_blocks = {} /\ HoldsAll(c)
    BY <1>3 DEF Whole, HoldsAll, CardSet
  <2>2. d.image = img /\ d.dirty_blocks = c.dirty_blocks /\ ~d.read_only /\ ~d.failed
    BY <1>3, <2>1 DEF StoredImage, StoredBlocks, Written
  <2>3. /\ Len(d.image) = n /\ d.image[addr + 1] = block
        /\ \A lba \in 0..(n - 1) : lba # addr => d.image[lba + 1] = c.image[lba + 1]
    <3>1. (IF addr < n THEN n ELSE addr + 1) = n
      BY <2>1
    <3>2. d.image = [k \in 1..n |-> IF k = addr + 1 THEN block ELSE IF k <= n THEN c.image[k] ELSE Zeros]
      BY <2>2, <3>1
    <3> HIDE DEF n, img
    <3>3. Len(d.image) = n
      BY <2>1, <3>2
    <3>4. \A lba \in 0..(n - 1) : lba + 1 \in 1..n /\ lba + 1 <= n /\ (lba # addr => lba + 1 # addr + 1)
      BY <1>1, <2>1
    <3>5. addr + 1 \in 1..n
      BY <1>1, <2>1
    <3> QED BY <3>2, <3>3, <3>4, <3>5
  <2>4. Contents(d, addr) = block
    BY <2>1, <2>2, <2>3 DEF Contents
  <2>5. ASSUME NEW lba \in Lbas, lba # addr PROVE Contents(d, lba) = Contents(c, lba)
    <3> HIDE DEF n, img, addr
    <3>1. lba \in 0..(n - 1) /\ lba < n
      BY <1>1, <2>1
    <3>2. d.image[lba + 1] = c.image[lba + 1] /\ lba < Len(d.image) /\ lba < Len(c.image)
      BY <2>3, <2>5, <3>1 DEF n
    <3> QED BY <2>1, <2>2, <3>2 DEF Contents
  <2>6. Whole(d)
    BY <2>1, <2>2, <2>3 DEF Whole, HoldsAll
  <2> QED BY <2>4, <2>5, <2>6
<1> QED BY <1>2, <1>3

----------------------------------------------------------------------------
(* The invariant after a step of the driver, part by part.                    *)
LEMMA SameCommand ==
  ASSUME which' = which, call' = call
  PROVE  /\ Command' = Command
         /\ \A c : /\ Reply(c)' = Reply(c) /\ Awaits(c)' = Awaits(c) /\ Listens(c)' = Listens(c)
                   /\ Begun(c)' = Begun(c) /\ Silent(c)' = Silent(c) /\ Answers(c)' = Answers(c)
                   /\ Holds(c)' = Holds(c)
<1>1. Command' = Command
  BY DEF Command
<1>2. \A c : Reply(c)' = Reply(c)
  BY <1>1 DEF Reply
<1>3. \A c : Awaits(c)' = Awaits(c) /\ Listens(c)' = Listens(c)
  BY DEF Awaits, Listens
<1>4. \A c : Begun(c)' = Begun(c)
  BY <1>3 DEF Begun
<1>5. \A c : Silent(c)' = Silent(c) /\ Answers(c)' = Answers(c) /\ Holds(c)' = Holds(c)
  BY DEF Silent, Answers, Holds
<1> QED BY <1>1, <1>2, <1>3, <1>4, <1>5

LEMMA StoreKept ==
  ASSUME SdInv, SpiIdle, SameStore(card', card), SameStore(After', card), call' = call,
         LongEnough /\ which' = "cmd24" /\
           (pc' = "busy" \/ (pc' = "response" /\ Got' # 255) \/ (pc' \in Closing /\ r1' = 0))
             => Holds(card)
  PROVE  StoreInv'
<1>1. LongEnough' = LongEnough /\ \A c : Holds(c)' = Holds(c)
  BY DEF LongEnough, HoldsAll, Holds
<1>2. \A lba : Contents(After', lba) = Contents(card, lba) /\ Contents(card', lba) = Contents(card, lba)
  BY SameContents
<1>3. After = card
  BY BeforeByte
<1> SUFFICES ASSUME LongEnough PROVE StoreInv'
  BY <1>1 DEF StoreInv
<1>4. Whole(card') /\ Whole(After')
  BY <1>3, WholeAlike DEF SdInv, StoreInv
<1>5. Holds(After)' <=> Holds(card)
  BY <1>2 DEF Holds
<1>6. Whole(After)' = Whole(After') /\ Whole(card)' = Whole(card')
  BY DEF Whole, HoldsAll
<1> QED BY <1>2, <1>4, <1>5, <1>6 DEF StoreInv

LEMMA StationRests ==
  ASSUME pc' \in Resting \cup {"pulse", "select", "deselect"}
  PROVE  \A c, a, m : Listens(c) /\ c.miso_queue = <<>> => Station(c, a, m)'
<1>1. /\ pc' # "command" /\ pc' # "answer" /\ pc' # "r5" /\ pc' # "token" /\ pc' # "data"
      /\ pc' # "payload" /\ pc' # "response" /\ pc' # "busy"
  BY DEF Resting
<1>2. \A c : Listens(c)' = Listens(c)
  BY DEF Listens
<1> QED BY <1>1, <1>2 DEF Station

LEMMA OutcomeElsewhere ==
  ASSUME pc' \notin Closing \cup {"token", "data", "payload", "ask", "response"}
  PROVE  \A c : Outcome(c)'
BY DEF Outcome, Closing

(* Sending a byte that the card does not look at, where it does not matter.   *)
LEMMA WaitKeeps ==
  ASSUME SdInv, SpiIdle, Send(255), card.present => Listens(card)
  PROVE  /\ WireInv' /\ card' = card /\ port' = port /\ A' = A /\ SameStore(After', card) /\ ~SpiIdle'
         /\ card.present =>
              /\ After' \in CardSet /\ Tame(After') /\ Listens(After')
              /\ After'.miso_queue = Without(card.miso_queue)
<1>1. 255 \in Byte
  BY DEF Byte
<1>2. WireInv' /\ After' = Next8(255) /\ card' = card /\ port' = port /\ A' = A /\ ~SpiIdle'
  BY <1>1, SendStarts
<1>3. card \in CardSet /\ Tame(card)
  BY DEF SdInv
<1>4. CASE card.present
  <2>1. After' = AfterByte(card, 255, 8)
    BY <1>2, <1>4 DEF Next8
  <2> QED BY <1>2, <1>3, <1>4, <2>1, ByteWaits DEF Steady, Queues
<1>5. CASE ~card.present
  BY <1>2, <1>5 DEF Next8, SameStore
<1> QED BY <1>4, <1>5

LEMMA SdopenKeeps == ASSUME SdInv, Sdopen PROVE SdInv'
<1>1. /\ pc = "open" /\ SpiIdle /\ Send(255) /\ pc' = "select" /\ i' = i
      /\ UNCHANGED <<which, r1, ocr, SDBUF, ignore, call, booted, ret>>
  BY DEF Sdopen, At, Goto, Same
<1>2. card.present => Listens(card) /\ card.miso_queue = <<>>
  BY <1>1, BeforeByte DEF Station, Resting
<1>3. /\ WireInv' /\ card' = card /\ port' = port /\ A' = A /\ SameStore(After', card) /\ ~SpiIdle'
      /\ card.present =>
           /\ After' \in CardSet /\ Tame(After') /\ Listens(After')
           /\ After'.miso_queue = Without(card.miso_queue)
  BY <1>1, <1>2, WaitKeeps
<1>4. RegInv' /\ SelectInv'
  BY <1>1, <1>3 DEF SdInv, RegInv, SelectInv
<1>5. ProgInv'
  BY <1>1 DEF SdInv, ProgInv, Stations, Resting
<1>6. CallInv'
  BY <1>1 DEF SdInv, CallInv, Booting
<1>7. FrameInv'
  <2>1. pc' \in Resting \cup {"pulse", "select", "deselect"}
    BY <1>1
  <2>2. pc' \notin Closing \cup {"token", "data", "payload", "ask", "response"}
    BY <1>1 DEF Closing
  <2>3. card.present => After'.miso_queue = <<>>
    BY <1>2, <1>3 DEF Without
  <2>4. card.present => Station(After, Got, MosiAfter)' /\ Outcome(After)'
    BY <1>3, <2>1, <2>2, <2>3, StationRests, OutcomeElsewhere
  <2>5. Tame(After)' <=> Tame(After')
    BY DEF Tame, Storable
  <2> QED BY <1>3, <2>4, <2>5 DEF FrameInv
<1>8. StoreInv'
  <2>1. SameStore(card', card)
    BY <1>3 DEF SameStore
  <2> QED BY <1>1, <1>3, <2>1, StoreKept DEF Closing
<1>9. card' \in CardSet /\ Tame(card)'
  BY <1>3 DEF SdInv, Tame, Storable
<1> QED BY <1>3, <1>4, <1>5, <1>6, <1>7, <1>8, <1>9 DEF SdInv

LEMMA StoredReply ==
  ASSUME which' = which, call' = call, SDBUF' = SDBUF
  PROVE  \A c, d : SameStore(d, c) =>
           /\ Answers(d)' = Answers(c) /\ Holds(d)' = Holds(c) /\ Reply(d)' = Reply(c)
           /\ \A n : InBuffer(d, n)' = InBuffer(c, n)
<1>1. ASSUME NEW c, NEW d, SameStore(d, c)
      PROVE  /\ Answers(d)' = Answers(c) /\ Holds(d)' = Holds(c) /\ Reply(d)' = Reply(c)
             /\ \A n : InBuffer(d, n)' = InBuffer(c, n)
  <2>1. Contents(d, call.lba) = Contents(c, call.lba)
    BY <1>1, SameContents
  <2>2. Command' = Command
    BY SameCommand
  <2>3. Answers(d)' = Answers(c) /\ Holds(d)' = Holds(c)
    BY <2>1 DEF Answers, Holds
  <2>4. Reply(d)' = Reply(c)
    BY <2>1, <2>2 DEF Reply
  <2> QED BY <2>3, <2>4 DEF InBuffer
<1> QED BY <1>1

LEMMA OutcomeCloses ==
  ASSUME pc' \in Closing, which' = "cmd17" => r1' # 0 \/ r1' = 0
  PROVE  \A c : (which' = "cmd17" =>
                   IF r1' = 0 THEN Answers(c)' /\ InBuffer(c, SECTOR + 2)' ELSE c.failed)
                => Outcome(c)'
<1>1. pc' # "token" /\ pc' # "data" /\ pc' # "payload" /\ pc' # "ask" /\ pc' # "response"
  BY DEF Closing
<1>2. \A c : InBuffer(c, SECTOR + 2)' = (InBuffer(c, SECTOR + 2))'
  OBVIOUS
<1> QED BY <1>1 DEF Outcome

(* From one place where it closes to the next.                                *)
LEMMA StillCloses ==
  ASSUME pc \in Closing, pc' \in Closing, which' = which, call' = call, SDBUF' = SDBUF, r1' = r1,
         NEW c, NEW d, SameStore(d, c), Outcome(c)
  PROVE  Outcome(d)'
<1>1. which = "cmd17" => IF r1 = 0 THEN Answers(c) /\ InBuffer(c, SECTOR + 2) ELSE c.failed
  BY DEF Outcome
<1>2. /\ Answers(d)' = Answers(c) /\ InBuffer(d, SECTOR + 2)' = InBuffer(c, SECTOR + 2)
      /\ d.failed = c.failed
  BY StoredReply DEF SameStore
<1>3. which' = "cmd17" => IF r1' = 0 THEN Answers(d)' /\ InBuffer(d, SECTOR + 2)' ELSE d.failed
  BY <1>1, <1>2
<1> QED BY <1>3, OutcomeCloses

LEMMA SdcloseKeeps == ASSUME SdInv, Sdclose PROVE SdInv'
<1>1. /\ pc = "close" /\ SpiIdle /\ Send(255) /\ pc' = "deselect" /\ i' = i
      /\ UNCHANGED <<which, r1, ocr, SDBUF, ignore, call, booted, ret>>
  BY DEF Sdclose, At, Goto, Same
<1>2. card.present => Listens(card) /\ card.miso_queue = <<>> /\ Outcome(card)
  BY <1>1, BeforeByte DEF Station, Resting
<1>3. /\ WireInv' /\ card' = card /\ port' = port /\ A' = A /\ SameStore(After', card) /\ ~SpiIdle'
      /\ card.present =>
           /\ After' \in CardSet /\ Tame(After') /\ Listens(After')
           /\ After'.miso_queue = Without(card.miso_queue)
  BY <1>1, <1>2, WaitKeeps
<1>4. RegInv' /\ SelectInv'
  BY <1>1, <1>3 DEF SdInv, RegInv, SelectInv
<1>5. ProgInv'
  BY <1>1 DEF SdInv, ProgInv, Stations, Resting
<1>6. CallInv'
  BY <1>1 DEF SdInv, CallInv, Booting
<1>7. FrameInv'
  <2>1. pc' \in Resting \cup {"pulse", "select", "deselect"}
    BY <1>1
  <2>2. pc \in Closing /\ pc' \in Closing
    BY <1>1 DEF Closing
  <2>3. card.present => After'.miso_queue = <<>>
    BY <1>2, <1>3 DEF Without
  <2>4. card.present => Station(After, Got, MosiAfter)'
    BY <1>3, <2>1, <2>3, StationRests
  <2>5. card.present => Outcome(After)'
    <3>1. \A c, d : SameStore(d, c) /\ Outcome(c) => Outcome(d)'
      BY <1>1, <2>2, StillCloses
    <3> QED BY <1>2, <1>3, <3>1
  <2>6. Tame(After)' <=> Tame(After')
    BY DEF Tame, Storable
  <2> QED BY <1>3, <2>4, <2>5, <2>6 DEF FrameInv
<1>8. StoreInv'
  <2>1. SameStore(card', card)
    BY <1>3 DEF SameStore
  <2>2. LongEnough /\ which = "cmd24" /\ r1 = 0 => Holds(card)
    BY <1>1, BeforeByte DEF SdInv, StoreInv, Closing
  <2> QED BY <1>1, <1>3, <2>1, <2>2, StoreKept
<1>9. card' \in CardSet /\ Tame(card)'
  BY <1>3 DEF SdInv, Tame, Storable
<1> QED BY <1>3, <1>4, <1>5, <1>6, <1>7, <1>8, <1>9 DEF SdInv

(* A step that only moves lines while no byte is under way.                   *)
LEMMA SetKeeps ==
  ASSUME SdInv, SpiIdle, NEW p, p \in Ports, p.clk = 0, Set(p), spi' = spi, A' = A
  PROVE  /\ WireInv' /\ card' \in CardSet /\ Alike(card', card) /\ Tame(card)' /\ Tame(card')
         /\ After' = card' /\ Got' = A /\ port' = p /\ SpiIdle' /\ SameStore(card', card)
         /\ card'.present = card.present
<1>1. port' = p /\ card' = Put(card, p) /\ SpiIdle' /\ card \in CardSet /\ Tame(card)
  BY DEF Set, SpiIdle, SdInv
<1>2. After' = card' /\ Got' = A
  BY <1>1 DEF After, Got, SpiIdle
<1>3. CASE card.present
  <2> DEFINE d == update_outputs(card, p)
  <2>1. d \in CardSet /\ SameButLines(d, card) /\ d.clk = 0 /\ d.mosi_bit = p.mosi
    BY <1>1, ClockFalls
  <2>2. card' = d
    BY <1>1, <1>3 DEF Put
  <2> HIDE DEF d
  <2>3. Alike(d, card) /\ SameStore(d, card) /\ d.present = card.present
    BY <2>1 DEF SameButLines, Alike, SameStore
  <2>4. Tame(d)
    BY <1>1, <2>3 DEF Alike, SameWrite, Tame, Storable
  <2>5. /\ d.mosi_bit_count = 0 /\ d.miso_bit_count = 0 /\ d.mosi_shift_reg = 0
    BY <1>3, <2>1 DEF SdInv, WireInv, SameButLines
  <2>6. WireInv'
    <3>1. spi' \in [op : {"idle", "send", "recv"}, byte : Byte, n : 0..8] /\ spi'.op = "idle"
      BY DEF SdInv, WireInv, SpiIdle
    <3>2. port' \in [cs : Bit, clk : {0}, mosi : Bit]
      BY <1>1 DEF Ports
    <3> QED BY <1>1, <1>3, <2>1, <2>2, <2>3, <2>5, <3>1, <3>2 DEF WireInv
  <2> QED BY <1>1, <1>2, <2>1, <2>2, <2>3, <2>4, <2>6 DEF Tame, Storable
<1>4. CASE ~card.present
  <2>1. card' = card
    BY <1>1, <1>4 DEF Put
  <2>2. WireInv'
    <3>1. spi' \in [op : {"idle", "send", "recv"}, byte : Byte, n : 0..8] /\ spi'.op = "idle"
      BY DEF SdInv, WireInv, SpiIdle
    <3>2. port' \in [cs : Bit, clk : {0}, mosi : Bit]
      BY <1>1 DEF Ports
    <3>3. card.miso_bit = 1
      BY <1>4 DEF SdInv, WireInv
    <3> QED BY <1>1, <1>4, <2>1, <3>1, <3>2, <3>3 DEF WireInv
  <2> QED BY <1>1, <1>2, <2>1, <2>2 DEF Alike, SameWrite, SameStore, Tame, Storable
<1> QED BY <1>3, <1>4

(* A card alike listens as before.                                            *)
LEMMA ListensAlike ==
  ASSUME NEW c, NEW d, Alike(d, c), Listens(c), c.miso_queue = <<>>
  PROVE  Listens(d) /\ d.miso_queue = <<>>
BY DEF Alike, SameWrite, Listens

LEMMA PortTyped == ASSUME SdInv PROVE port \in Ports /\ port.clk = 0
BY DEF SdInv, WireInv, Ports, Bit

LEMMA SdinitKeeps == ASSUME SdInv, Sdinit PROVE SdInv'
<1> DEFINE p == [cs |-> 1, clk |-> 0, mosi |-> 0]
<1>1. /\ pc = "sdinit" /\ SpiIdle /\ Set(p) /\ pc' = "pulse" /\ i' = 10 /\ spi' = spi /\ A' = A
      /\ UNCHANGED <<which, r1, ocr, SDBUF, ignore, call, booted, ret>>
  BY DEF Sdinit, At
<1>2. card.present => Listens(card) /\ card.miso_queue = <<>>
  BY <1>1, BeforeByte DEF Station, Resting
<1>3. p \in Ports /\ p.clk = 0 /\ p.cs = 1
  BY DEF Ports, Bit
<1> HIDE DEF p
<1>4. /\ WireInv' /\ card' \in CardSet /\ Alike(card', card) /\ Tame(card)' /\ Tame(card')
      /\ After' = card' /\ Got' = A /\ port' = p /\ SpiIdle' /\ SameStore(card', card)
      /\ card'.present = card.present
  BY <1>1, <1>3, SetKeeps
<1>5. RegInv' /\ SelectInv'
  <2>1. 10 \in 0..(SECTOR + 33)
    BY CardAssumption DEF CardAssumption
  <2> QED BY <1>1, <1>3, <1>4, <2>1 DEF SdInv, RegInv, SelectInv
<1>6. ProgInv'
  BY <1>1 DEF SdInv, ProgInv, Stations, Resting
<1>7. CallInv'
  BY <1>1 DEF SdInv, CallInv, Booting
<1>8. FrameInv'
  <2>1. pc' \in Resting \cup {"pulse", "select", "deselect"}
    BY <1>1
  <2>2. pc' \notin Closing \cup {"token", "data", "payload", "ask", "response"}
    BY <1>1 DEF Closing
  <2>3. card.present => Listens(card') /\ card'.miso_queue = <<>>
    BY <1>2, <1>4, ListensAlike
  <2>4. card.present => Station(After, Got, MosiAfter)' /\ Outcome(After)'
    BY <1>4, <2>1, <2>2, <2>3, StationRests, OutcomeElsewhere
  <2>5. Tame(After)' <=> Tame(After')
    BY DEF Tame, Storable
  <2> QED BY <1>4, <2>4, <2>5 DEF FrameInv
<1>9. StoreInv'
  BY <1>1, <1>4, StoreKept DEF Closing
<1> QED BY <1>4, <1>5, <1>6, <1>7, <1>8, <1>9 DEF SdInv

LEMMA PulseKeeps == ASSUME SdInv, Pulse PROVE SdInv'
<1>1. pc = "pulse" /\ SpiIdle /\ UNCHANGED <<r1, ocr, SDBUF, ignore, call, booted, ret>>
  BY DEF Pulse, At
<1>2. card.present => Listens(card) /\ card.miso_queue = <<>>
  BY <1>1, BeforeByte DEF Station, Resting
<1>3. i \in 0..10 /\ 10 < SECTOR + 33 /\ SECTOR \in Nat
  BY <1>1, CardAssumption DEF SdInv, ProgInv, CardAssumption
<1>4. CASE i > 0 /\ Send(255) /\ i' = i - 1 /\ UNCHANGED <<pc, which>>
  <2>1. /\ WireInv' /\ card' = card /\ port' = port /\ A' = A /\ SameStore(After', card) /\ ~SpiIdle'
        /\ card.present =>
             /\ After' \in CardSet /\ Tame(After') /\ Listens(After')
             /\ After'.miso_queue = Without(card.miso_queue)
    BY <1>1, <1>2, <1>4, WaitKeeps
  <2>2. RegInv' /\ SelectInv'
    <3>1. i' \in 0..(SECTOR + 33)
      BY <1>3, <1>4
    <3> QED BY <1>1, <1>4, <2>1, <3>1 DEF SdInv, RegInv, SelectInv
  <2>3. ProgInv'
    BY <1>1, <1>3, <1>4 DEF SdInv, ProgInv, Stations, Resting
  <2>4. CallInv'
    BY <1>1, <1>4 DEF SdInv, CallInv, Booting
  <2>5. FrameInv'
    <3>1. pc' \in Resting \cup {"pulse", "select", "deselect"}
      BY <1>1, <1>4
    <3>2. pc' \notin Closing \cup {"token", "data", "payload", "ask", "response"}
      BY <1>1, <1>4 DEF Closing
    <3>3. card.present => After'.miso_queue = <<>>
      BY <1>2, <2>1 DEF Without
    <3>4. card.present => Station(After, Got, MosiAfter)' /\ Outcome(After)'
      BY <2>1, <3>1, <3>2, <3>3, StationRests, OutcomeElsewhere
    <3>5. Tame(After)' <=> Tame(After')
      BY DEF Tame, Storable
    <3> QED BY <2>1, <3>4, <3>5 DEF FrameInv
  <2>6. StoreInv'
    <3>1. SameStore(card', card)
      BY <2>1 DEF SameStore
    <3> QED BY <1>1, <1>4, <2>1, <3>1, StoreKept DEF Closing
  <2>7. card' \in CardSet /\ Tame(card)'
    BY <2>1 DEF SdInv, Tame, Storable
  <2> QED BY <2>1, <2>2, <2>3, <2>4, <2>5, <2>6, <2>7 DEF SdInv
<1>5. CASE i = 0 /\ Quiet /\ Start("cmd00") /\ UNCHANGED i
  <2>1. pc' = "open" /\ which' = "cmd00" /\ i' = i
    BY <1>5 DEF Start
  <2>2. /\ WireInv' /\ After' = card /\ Got' = A /\ MosiAfter' = port.mosi
        /\ card' = card /\ port' = port /\ A' = A /\ SpiIdle'
    BY <1>1, <1>5, QuietStays
  <2>3. RegInv' /\ SelectInv'
    BY <1>1, <2>1, <2>2 DEF SdInv, RegInv, SelectInv
  <2>4. ProgInv'
    BY <1>1, <1>3, <2>1, <2>2 DEF SdInv, ProgInv, Stations, Resting
  <2>5. CallInv'
    BY <1>1, <2>1 DEF SdInv, CallInv, Booting
  <2>6. FrameInv'
    <3>1. pc' \in Resting \cup {"pulse", "select", "deselect"}
      BY <2>1 DEF Resting
    <3>2. pc' \notin Closing \cup {"token", "data", "payload", "ask", "response"}
      BY <2>1 DEF Closing
    <3>3. card.present => Station(After, Got, MosiAfter)' /\ Outcome(After)'
      BY <1>2, <2>2, <3>1, <3>2, StationRests, OutcomeElsewhere
    <3>4. Tame(After)' <=> Tame(card)
      BY <2>2 DEF Tame, Storable
    <3> QED BY <2>2, <3>3, <3>4 DEF FrameInv, SdInv
  <2>7. StoreInv'
    <3>1. SameStore(card', card) /\ SameStore(After', card)
      BY <2>2 DEF SameStore
    <3> QED BY <1>1, <2>1, <3>1, StoreKept
  <2>8. card' \in CardSet /\ Tame(card)'
    BY <2>2 DEF SdInv, Tame, Storable
  <2> QED BY <2>2, <2>3, <2>4, <2>5, <2>6, <2>7, <2>8 DEF SdInv
<1> QED BY <1>4, <1>5 DEF Pulse

LEMMA NoneYet == \A s : SubSeq(s, 1, 0) = <<>>
OBVIOUS

LEMMA StationCommands ==
  ASSUME pc' = "command", i' \in 1..6
  PROVE  \A c, a, m : /\ ~c.awaiting_write_block /\ c.miso_queue = <<>>
                      /\ c.mosi_queue = SubSeq(Command', 1, i' - 1)
                      => Station(c, a, m)'
BY DEF Station, Resting

LEMMA SelectKeeps == ASSUME SdInv, Select PROVE SdInv'
<1> DEFINE p == [port EXCEPT !.cs = 0]
<1>1. /\ pc = "select" /\ SpiIdle /\ Set(p) /\ pc' = "command" /\ i' = 1 /\ spi' = spi /\ A' = A
      /\ UNCHANGED <<which, r1, ocr, SDBUF, ignore, call, booted, ret>>
  BY DEF Select, At, Loop, Same
<1>2. card.present => Listens(card) /\ card.miso_queue = <<>>
  BY <1>1, BeforeByte DEF Station, Resting
<1>3. p \in Ports /\ p.clk = 0
  BY PortTyped DEF Ports, Bit
<1> HIDE DEF p
<1>4. /\ WireInv' /\ card' \in CardSet /\ Alike(card', card) /\ Tame(card)' /\ Tame(card')
      /\ After' = card' /\ Got' = A /\ port' = p /\ SpiIdle' /\ SameStore(card', card)
      /\ card'.present = card.present
  BY <1>1, <1>3, SetKeeps
<1>5. RegInv' /\ SelectInv'
  <2>1. 1 \in 0..(SECTOR + 33)
    BY CardAssumption DEF CardAssumption
  <2> QED BY <1>1, <1>3, <1>4, <2>1 DEF SdInv, RegInv, SelectInv
<1>6. ProgInv'
  BY <1>1 DEF SdInv, ProgInv, Stations, Resting
<1>7. CallInv'
  BY <1>1 DEF SdInv, CallInv, Booting
<1>8. FrameInv'
  <2>1. pc' \notin Closing \cup {"token", "data", "payload", "ask", "response"}
    BY <1>1 DEF Closing
  <2>2. card.present => Listens(card') /\ card'.miso_queue = <<>>
    BY <1>2, <1>4, ListensAlike
  <2>3. card.present => card'.mosi_queue = SubSeq(Command', 1, i' - 1)
    <3>1. i' - 1 = 0
      BY <1>1
    <3> QED BY <2>2, <3>1, NoneYet DEF Listens
  <2>4. card.present => Station(After, Got, MosiAfter)' /\ Outcome(After)'
    BY <1>1, <1>4, <2>1, <2>2, <2>3, StationCommands, OutcomeElsewhere DEF Listens
  <2>5. Tame(After)' <=> Tame(After')
    BY DEF Tame, Storable
  <2> QED BY <1>4, <2>4, <2>5 DEF FrameInv
<1>9. StoreInv'
  BY <1>1, <1>4, StoreKept DEF Closing
<1> QED BY <1>4, <1>5, <1>6, <1>7, <1>8, <1>9 DEF SdInv

LEMMA DeselectKeeps == ASSUME SdInv, Deselect PROVE SdInv'
<1> DEFINE p == [port EXCEPT !.cs = 1]
<1>1. /\ pc = "deselect" /\ SpiIdle /\ Set(p) /\ spi' = spi /\ A' = A
      /\ UNCHANGED <<which, r1, ocr, SDBUF, ignore, call, booted, ret>>
      /\ pc' \in {"close", "result"} /\ i' \in {0, i}
  BY DEF Deselect, At, Loop, Goto, Same
<1>2. card.present => Listens(card) /\ card.miso_queue = <<>> /\ Outcome(card)
  BY <1>1, BeforeByte DEF Station, Resting
<1>3. p \in Ports /\ p.clk = 0 /\ p.cs = 1
  BY PortTyped DEF Ports, Bit
<1> HIDE DEF p
<1>4. /\ WireInv' /\ card' \in CardSet /\ Alike(card', card) /\ Tame(card)' /\ Tame(card')
      /\ After' = card' /\ Got' = A /\ port' = p /\ SpiIdle' /\ SameStore(card', card)
      /\ card'.present = card.present
  BY <1>1, <1>3, SetKeeps
<1>5. RegInv' /\ SelectInv'
  <2>1. 0 \in 0..(SECTOR + 33)
    BY CardAssumption DEF CardAssumption
  <2> QED BY <1>1, <1>3, <1>4, <2>1 DEF SdInv, RegInv, SelectInv
<1>6. ProgInv'
  BY <1>1, <1>4 DEF SdInv, ProgInv, Stations, Resting
<1>7. CallInv'
  BY <1>1 DEF SdInv, CallInv, Booting
<1>8. FrameInv'
  <2>1. pc' \in Resting \cup {"pulse", "select", "deselect"} /\ pc \in Closing /\ pc' \in Closing
    BY <1>1 DEF Resting, Closing
  <2>2. card.present => Listens(card') /\ card'.miso_queue = <<>>
    BY <1>2, <1>4, ListensAlike
  <2>3. card.present => Station(After, Got, MosiAfter)'
    BY <1>4, <2>1, <2>2, StationRests
  <2>4. card.present => Outcome(After)'
    <3>1. \A c, d : SameStore(d, c) /\ Outcome(c) => Outcome(d)'
      BY <1>1, <2>1, StillCloses
    <3> QED BY <1>2, <1>4, <3>1
  <2>5. Tame(After)' <=> Tame(After')
    BY DEF Tame, Storable
  <2> QED BY <1>4, <2>3, <2>4, <2>5 DEF FrameInv
<1>9. StoreInv'
  <2>1. LongEnough /\ which = "cmd24" /\ r1 = 0 => Holds(card)
    BY <1>1, BeforeByte DEF SdInv, StoreInv, Closing
  <2> QED BY <1>1, <1>4, <2>1, StoreKept
<1> QED BY <1>4, <1>5, <1>6, <1>7, <1>8, <1>9 DEF SdInv

----------------------------------------------------------------------------
(* The command of the step, and the answer it will get.                       *)
Asking == pc \notin Booting \cup {"idle"}
CommandTyped ==
  /\ Command \in Seq(Byte) /\ Len(Command) = 6 /\ Command[1] # 255 /\ Command[6] % 2 = 1
  /\ \A k \in 1..6 : Command[k] \in Byte
LEMMA Odd ==
  /\ Cmd00[6] % 2 = 1 /\ Cmd08[6] % 2 = 1 /\ Cmd55[6] % 2 = 1
  /\ Acmd41[6] % 2 = 1 /\ Cmd58[6] % 2 = 1
  /\ \A lba : Cmd17(lba)[6] % 2 = 1 /\ Cmd24(lba)[6] % 2 = 1
BY DEF Cmd00, Cmd08, Cmd55, Acmd41, Cmd58, Cmd17, Cmd24

LEMMA Addresses == ASSUME SdInv, Asking, which \in {"cmd17", "cmd24"} PROVE call.lba \in Lbas /\ call.lba \in 0..255
<1>1. call.lba \in Lbas
  BY DEF SdInv, CallInv, Asking
<1>2. Lbas \subseteq 0..255
  BY DriverAssumption DEF DriverAssumption
<1> QED BY <1>1, <1>2

Booted == {"cmd00", "cmd08", "cmd55", "acmd41", "cmd58"}
LEMMA Commands ==
  ASSUME SdInv, Asking
  PROVE  /\ CommandTyped /\ which \in Booted \cup {"cmd17", "cmd24"}
         /\ which \in Booted => Command \in Known
         /\ which = "cmd17" => Command = Cmd17(call.lba)
         /\ which = "cmd24" => Command = Cmd24(call.lba)
<1>1. which \in Booted \cup {"cmd17", "cmd24"}
  BY DEF SdInv, ProgInv, Booted
<1>2. /\ which = "cmd17" => Command = Cmd17(call.lba)
      /\ which = "cmd24" => Command = Cmd24(call.lba)
      /\ which \in Booted => Command \in Known
  BY DEF Command, Known, Booted
<1>3. Command \in Seq(Byte) /\ Len(Command) = 6 /\ Command[1] # 255
  <2>1. CASE which \in Booted
    BY <1>2, <2>1, KnownCommands
  <2>2. CASE which = "cmd17"
    <3>1. SectorCommand(Cmd17(call.lba), 81, call.lba)
      BY <2>2, Addresses, ReadCommand
    <3> QED BY <1>2, <2>2, <3>1 DEF SectorCommand
  <2>3. CASE which = "cmd24"
    <3>1. SectorCommand(Cmd24(call.lba), 88, call.lba)
      BY <2>3, Addresses, WriteCommand
    <3> QED BY <1>2, <2>3, <3>1 DEF SectorCommand
  <2> QED BY <1>1, <2>1, <2>2, <2>3
<1>4. Command[6] % 2 = 1
  BY <1>1, Odd, Zenon DEF Command, Booted
<1>5. \A k \in 1..6 : Command[k] \in Byte
  BY <1>3, SMTT(40)
<1> QED BY <1>1, <1>2, <1>3, <1>4, <1>5 DEF CommandTyped

(* Every answer: a wait, then R1.                                             *)
ReplyTyped(r) ==
  /\ r \in Seq(Byte) /\ Len(r) >= 2 /\ r[1] = 255 /\ r[2] \in Byte /\ r[2] # 255
  /\ which \in {"cmd00", "cmd55", "acmd41", "cmd24"} => Len(r) = 2
  /\ which \in {"cmd08", "cmd58"} => Len(r) = 6
  /\ which = "cmd24" => r[2] = 0
  /\ which = "cmd17" => /\ Len(r) = SECTOR + 9 /\ r[2] = 0 /\ r[7] = 254
                        /\ \A k \in 3..6 : r[k] = 255
LEMMA Replies == ASSUME SdInv, Asking, NEW c, Answers(c) PROVE ReplyTyped(Reply(c))
<1>1. which \in Booted \cup {"cmd17", "cmd24"}
  BY Commands
<1>2. CASE which = "cmd17"
  <2> DEFINE held == Contents(c, call.lba)
             r == SectorResponse(held)
  <2>1. held \in HeldSectors
    BY <1>2 DEF Answers
  <2> HIDE DEF held
  <2>2. /\ r \in Seq(Byte) /\ Len(r) = SECTOR + 9
        /\ r[1] = 255 /\ r[2] = 0 /\ r[7] = 254 /\ \A k \in 3..6 : r[k] = 255
    BY <2>1, SectorAnswer
  <2> HIDE DEF r
  <2>3. Reply(c) = r
    BY <1>2 DEF Reply, r, held
  <2>4. SECTOR + 9 >= 2 /\ 0 \in Byte /\ 0 # 255
    BY CardAssumption DEF CardAssumption, Byte
  <2> QED BY <1>2, <2>2, <2>3, <2>4 DEF ReplyTyped
<1>3. CASE which = "cmd24"
  <2>1. Reply(c) = <<255, 0>>
    BY <1>3 DEF Reply
  <2>2. <<255, 0>> \in Seq(Byte) /\ Len(<<255, 0>>) = 2 /\ <<255, 0>>[1] = 255 /\ <<255, 0>>[2] = 0 /\ 0 \in Byte
    BY DEF Byte
  <2> QED BY <1>3, <2>1, <2>2 DEF ReplyTyped
<1>4. CASE which \in {"cmd00", "cmd55"}
  <2>1. Reply(c) = <<255, 1>>
    BY <1>4, Answering DEF Reply, Command
  <2>2. <<255, 1>> \in Seq(Byte) /\ Len(<<255, 1>>) = 2 /\ <<255, 1>>[1] = 255 /\ <<255, 1>>[2] = 1 /\ 1 \in Byte
    BY DEF Byte
  <2> QED BY <1>4, <2>1, <2>2 DEF ReplyTyped
<1>5. CASE which = "acmd41"
  <2>1. Reply(c) = <<255, 0>>
    BY <1>5, Answering DEF Reply, Command
  <2>2. <<255, 0>> \in Seq(Byte) /\ Len(<<255, 0>>) = 2 /\ <<255, 0>>[1] = 255 /\ <<255, 0>>[2] = 0 /\ 0 \in Byte
    BY DEF Byte
  <2> QED BY <1>5, <2>1, <2>2 DEF ReplyTyped
<1>6. CASE which = "cmd08"
  <2> DEFINE r == <<255, 1, 0, 0, 1, 170>>
  <2>1. Reply(c) = r
    BY <1>6, Answering DEF Reply, Command
  <2>2. r \in Seq(Byte) /\ Len(r) = 6 /\ r[1] = 255 /\ r[2] = 1 /\ 1 \in Byte
    BY DEF Byte
  <2> HIDE DEF r
  <2> QED BY <1>6, <2>1, <2>2 DEF ReplyTyped
<1>7. CASE which = "cmd58"
  <2> DEFINE r == <<255, 0, 192, 255, 128, 0>>
  <2>1. Reply(c) = r
    BY <1>7, Answering DEF Reply, Command
  <2>2. r \in Seq(Byte) /\ Len(r) = 6 /\ r[1] = 255 /\ r[2] = 0 /\ 0 \in Byte
    BY DEF Byte
  <2> HIDE DEF r
  <2> QED BY <1>7, <2>1, <2>2 DEF ReplyTyped
<1> QED BY <1>1, <1>2, <1>3, <1>4, <1>5, <1>6, <1>7 DEF Booted

(* The next byte of an answer.                                                *)
Follows(c, d, k, reply) ==
  /\ c.miso_queue # <<>> /\ Head(c.miso_queue) = reply[k + 1]
  /\ Streams(d, Head(c.miso_queue), k + 1, reply)
LEMMA StreamOn ==
  ASSUME NEW c, NEW d, NEW reply \in Seq(Byte), NEW k \in 0..(Len(reply) - 1), Sent(c, k, reply),
         d.miso_queue = Without(c.miso_queue)
  PROVE  Follows(c, d, k, reply)
<1> DEFINE n == Len(reply)
           q == SubSeq(reply, k + 1, n)
<1>1. n \in Nat /\ k \in Nat /\ k < n /\ c.miso_queue = q
  BY DEF Sent
<1>2. q # <<>> /\ Head(q) = reply[k + 1] /\ Tail(q) = SubSeq(reply, k + 2, n)
  <2>1. q \in Seq(Byte) /\ Len(q) = n - k /\ \A j \in 1..(n - k) : q[j] = reply[k + j]
    BY <1>1
  <2> DEFINE r == SubSeq(reply, k + 2, n)
  <2>2. r \in Seq(Byte) /\ Len(r) = n - k - 1 /\ \A j \in 1..(n - k - 1) : r[j] = reply[k + 1 + j]
    BY <1>1
  <2> HIDE DEF n, q, r
  <2>3. q # <<>> /\ Head(q) = q[1] /\ q[1] = reply[k + 1]
    BY <1>1, <2>1
  <2>4. Tail(q) \in Seq(Byte) /\ Len(Tail(q)) = n - k - 1
    BY <1>1, <2>1, <2>3
  <2>5. \A j \in 1..(n - k - 1) : Tail(q)[j] = q[j + 1]
    BY <1>1, <2>1, <2>3
  <2>6. \A j \in 1..(n - k - 1) : Tail(q)[j] = r[j]
    BY <1>1, <2>1, <2>2, <2>5
  <2>7. Tail(q) = r
    BY <2>2, <2>4, <2>6, SeqEqual
  <2> QED BY <2>3, <2>7 DEF r
<1> HIDE DEF q, n
<1>4. Sent(d, k + 1, reply)
  <2>1. k + 1 + 1 = k + 2
    BY <1>1
  <2> QED BY <1>1, <1>2, <2>1 DEF Sent, Without, n
<1>5. Streams(d, Head(c.miso_queue), k + 1, reply)
  <2>1. k + 1 \in 1..Len(reply)
    BY <1>1 DEF n
  <2> QED BY <1>1, <1>2, <1>4, <2>1 DEF Streams
<1> QED BY <1>1, <1>2, <1>5 DEF Follows

(* 255 while the card awaits the token: not the token.                        *)
LEMMA BegunWaits ==
  ASSUME NEW c \in CardSet, Tame(c), Begun(c)
  PROVE  LET d == AfterByte(c, 255, 8)
         IN Steady(d, c) /\ d.mosi_queue = <<>> /\ d.miso_queue = Without(c.miso_queue) /\ Begun(d) /\ Tame(d)
<1>1. CASE which # "cmd24"
  <2>1. Listens(c)
    BY <1>1 DEF Begun
  <2> QED BY <1>1, <2>1, ByteWaits DEF Begun, Queues
<1>2. CASE which = "cmd24"
  <2> DEFINE b == 255
  <2>1. b \in Byte /\ (b = 254) = FALSE
    BY DEF Byte
  <2> HIDE DEF b
  <2>2. /\ c.awaiting_write_block /\ c.mosi_queue = <<>> /\ c.pending_write_addr = call.lba
        /\ ~c.cmd24_seen_token /\ c.write_payload = <<>> /\ c.cmd24_seen_token \in BOOLEAN
    BY <1>2 DEF Begun, Awaits, CardSet
  <2>3. PICK e \in CardSet : /\ SameWrite(e, c) /\ SameStore(e, c)
                             /\ Queues(e, <<>>, Without(c.miso_queue))
                             /\ AfterByte(c, b, 8) = PayloadByte(e, b)
    BY <2>1, <2>2, PayloadIn
  <2> DEFINE d == PayloadByte(e, b)
  <2>4. TokenTaken(d, e, b)
    BY <2>1, <2>2, <2>3, PayloadToken DEF SameWrite
  <2> HIDE DEF d
  <2>5. /\ d \in CardSet /\ SameStore(d, c) /\ Queues(d, <<>>, Without(c.miso_queue))
        /\ d.awaiting_write_block = c.awaiting_write_block /\ d.cmd24_seen_token = (b = 254)
        /\ d.pending_write_addr = c.pending_write_addr /\ d.write_payload = c.write_payload
    BY <2>3, <2>4 DEF TokenTaken, SameWrite, SameStore, Queues, Becomes
  <2>6. d.cmd24_seen_token = c.cmd24_seen_token
    BY <2>1, <2>2, <2>5
  <2>7. Steady(d, c)
    BY <2>5, <2>6 DEF Steady, SameWrite
  <2>8. Begun(d)
    BY <1>2, <2>2, <2>5, <2>6 DEF Begun, Awaits, Queues
  <2>9. Tame(d)
    BY <2>2, <2>5 DEF Tame, Storable, Queues
  <2> QED BY <2>3, <2>5, <2>7, <2>8, <2>9 DEF d, b, Queues
<1> QED BY <1>1, <1>2

----------------------------------------------------------------------------
(* A byte under way in the middle of a command.                               *)
Sitting == {"idle", "open", "select", "pulse", "result", "ask"}
Keeping == card' = card /\ port' = port /\ A' = A
LEMMA StepKeeps ==
  ASSUME SdInv, WireInv', Keeping, i' \in 0..(SECTOR + 33), r1' \in Byte, ocr' \in Byte,
         SDBUF' \in [1..(SECTOR + 2) -> Byte], ignore' = ignore, booted' = booted,
         pc' \notin Sitting, ProgInv', CallInv', StoreInv',
         card.present => Tame(After') /\ Station(After, Got, MosiAfter)' /\ Outcome(After)'
  PROVE  SdInv'
<1>1. RegInv' /\ SelectInv'
  BY DEF SdInv, RegInv, SelectInv, Keeping, Sitting
<1>2. FrameInv'
  <2>1. Tame(After)' <=> Tame(After')
    BY DEF Tame, Storable
  <2> QED BY <2>1 DEF FrameInv, Keeping
<1>3. card' \in CardSet /\ Tame(card)'
  BY DEF SdInv, Tame, Storable, Keeping
<1> QED BY <1>1, <1>2, <1>3 DEF SdInv

Patient(c) == Listens(c) \/ Begun(c)
LEMMA RecvKeeps ==
  ASSUME SdInv, SpiIdle, Recv, card.present => port.mosi = 1 /\ Patient(card)
  PROVE  /\ WireInv' /\ Keeping /\ ~SpiIdle' /\ Got' = Heard /\ MosiAfter' = port.mosi
         /\ SameStore(card', card) /\ SameStore(After', card)
         /\ card.present =>
              /\ Tame(After') /\ After'.miso_queue = Without(card.miso_queue)
              /\ Listens(card) => Listens(After')
              /\ Begun(card) => Begun(After')
<1>1. /\ WireInv' /\ After' = Next8(255) /\ Got' = Heard /\ MosiAfter' = port.mosi
      /\ card' = card /\ port' = port /\ A' = A /\ ~SpiIdle'
  BY RecvStarts
<1>2. card \in CardSet /\ Tame(card)
  BY DEF SdInv
<1>3. CASE card.present
  <2> DEFINE d == AfterByte(card, 255, 8)
  <2>1. After' = d
    BY <1>1, <1>3 DEF Next8
  <2>2. Listens(card) => Steady(d, card) /\ d.miso_queue = Without(card.miso_queue) /\ Listens(d) /\ Tame(d)
    BY <1>2, ByteWaits DEF Queues
  <2>3. Begun(card) => Steady(d, card) /\ d.miso_queue = Without(card.miso_queue) /\ Begun(d) /\ Tame(d)
    BY <1>2, BegunWaits
  <2> HIDE DEF d
  <2>6. Steady(d, card) /\ d.miso_queue = Without(card.miso_queue) /\ Tame(d)
    BY <1>3, <2>2, <2>3 DEF Patient
  <2>7. SameStore(card', card)
    BY <1>1 DEF SameStore
  <2> QED BY <1>1, <1>3, <2>1, <2>2, <2>3, <2>6, <2>7 DEF Steady, Keeping
<1>4. CASE ~card.present
  BY <1>1, <1>4 DEF Next8, SameStore, Keeping
<1> QED BY <1>3, <1>4

LEMMA StationAsked ==
  ASSUME which' = which, call' = call, pc' = "command", i' = 7
  PROVE  \A c, a : Begun(c) /\ (Silent(c) \/ (Answers(c) /\ Sent(c, 0, Reply(c)))) => Station(c, a, 1)'
<1>1. \A c : /\ Reply(c)' = Reply(c) /\ Begun(c)' = Begun(c) /\ Silent(c)' = Silent(c)
             /\ Answers(c)' = Answers(c)
  BY SameCommand
<1>2. \A c, r : Sent(c, 0, r)' = Sent(c, 0, r)
  BY DEF Sent
<1> QED BY <1>1, <1>2 DEF Station, Resting

LEMMA StationAnswer ==
  ASSUME which' = which, call' = call, pc' = "answer"
  PROVE  \A c, a : /\ Begun(c)
                   /\ \/ Silent(c) /\ a = 255
                      \/ i' \in {7, 8} /\ Answers(c) /\ Streams(c, a, 9 - i', Reply(c))
                   => Station(c, a, 1)'
<1>1. \A c : /\ Reply(c)' = Reply(c) /\ Begun(c)' = Begun(c) /\ Silent(c)' = Silent(c)
             /\ Answers(c)' = Answers(c)
  BY SameCommand
<1>2. \A c, a, r : Streams(c, a, 9 - i, r)' = Streams(c, a, 9 - i', r)
  BY DEF Streams, Sent
<1> QED BY <1>1, <1>2 DEF Station, Resting

LEMMA StationLong ==
  ASSUME which' = which, call' = call, pc' = "r5"
  PROVE  \A c, a : Listens(c) /\ Streams(c, a, 2 + i', Reply(c)) => Station(c, a, 1)'
<1>1. \A c : Reply(c)' = Reply(c) /\ Listens(c)' = Listens(c)
  BY SameCommand
<1>2. \A c, a, r : Streams(c, a, 2 + i, r)' = Streams(c, a, 2 + i', r)
  BY DEF Streams, Sent
<1> QED BY <1>1, <1>2 DEF Station, Resting

LEMMA StationToken ==
  ASSUME which' = which, call' = call, pc' = "token"
  PROVE  \A c, a : Listens(c) /\ Answers(c) /\ (\E k \in 3..7 : Streams(c, a, k, Reply(c))) => Station(c, a, 1)'
<1>1. \A c : Reply(c)' = Reply(c) /\ Listens(c)' = Listens(c) /\ Answers(c)' = Answers(c)
  BY SameCommand
<1>2. \A c, a, k, r : Streams(c, a, k, r)' = Streams(c, a, k, r)
  BY DEF Streams, Sent
<1> QED BY <1>1, <1>2 DEF Station, Resting

LEMMA StationData ==
  ASSUME which' = which, call' = call, pc' = "data"
  PROVE  \A c, a : Listens(c) /\ Answers(c) /\ Streams(c, a, 7 + i', Reply(c)) => Station(c, a, 1)'
<1>1. \A c : Reply(c)' = Reply(c) /\ Listens(c)' = Listens(c) /\ Answers(c)' = Answers(c)
  BY SameCommand
<1>2. \A c, a, r : Streams(c, a, 7 + i, r)' = Streams(c, a, 7 + i', r)
  BY DEF Streams, Sent
<1> QED BY <1>1, <1>2 DEF Station, Resting

LEMMA StationPayload ==
  ASSUME which' = which, call' = call, SDBUF' = SDBUF, pc' = "payload", i' < SECTOR + 2, i' \in Nat
  PROVE  \A c, a, m :
           /\ Awaits(c) /\ c.cmd24_seen_token /\ c.miso_queue = <<>>
           /\ Len(c.write_payload) = i' /\ \A k \in 1..i' : k <= SECTOR => c.write_payload[k] = SDBUF[k]
           => Station(c, a, m)'
<1>1. \A c : Awaits(c)' = Awaits(c)
  BY SameCommand
<1>2. ~(i' = SECTOR + 2)
  BY CardAssumption DEF CardAssumption
<1> QED BY <1>1, <1>2 DEF Station, Resting

LEMMA StationStored ==
  ASSUME pc' = "payload", i' = SECTOR + 2
  PROVE  \A c, a : Listens(c) /\ Sent(c, 0, Accepting) => Station(c, a, 1)'
<1>1. \A c : Listens(c)' = Listens(c) /\ Sent(c, 0, Accepting)' = Sent(c, 0, Accepting)
  BY DEF Listens, Sent, Accepting
<1>2. ~(i' < SECTOR + 2)
  BY CardAssumption DEF CardAssumption
<1> QED BY <1>1, <1>2 DEF Station, Resting

LEMMA StationResponse ==
  ASSUME pc' = "response"
  PROVE  \A c, a : Listens(c) /\ i' \in {31, 32} /\ Streams(c, a, 33 - i', Accepting) => Station(c, a, 1)'
<1>1. \A c, a : Listens(c)' = Listens(c) /\ Streams(c, a, 33 - i, Accepting)' = Streams(c, a, 33 - i', Accepting)
  BY DEF Listens, Streams, Sent, Accepting
<1> QED BY <1>1 DEF Station, Resting

LEMMA StationBusy ==
  ASSUME pc' = "busy"
  PROVE  \A c, a : Listens(c) /\ Streams(c, a, 3, Accepting) => Station(c, a, 1)'
<1>1. \A c, a : Listens(c)' = Listens(c) /\ Streams(c, a, 3, Accepting)' = Streams(c, a, 3, Accepting)
  BY DEF Listens, Streams, Sent, Accepting
<1> QED BY <1>1 DEF Station, Resting

(* A byte of the command goes out; the sixth makes the card answer.           *)
LEMMA SendMiddle ==
  ASSUME SdInv, pc = "command", SpiIdle, i \in 1..5, Send(Command[i]), pc' = "command", i' = i + 1, Same
  PROVE  SdInv'
<1> DEFINE b == Command[i]
<1>1. UNCHANGED <<which, r1, ocr, SDBUF, ignore, call, booted, ret>>
  BY DEF Same
<1>2. CommandTyped /\ b \in Byte
  <2>1. Asking
    BY DEF Asking, Booting
  <2>2. CommandTyped
    BY <2>1, Commands
  <2>3. i \in 1..6
    OBVIOUS
  <2> QED BY <2>2, <2>3 DEF CommandTyped
<1>3. /\ WireInv' /\ After' = Next8(b) /\ Got' = A /\ Keeping /\ ~SpiIdle'
  BY <1>2, SendStarts DEF Keeping
<1>4. /\ card \in CardSet /\ Tame(card)
      /\ card.present => ~card.awaiting_write_block /\ card.mosi_queue = SubSeq(Command, 1, i - 1) /\ card.miso_queue = <<>>
  BY BeforeByte DEF Station
<1> HIDE DEF b
<1>5. card.present => /\ Steady(After', card) /\ Tame(After')
                      /\ Queues(After', SubSeq(Command, 1, i), Without(card.miso_queue))
  <2>1. ASSUME card.present
        PROVE  LET d == AfterByte(card, Command[i], 8)
               IN Steady(d, card) /\ Queues(d, SubSeq(Command, 1, i), Without(card.miso_queue)) /\ Tame(d)
    <3> DEFINE cmd == Command
    <3>1. cmd \in Seq(Byte) /\ Len(cmd) = 6 /\ cmd[1] # 255
      BY <1>2 DEF CommandTyped
    <3>2. card.mosi_queue = SubSeq(cmd, 1, i - 1) /\ ~card.awaiting_write_block
      BY <1>4, <2>1
    <3> HIDE DEF cmd
    <3>3. LET d == AfterByte(card, cmd[i], 8)
          IN Steady(d, card) /\ Queues(d, SubSeq(cmd, 1, i), Without(card.miso_queue)) /\ Tame(d)
      BY <1>4, <3>1, <3>2, CommandMiddle, ZenonT(60)
    <3> QED BY <3>3 DEF cmd
  <2> QED BY <1>3, <2>1 DEF Next8, b
<1>6. ProgInv' /\ CallInv'
  BY <1>1 DEF SdInv, ProgInv, CallInv, Stations, Resting, Booting
<1>7. card.present => Station(After, Got, MosiAfter)' /\ Outcome(After)'
  <2>1. Command' = Command /\ i' \in 1..6 /\ i' - 1 = i
    BY <1>1, SameCommand
  <2>2. card.present => ~After'.awaiting_write_block /\ After'.miso_queue = <<>>
                        /\ After'.mosi_queue = SubSeq(Command', 1, i' - 1)
    BY <1>4, <1>5, <2>1 DEF Steady, SameWrite, Queues, Without
  <2>3. pc' \notin Closing \cup {"token", "data", "payload", "ask", "response"}
    BY DEF Closing
  <2> QED BY <2>1, <2>2, <2>3, StationCommands, OutcomeElsewhere
<1>8. StoreInv'
  <2>1. SameStore(card', card) /\ SameStore(After', card)
    BY <1>3, <1>5 DEF Keeping, SameStore, Steady, Next8
  <2> QED BY <1>1, <2>1, StoreKept DEF Closing
<1>9. i' \in 0..(SECTOR + 33)
  BY CardAssumption DEF CardAssumption
<1>10. r1' \in Byte /\ ocr' \in Byte /\ SDBUF' \in [1..(SECTOR + 2) -> Byte] /\ pc' \notin Sitting
  BY <1>1 DEF SdInv, RegInv, Sitting
<1> QED BY <1>1, <1>3, <1>5, <1>6, <1>7, <1>8, <1>9, <1>10, StepKeeps

(* What the card makes of the whole command.                                  *)
Understood(d) ==
  /\ d \in CardSet /\ Tame(d) /\ Begun(d) /\ SameSectors(d, card)
  /\ Silent(d) \/ (Answers(d) /\ Sent(d, 0, Reply(d)))
  /\ which # "cmd17" => d.failed = card.failed
  /\ d.failed = card.failed \/ (d.failed /\ which = "cmd17" /\ Contents(d, call.lba) = NoSector)
LEMMA CardObeys ==
  ASSUME SdInv, pc = "command", SpiIdle, i = 6, card.present PROVE Understood(AfterByte(card, Command[6], 8))
<1>1. Asking
  BY DEF Asking, Booting
<1>2. /\ CommandTyped /\ which \in Booted \cup {"cmd17", "cmd24"}
      /\ which \in Booted => Command \in Known
      /\ which = "cmd17" => Command = Cmd17(call.lba)
      /\ which = "cmd24" => Command = Cmd24(call.lba)
  BY <1>1, Commands
<1>3. card \in CardSet /\ CommandIn(card, Command)
  <2>1. Station(card, A, port.mosi) /\ Tame(card) /\ card \in CardSet
    BY BeforeByte
  <2>2. 6 - 1 = 5 /\ 6 <= 6
    OBVIOUS
  <2> QED BY <2>1, <2>2 DEF Station, CommandIn
<1>4. CASE which \in Booted
  <2> DEFINE cmd == Command
             d == AfterByte(card, cmd[6], 8)
  <2>1. cmd \in Known /\ CommandIn(card, cmd)
    BY <1>2, <1>3, <1>4
  <2>2. which # "cmd17" /\ which # "cmd24" /\ Reply(d) = Response(cmd)
    BY <1>4 DEF Booted, Reply
  <2> HIDE DEF cmd
  <2>3. Steady(d, card) /\ Listens(d) /\ Tame(d) /\ d.miso_queue = Response(cmd)
    BY <1>3, <2>1, KnownAnswer
  <2>4. Response(cmd) \in Seq(Byte)
    BY <2>1, Answering
  <2> HIDE DEF d
  <2>5. Sent(d, 0, Reply(d))
    BY <2>2, <2>3, <2>4, StreamStarts
  <2>6. Begun(d) /\ Answers(d)
    BY <2>2, <2>3 DEF Begun, Answers
  <2>7. Understood(d)
    BY <2>2, <2>3, <2>5, <2>6 DEF Understood, Steady, SameStore, SameSectors
  <2> QED BY <2>7 DEF d, cmd
<1>5. CASE which = "cmd24"
  <2> DEFINE lba == call.lba
             d == AfterByte(card, Cmd24(lba)[6], 8)
  <2>1. lba \in 0..255 /\ Command = Cmd24(lba) /\ CommandIn(card, Cmd24(lba))
    BY <1>1, <1>2, <1>3, <1>5, Addresses, SMTT(40)
  <2>2. /\ d \in CardSet /\ SameStore(d, card) /\ Tame(d) /\ Queues(d, <<>>, <<255, 0>>)
        /\ d.awaiting_write_block = TRUE /\ d.cmd24_seen_token = FALSE
        /\ d.pending_write_addr = lba /\ d.write_payload = <<>>
    <3> HIDE DEF lba
    <3> QED BY <1>3, <2>1, WriteAnswer, ZenonT(60)
  <2> HIDE DEF d
  <2>3. Reply(d) = <<255, 0>> /\ <<255, 0>> \in Seq(Byte)
    BY <1>5 DEF Reply, Byte
  <2>4. Sent(d, 0, Reply(d))
    BY <2>2, <2>3, StreamStarts DEF Queues
  <2>5. Begun(d) /\ Answers(d)
    BY <1>5, <2>2 DEF Begun, Answers, Awaits, Queues
  <2>6. Understood(d)
    BY <1>5, <2>2, <2>4, <2>5 DEF Understood, SameStore, SameSectors
  <2> QED BY <2>1, <2>6 DEF d
<1>6. CASE which = "cmd17"
  <2> DEFINE lba == call.lba
             d == AfterByte(card, Cmd17(lba)[6], 8)
             held == Contents(d, lba)
  <2>1. lba \in 0..255 /\ Command = Cmd17(lba) /\ CommandIn(card, Cmd17(lba))
    BY <1>1, <1>2, <1>3, <1>6, Addresses, SMTT(40)
  <2>2. /\ d \in CardSet /\ SameWrite(d, card) /\ SameSectors(d, card) /\ Tame(d) /\ Listens(d)
        /\ d.failed = card.failed \/ (d.failed /\ held = NoSector)
        /\ \/ d.failed /\ d.miso_queue = <<>>
           \/ held \in HeldSectors /\ d.miso_queue = SectorResponse(held)
    <3> HIDE DEF lba
    <3> QED BY <1>3, <2>1, ReadAnswer, ZenonT(60)
  <2> HIDE DEF d
  <2>3. Begun(d)
    BY <1>6, <2>2 DEF Begun
  <2>4. Silent(d) \/ (Answers(d) /\ Sent(d, 0, Reply(d)))
    <3>1. CASE d.failed /\ d.miso_queue = <<>>
      BY <1>6, <3>1 DEF Silent
    <3>2. CASE held \in HeldSectors /\ d.miso_queue = SectorResponse(held)
      <4>1. Reply(d) = SectorResponse(held) /\ Answers(d)
        BY <1>6, <3>2 DEF Reply, Answers
      <4>2. SectorResponse(held) \in Seq(Byte)
        BY <3>2, SectorAnswer
      <4> QED BY <3>2, <4>1, <4>2, StreamStarts
    <3> QED BY <2>2, <3>1, <3>2
  <2>5. Understood(d)
    BY <1>6, <2>2, <2>3, <2>4 DEF Understood
  <2> QED BY <2>1, <2>5 DEF d
<1> QED BY <1>2, <1>4, <1>5, <1>6

(* A read that fails is one of a sector that the card does not hold: where    *)
(* the images are long enough nothing changes.                                *)
LEMMA NothingFails ==
  ASSUME NEW c \in CardSet, Whole(c), NEW d, SameSectors(d, c), NEW lba \in Lbas,
         d.failed = c.failed \/ (d.failed /\ Contents(d, lba) = NoSector)
  PROVE  Whole(d) /\ \A a \in Lbas : Contents(d, a) = Contents(c, a)
<1>1. \A a \in Lbas : Contents(d, a) = Contents(c, a)
  BY DEF SameSectors, Contents
<1>2. CASE c.read_only
  BY <1>1, <1>2 DEF SameSectors, Whole
<1>3. CASE ~c.read_only
  <2>1. HoldsAll(c) /\ ~c.failed /\ DOMAIN c.dirty_blocks = {} /\ lba < Len(c.image)
    BY <1>3 DEF Whole, HoldsAll
  <2>2. Contents(c, lba) = c.image[lba + 1]
    BY <2>1 DEF Contents
  <2>3. c.image[lba + 1] \in HeldSectors
    <3>1. lba \in Nat
      <4>1. \A a \in 0..255 : a \in Nat
        OBVIOUS
      <4> QED BY <4>1, DriverAssumption DEF DriverAssumption
    <3>2. Len(c.image) \in Nat
      BY DEF CardSet
    <3>3. lba \in 0..(Len(c.image) - 1)
      BY <2>1, <3>1, <3>2
    <3> QED BY <3>3, Blocks
  <2>4. \A sector \in HeldSectors : sector # NoSector
    <3>1. Len(NoSector) = 0
      BY DEF NoSector
    <3> QED BY <3>1, HeldBytes, CardAssumption DEF CardAssumption
  <2>5. d.failed = c.failed
    BY <1>1, <2>2, <2>3, <2>4
  <2>6. Whole(d)
    BY <2>1, <2>5 DEF SameSectors, Whole, HoldsAll
  <2> QED BY <1>1, <2>6
<1> QED BY <1>2, <1>3

LEMMA SendLast ==
  ASSUME SdInv, pc = "command", SpiIdle, i = 6, Send(Command[6]), pc' = "command", i' = 7, Same
  PROVE  SdInv'
<1> DEFINE b == Command[6]
           d == AfterByte(card, Command[6], 8)
<1>1. UNCHANGED <<which, r1, ocr, SDBUF, ignore, call, booted, ret>>
  BY DEF Same
<1>2. b \in Byte /\ b % 2 = 1 /\ Asking
  <2>1. Asking
    BY DEF Asking, Booting
  <2>2. CommandTyped /\ 6 \in 1..6
    BY <2>1, Commands
  <2> QED BY <2>1, <2>2 DEF CommandTyped
<1>3. /\ WireInv' /\ After' = Next8(b) /\ Got' = A /\ MosiAfter' = b % 2 /\ Keeping /\ ~SpiIdle'
  BY <1>2, SendStarts DEF Keeping
<1>4. card.present => After' = d /\ Understood(d)
  BY <1>3, CardObeys DEF Next8
<1> HIDE DEF b, d
<1>5. ProgInv' /\ CallInv'
  BY <1>1 DEF SdInv, ProgInv, CallInv, Stations, Resting, Booting
<1>6. card.present => Tame(After') /\ Station(After, Got, MosiAfter)' /\ Outcome(After)'
  <2>1. \A c, a : Begun(c) /\ (Silent(c) \/ (Answers(c) /\ Sent(c, 0, Reply(c)))) => Station(c, a, 1)'
    BY <1>1, StationAsked
  <2>2. pc' \notin Closing \cup {"token", "data", "payload", "ask", "response"}
    BY DEF Closing
  <2>3. MosiAfter' = 1
    BY <1>2, <1>3
  <2> QED BY <1>4, <2>1, <2>2, <2>3, OutcomeElsewhere DEF Understood
<1>7. StoreInv'
  <2>1. CASE ~card.present \/ which # "cmd17"
    <3>1. SameStore(card', card) /\ SameStore(After', card)
      BY <1>3, <1>4, <2>1 DEF Keeping, SameStore, SameSectors, Next8, Understood
    <3> QED BY <1>1, <3>1, StoreKept DEF Closing
  <2>2. CASE card.present /\ which = "cmd17"
    <3>1. After' = d /\ SameSectors(d, card)
          /\ (d.failed = card.failed \/ (d.failed /\ Contents(d, call.lba) = NoSector))
      BY <1>4, <2>2 DEF Understood
    <3>2. call.lba \in Lbas /\ card \in CardSet
      BY <1>2, <2>2, Addresses DEF SdInv
    <3>3. LongEnough' = LongEnough /\ Whole(After)' = Whole(d) /\ Whole(card)' = Whole(card)
      BY <1>3, <3>1 DEF LongEnough, HoldsAll, Whole, Keeping
    <3>4. LongEnough => Whole(card)
      BY DEF SdInv, StoreInv
    <3>5. LongEnough => Whole(d) /\ \A a \in Lbas : Contents(d, a) = Contents(card, a)
      BY <3>1, <3>2, <3>4, NothingFails
    <3>6. which' = "cmd17"
      BY <1>1, <2>2
    <3>7. \A a : Contents(After, a)' = Contents(d, a) /\ Contents(card, a)' = Contents(card, a)
      BY <1>3, <3>1 DEF Contents, Keeping
    <3> QED BY <3>3, <3>4, <3>5, <3>6, <3>7 DEF StoreInv
  <2> QED BY <2>1, <2>2
<1>8. i' \in 0..(SECTOR + 33)
  BY CardAssumption DEF CardAssumption
<1>9. r1' \in Byte /\ ocr' \in Byte /\ SDBUF' \in [1..(SECTOR + 2) -> Byte] /\ pc' \notin Sitting
  BY <1>1 DEF SdInv, RegInv, Sitting
<1> QED BY <1>1, <1>3, <1>5, <1>6, <1>7, <1>8, <1>9, StepKeeps

(* The first byte of the answer.                                              *)
LEMMA ListensFirst ==
  ASSUME SdInv, pc = "command", SpiIdle, i = 7, Recv, pc' = "answer", i' = TRIES, Same
  PROVE  SdInv'
<1>1. UNCHANGED <<which, r1, ocr, SDBUF, ignore, call, booted, ret>> /\ i' = 8 /\ Asking
  BY DEF Same, TRIES, Asking, Booting
<1>2. card.present => /\ Begun(card) /\ port.mosi = 1
                      /\ Silent(card) \/ (Answers(card) /\ Sent(card, 0, Reply(card)))
  BY BeforeByte DEF Station
<1>3. /\ WireInv' /\ Keeping /\ ~SpiIdle' /\ Got' = Heard /\ MosiAfter' = port.mosi
      /\ SameStore(card', card) /\ SameStore(After', card)
      /\ card.present => /\ Tame(After') /\ After'.miso_queue = Without(card.miso_queue)
                         /\ Begun(After')
  BY <1>2, RecvKeeps DEF Patient
<1>4. ProgInv' /\ CallInv'
  BY <1>1, <1>3 DEF SdInv, ProgInv, CallInv, Stations, Resting, Booting
<1>5. card.present => Station(After, Got, MosiAfter)' /\ Outcome(After)'
  <2>1. \A c, a : /\ Begun(c)
                  /\ \/ Silent(c) /\ a = 255
                     \/ i' \in {7, 8} /\ Answers(c) /\ Streams(c, a, 9 - i', Reply(c))
                  => Station(c, a, 1)'
    BY <1>1, StationAnswer
  <2>2. pc' \notin Closing \cup {"token", "data", "payload", "ask", "response"}
    BY DEF Closing
  <2>3. CASE card.present /\ Silent(card)
    <3>1. Silent(After') /\ Got' = 255
      BY <1>3, <2>3 DEF Silent, SameStore, Heard, Without
    <3> QED BY <1>2, <1>3, <2>1, <2>2, <2>3, <3>1, OutcomeElsewhere
  <2>4. CASE card.present /\ Answers(card) /\ Sent(card, 0, Reply(card))
    <3> DEFINE r == Reply(card)
    <3>1. ReplyTyped(r)
      BY <1>1, <2>4, Replies
    <3>2. Reply(After') = r /\ Answers(After')
      BY <1>3, <2>4, SameContents DEF Reply, Answers
    <3> HIDE DEF r
    <3>3. r \in Seq(Byte) /\ 0 \in 0..(Len(r) - 1) /\ Sent(card, 0, r)
      BY <2>4, <3>1 DEF ReplyTyped, r
    <3>4. Follows(card, After', 0, r)
      BY <1>3, <2>4, <3>3, StreamOn
    <3>5. Got' = Head(card.miso_queue)
      BY <1>3, <2>4, <3>4 DEF Heard, Follows
    <3>6. Streams(After', Got', 9 - i', Reply(After')) /\ i' \in {7, 8}
      BY <1>1, <3>2, <3>4, <3>5 DEF Follows
    <3> QED BY <1>2, <1>3, <2>1, <2>2, <2>4, <3>2, <3>6, OutcomeElsewhere
  <2> QED BY <1>2, <2>3, <2>4
<1>6. StoreInv'
  BY <1>1, <1>3, StoreKept DEF Closing
<1>7. i' \in 0..(SECTOR + 33)
  BY <1>1, CardAssumption DEF CardAssumption
<1>8. r1' \in Byte /\ ocr' \in Byte /\ SDBUF' \in [1..(SECTOR + 2) -> Byte] /\ pc' \notin Sitting
  BY <1>1 DEF SdInv, RegInv, Sitting
<1> QED BY <1>1, <1>3, <1>4, <1>5, <1>6, <1>7, <1>8, StepKeeps

LEMMA SendCommandKeeps == ASSUME SdInv, SendCommand PROVE SdInv'
<1>1. pc = "command" /\ SpiIdle /\ Same /\ i \in 1..7
  BY DEF SendCommand, At, SdInv, ProgInv
<1>2. CASE i <= 6 /\ Send(Command[i]) /\ Loop("command", i + 1)
  <2>1. i \in 1..5 \/ i = 6
    BY <1>1, <1>2
  <2>2. CASE i \in 1..5
    BY <1>1, <1>2, <2>2, SendMiddle DEF Loop
  <2>3. CASE i = 6
    <3>1. Send(Command[6]) /\ pc' = "command" /\ i' = 7
      BY <1>2, <2>3 DEF Loop
    <3> QED BY <1>1, <2>3, <3>1, SendLast
  <2> QED BY <2>1, <2>2, <2>3
<1>3. CASE i > 6 /\ Recv /\ Loop("answer", TRIES)
  <2>1. i = 7
    BY <1>1, <1>3
  <2> QED BY <1>1, <1>3, <2>1, ListensFirst DEF Loop
<1> QED BY <1>2, <1>3 DEF SendCommand

(* The next byte of an answer that is being listened to.                      *)
LEMMA StreamNext ==
  ASSUME SdInv, SpiIdle, card.present, Recv, port.mosi = 1, Patient(card),
         NEW r \in Seq(Byte), NEW k \in 0..(Len(r) - 1), Sent(card, k, r)
  PROVE  Streams(After', Got', k + 1, r) /\ Got' = r[k + 1]
<1>1. Got' = Heard /\ After'.miso_queue = Without(card.miso_queue)
  BY RecvKeeps
<1>2. Follows(card, After', k, r)
  BY <1>1, StreamOn
<1>3. Got' = Head(card.miso_queue)
  BY <1>1, <1>2 DEF Heard, Follows
<1> QED BY <1>2, <1>3 DEF Follows

LEMMA SameReply ==
  ASSUME NEW c, NEW d, SameStore(d, c) PROVE Reply(d) = Reply(c) /\ (Answers(c) => Answers(d))
BY SameContents DEF Reply, Answers

Heeded(a, k, r) == ReplyTyped(r) /\ Streams(card, a, k, r)
LEMMA AnswerSoFar ==
  ASSUME SdInv, pc = "answer", SpiIdle, card.present
  PROVE  /\ Begun(card) /\ port.mosi = 1
         /\ \/ Silent(card) /\ A = 255
            \/ Answers(card) /\ i = 8 /\ A = 255 /\ Heeded(A, 1, Reply(card))
            \/ Answers(card) /\ i = 7 /\ A # 255 /\ A = Reply(card)[2] /\ Heeded(A, 2, Reply(card))
<1>1. /\ Begun(card) /\ port.mosi = 1
      /\ \/ Silent(card) /\ A = 255
         \/ i \in {7, 8} /\ Answers(card) /\ Streams(card, A, 9 - i, Reply(card))
  BY BeforeByte DEF Station
<1>2. Asking
  BY DEF Asking, Booting
<1> DEFINE r == Reply(card)
<1>3. CASE i \in {7, 8} /\ Answers(card) /\ Streams(card, A, 9 - i, r)
  <2>1. ReplyTyped(r)
    BY <1>2, <1>3, Replies
  <2> HIDE DEF r
  <2>2. r[1] = 255 /\ r[2] # 255
    BY <2>1 DEF ReplyTyped
  <2>3. CASE i = 8
    <3>1. 9 - i = 1
      BY <2>3
    <3> QED BY <1>1, <1>3, <2>1, <2>2, <2>3, <3>1 DEF Streams, Heeded, r
  <2>4. CASE i = 7
    <3>1. 9 - i = 2
      BY <2>4
    <3> QED BY <1>1, <1>3, <2>1, <2>2, <2>4, <3>1 DEF Streams, Heeded, r
  <2> QED BY <1>3, <2>3, <2>4
<1> QED BY <1>1, <1>3

(* Listening goes on within an answer.                                        *)
LEMMA Heeds ==
  ASSUME SdInv, SpiIdle, card.present, Recv, port.mosi = 1, Patient(card), Answers(card),
         NEW k \in Nat, Heeded(A, k, Reply(card)), k < Len(Reply(card))
  PROVE  Answers(After') /\ Streams(After', Got', k + 1, Reply(After')) /\ Got' = Reply(card)[k + 1]
<1> DEFINE r == Reply(card)
<1>1. SameStore(After', card)
  BY RecvKeeps
<1>2. Reply(After') = r /\ Answers(After')
  BY <1>1, SameReply
<1> HIDE DEF r
<1>3. r \in Seq(Byte) /\ Sent(card, k, r) /\ k < Len(r)
  BY DEF Heeded, ReplyTyped, Streams, r
<1>4. k \in 0..(Len(r) - 1)
  BY <1>3
<1>5. Streams(After', Got', k + 1, r) /\ Got' = r[k + 1]
  BY <1>3, <1>4, StreamNext
<1> QED BY <1>2, <1>5 DEF r

(* The answer is over.                                                        *)
LEMMA HeededAll ==
  ASSUME NEW r, NEW k, Heeded(A, k, r), k = Len(r) PROVE card.miso_queue = <<>>
<1>1. r \in Seq(Byte) /\ Sent(card, Len(r), r)
  BY DEF Heeded, ReplyTyped, Streams
<1> QED BY <1>1, StreamEnds

LEMMA AnswerAgainKeeps == ASSUME SdInv, AnswerAgain PROVE SdInv'
<1>1. /\ pc = "answer" /\ SpiIdle /\ A = 255 /\ i > 1 /\ Recv /\ pc' = "answer" /\ i' = i - 1
      /\ UNCHANGED <<which, r1, ocr, SDBUF, ignore, call, booted, ret>>
  BY DEF AnswerAgain, At, Loop, Same
<1>2. i \in 1..8 /\ i' \in 1..8
  BY <1>1 DEF SdInv, ProgInv
<1>3. card.present =>
         /\ Begun(card) /\ port.mosi = 1
         /\ Silent(card) \/ (Answers(card) /\ i = 8 /\ Heeded(A, 1, Reply(card)))
  BY <1>1, AnswerSoFar
<1>4. /\ WireInv' /\ Keeping /\ ~SpiIdle' /\ Got' = Heard /\ MosiAfter' = port.mosi
      /\ SameStore(card', card) /\ SameStore(After', card)
      /\ card.present => /\ Tame(After') /\ After'.miso_queue = Without(card.miso_queue)
                         /\ Begun(After')
  BY <1>1, <1>3, RecvKeeps DEF Patient
<1>5. ProgInv' /\ CallInv'
  BY <1>1, <1>2, <1>4 DEF SdInv, ProgInv, CallInv, Stations, Resting, Booting
<1>6. card.present => Station(After, Got, MosiAfter)' /\ Outcome(After)'
  <2>1. \A c, a : /\ Begun(c)
                  /\ \/ Silent(c) /\ a = 255
                     \/ i' \in {7, 8} /\ Answers(c) /\ Streams(c, a, 9 - i', Reply(c))
                  => Station(c, a, 1)'
    BY <1>1, StationAnswer
  <2>2. pc' \notin Closing \cup {"token", "data", "payload", "ask", "response"}
    BY <1>1 DEF Closing
  <2>3. CASE card.present /\ Silent(card)
    <3>1. Silent(After') /\ Got' = 255
      BY <1>4, <2>3 DEF Silent, SameStore, Heard, Without
    <3> QED BY <1>3, <1>4, <2>1, <2>2, <2>3, <3>1, OutcomeElsewhere
  <2>4. CASE card.present /\ Answers(card) /\ i = 8 /\ Heeded(A, 1, Reply(card))
    <3> DEFINE k == 1
    <3>1. k \in Nat /\ k < Len(Reply(card)) /\ k + 1 = 2 /\ Heeded(A, k, Reply(card))
      BY <2>4 DEF Heeded, ReplyTyped
    <3>2. i' = 7 /\ 9 - i' = 2
      BY <1>1, <2>4
    <3> HIDE DEF k
    <3>3. Answers(After') /\ Streams(After', Got', k + 1, Reply(After'))
      BY <1>1, <1>3, <2>4, <3>1, Heeds DEF Patient
    <3>4. Streams(After', Got', 9 - i', Reply(After')) /\ i' \in {7, 8}
      BY <3>1, <3>2, <3>3
    <3> QED BY <1>3, <1>4, <2>1, <2>2, <2>4, <3>3, <3>4, OutcomeElsewhere
  <2> QED BY <1>3, <2>3, <2>4
<1>7. StoreInv'
  BY <1>1, <1>4, StoreKept DEF Closing
<1>8. i' \in 0..(SECTOR + 33)
  BY <1>2, CardAssumption DEF CardAssumption
<1>9. r1' \in Byte /\ ocr' \in Byte /\ SDBUF' \in [1..(SECTOR + 2) -> Byte] /\ pc' \notin Sitting
  BY <1>1 DEF SdInv, RegInv, Sitting
<1> QED BY <1>1, <1>4, <1>5, <1>6, <1>7, <1>8, <1>9, StepKeeps

(* The answer has come and the command closes.                                *)
LEMMA AnswerSimpleKeeps == ASSUME SdInv, AnswerSimple PROVE SdInv'
<1>1. /\ pc = "answer" /\ SpiIdle /\ (A # 255 \/ i = 1) /\ which \in {"cmd00", "cmd55", "acmd41"}
      /\ r1' = A /\ Quiet /\ pc' = "close" /\ i' = i
      /\ UNCHANGED <<which, ocr, SDBUF, ignore, call, booted, ret>>
  BY DEF AnswerSimple, Answered, At, Goto
<1>2. card.present => Listens(card) /\ card.miso_queue = <<>>
  <2>1. ASSUME card.present PROVE Heeded(A, 2, Reply(card)) /\ Begun(card)
    BY <1>1, <2>1, AnswerSoFar DEF Silent
  <2>2. ASSUME card.present PROVE Len(Reply(card)) = 2
    BY <1>1, <2>1, <2>2 DEF Heeded, ReplyTyped
  <2> QED BY <1>1, <2>1, <2>2, HeededAll DEF Begun
<1>3. /\ WireInv' /\ After' = card /\ Got' = A /\ MosiAfter' = port.mosi
      /\ Keeping /\ SpiIdle'
  BY <1>1, QuietStays DEF Keeping
<1>4. ProgInv' /\ CallInv'
  BY <1>1, <1>3 DEF SdInv, ProgInv, CallInv, Stations, Resting, Booting
<1>5. card.present => Station(After, Got, MosiAfter)' /\ Outcome(After)'
  <2>1. pc' \in Resting \cup {"pulse", "select", "deselect"} /\ pc' \in Closing /\ which' # "cmd17"
    BY <1>1 DEF Resting, Closing
  <2> QED BY <1>2, <1>3, <2>1, StationRests, OutcomeCloses
<1>6. StoreInv'
  <2>1. SameStore(card', card) /\ SameStore(After', card)
    BY <1>3 DEF SameStore, Keeping
  <2> QED BY <1>1, <2>1, StoreKept
<1>7. /\ r1' \in Byte /\ ocr' \in Byte /\ SDBUF' \in [1..(SECTOR + 2) -> Byte] /\ pc' \notin Sitting
      /\ i' \in 0..(SECTOR + 33) /\ Tame(After')
  BY <1>1, <1>3 DEF SdInv, RegInv, Sitting
<1> QED BY <1>1, <1>3, <1>4, <1>5, <1>6, <1>7, StepKeeps

LEMMA AnswerLongKeeps == ASSUME SdInv, AnswerLong PROVE SdInv'
<1>1. /\ pc = "answer" /\ SpiIdle /\ (A # 255 \/ i = 1) /\ which \in {"cmd08", "cmd58"}
      /\ r1' = A /\ Recv /\ pc' = "r5" /\ i' = 1
      /\ UNCHANGED <<which, ocr, SDBUF, ignore, call, booted, ret>>
  BY DEF AnswerLong, Answered, At, Loop
<1>2. card.present => /\ Heeded(A, 2, Reply(card)) /\ Answers(card) /\ Listens(card) /\ port.mosi = 1
                      /\ Len(Reply(card)) = 6
  <2>1. ASSUME card.present PROVE Heeded(A, 2, Reply(card)) /\ Answers(card) /\ Begun(card) /\ port.mosi = 1
    BY <1>1, <2>1, AnswerSoFar DEF Silent
  <2>2. ASSUME card.present PROVE Len(Reply(card)) = 6
    BY <1>1, <2>1, <2>2 DEF Heeded, ReplyTyped
  <2> QED BY <1>1, <2>1, <2>2 DEF Begun
<1>3. /\ WireInv' /\ Keeping /\ ~SpiIdle' /\ Got' = Heard /\ MosiAfter' = port.mosi
      /\ SameStore(card', card) /\ SameStore(After', card)
      /\ card.present => Tame(After') /\ Listens(After')
  BY <1>1, <1>2, RecvKeeps DEF Patient
<1>4. ProgInv' /\ CallInv'
  BY <1>1, <1>3 DEF SdInv, ProgInv, CallInv, Stations, Resting, Booting
<1>5. card.present => Station(After, Got, MosiAfter)' /\ Outcome(After)'
  <2>1. \A c, a : Listens(c) /\ Streams(c, a, 2 + i', Reply(c)) => Station(c, a, 1)'
    BY <1>1, StationLong
  <2>2. pc' \notin Closing \cup {"token", "data", "payload", "ask", "response"}
    BY <1>1 DEF Closing
  <2>3. ASSUME card.present PROVE Streams(After', Got', 2 + i', Reply(After'))
    <3> DEFINE k == 2
    <3>0. Len(Reply(card)) = 6 /\ Heeded(A, k, Reply(card))
      BY <1>2, <2>3, Zenon
    <3>1. k \in Nat /\ k < 6 /\ k + 1 = 3 /\ 2 + i' = 3
      BY <1>1
    <3> HIDE DEF k
    <3>2. Streams(After', Got', k + 1, Reply(After'))
      BY <1>1, <1>2, <2>3, <3>0, <3>1, Heeds DEF Patient
    <3> QED BY <3>1, <3>2
  <2> QED BY <1>2, <1>3, <2>1, <2>2, <2>3, OutcomeElsewhere
<1>6. StoreInv'
  BY <1>1, <1>3, StoreKept DEF Closing
<1>7. i' \in 0..(SECTOR + 33)
  BY <1>1, CardAssumption DEF CardAssumption
<1>8. r1' \in Byte /\ ocr' \in Byte /\ SDBUF' \in [1..(SECTOR + 2) -> Byte] /\ pc' \notin Sitting
  BY <1>1 DEF SdInv, RegInv, Sitting
<1> QED BY <1>1, <1>3, <1>4, <1>5, <1>6, <1>7, <1>8, StepKeeps

LEMMA MoreOfAnswerKeeps == ASSUME SdInv, MoreOfAnswer PROVE SdInv'
<1>1. /\ pc = "r5" /\ SpiIdle /\ ocr' \in {A, ocr}
      /\ UNCHANGED <<which, r1, SDBUF, ignore, call, booted, ret>>
      /\ \/ i < 4 /\ Recv /\ pc' = "r5" /\ i' = i + 1
         \/ i = 4 /\ Quiet /\ pc' = "close" /\ i' = i
  BY DEF MoreOfAnswer, At, Loop, Goto
<1>2. i \in 1..4 /\ which \in {"cmd08", "cmd58"} /\ Asking /\ A \in Byte /\ ocr' \in Byte
  BY <1>1 DEF SdInv, ProgInv, RegInv, Asking, Booting
<1>3. card.present => /\ Listens(card) /\ Answers(card) /\ Heeded(A, 2 + i, Reply(card))
                      /\ port.mosi = 1 /\ Len(Reply(card)) = 6
  <2>1. ASSUME card.present PROVE Listens(card) /\ Streams(card, A, 2 + i, Reply(card)) /\ port.mosi = 1
    BY <1>1, <2>1, BeforeByte DEF Station
  <2>2. Answers(card)
    BY <1>2 DEF Answers
  <2>3. ReplyTyped(Reply(card))
    BY <1>2, <2>2, Replies
  <2> QED BY <1>2, <2>1, <2>2, <2>3 DEF Heeded, ReplyTyped
<1>4. r1' \in Byte /\ SDBUF' \in [1..(SECTOR + 2) -> Byte]
  BY <1>1 DEF SdInv, RegInv
<1>5. CASE i < 4 /\ Recv /\ pc' = "r5" /\ i' = i + 1
  <2>1. /\ WireInv' /\ Keeping /\ ~SpiIdle' /\ Got' = Heard /\ MosiAfter' = port.mosi
        /\ SameStore(card', card) /\ SameStore(After', card)
        /\ card.present => Tame(After') /\ Listens(After')
    BY <1>1, <1>3, <1>5, RecvKeeps DEF Patient
  <2>2. i' \in 1..4
    BY <1>2, <1>5
  <2>3. ProgInv' /\ CallInv'
    BY <1>1, <1>2, <1>5, <2>1, <2>2 DEF SdInv, ProgInv, CallInv, Stations, Resting, Booting
  <2>4. card.present => Station(After, Got, MosiAfter)' /\ Outcome(After)'
    <3>1. \A c, a : Listens(c) /\ Streams(c, a, 2 + i', Reply(c)) => Station(c, a, 1)'
      BY <1>1, <1>5, StationLong
    <3>2. pc' \notin Closing \cup {"token", "data", "payload", "ask", "response"}
      BY <1>5 DEF Closing
    <3>3. ASSUME card.present PROVE Streams(After', Got', 2 + i', Reply(After'))
      <4> DEFINE k == 2 + i
      <4>0. Len(Reply(card)) = 6 /\ Heeded(A, k, Reply(card))
        BY <1>3, <3>3, Zenon
      <4>1. k \in Nat /\ k < 6 /\ k + 1 = 2 + i'
        BY <1>2, <1>5
      <4> HIDE DEF k
      <4>2. Streams(After', Got', k + 1, Reply(After'))
        BY <1>1, <1>3, <1>5, <3>3, <4>0, <4>1, Heeds DEF Patient
      <4> QED BY <4>1, <4>2
    <3> QED BY <1>3, <2>1, <3>1, <3>2, <3>3, OutcomeElsewhere
  <2>5. StoreInv'
    BY <1>1, <1>5, <2>1, StoreKept DEF Closing
  <2>6. i' \in 0..(SECTOR + 33) /\ pc' \notin Sitting
    BY <1>5, <2>2, CardAssumption DEF CardAssumption, Sitting
  <2> QED BY <1>1, <1>2, <1>4, <2>1, <2>3, <2>4, <2>5, <2>6, StepKeeps
<1>6. CASE i = 4 /\ Quiet /\ pc' = "close" /\ i' = i
  <2>1. /\ WireInv' /\ After' = card /\ Got' = A /\ MosiAfter' = port.mosi /\ Keeping /\ SpiIdle'
    BY <1>1, <1>6, QuietStays DEF Keeping
  <2>2. card.present => Listens(card) /\ card.miso_queue = <<>>
    <3>1. card.present => Heeded(A, 6, Reply(card))
      BY <1>3, <1>6
    <3> QED BY <1>3, <3>1, HeededAll
  <2>3. ProgInv' /\ CallInv'
    BY <1>1, <1>6, <2>1 DEF SdInv, ProgInv, CallInv, Stations, Resting, Booting
  <2>4. card.present => Station(After, Got, MosiAfter)' /\ Outcome(After)'
    <3>1. pc' \in Resting \cup {"pulse", "select", "deselect"} /\ pc' \in Closing /\ which' # "cmd17"
      BY <1>1, <1>2, <1>6 DEF Resting, Closing
    <3> QED BY <2>1, <2>2, <3>1, StationRests, OutcomeCloses
  <2>5. StoreInv'
    <3>1. SameStore(card', card) /\ SameStore(After', card) /\ which' # "cmd24"
      BY <1>1, <1>2, <2>1 DEF SameStore, Keeping
    <3> QED BY <1>1, <3>1, StoreKept
  <2>6. i' \in 0..(SECTOR + 33) /\ pc' \notin Sitting /\ Tame(After')
    BY <1>6, <2>1 DEF SdInv, RegInv, Sitting
  <2> QED BY <1>1, <1>2, <1>4, <2>1, <2>3, <2>4, <2>5, <2>6, StepKeeps
<1> QED BY <1>1, <1>5, <1>6

LEMMA WaitTokenKeeps == ASSUME SdInv, WaitToken PROVE SdInv'
<1>1. /\ pc = "token" /\ SpiIdle /\ Recv
      /\ UNCHANGED <<which, r1, ocr, SDBUF, ignore, call, booted, ret>>
      /\ \/ A # 254 /\ pc' = "token" /\ i' = i
         \/ A = 254 /\ pc' = "data" /\ i' = 1
  BY DEF WaitToken, At, Loop, Goto, Same
<1>2. which = "cmd17" /\ Asking /\ SECTOR \in Nat
  BY <1>1, CardAssumption DEF SdInv, ProgInv, Asking, Booting, CardAssumption
<1>3. card.present => Listens(card) /\ Answers(card) /\ port.mosi = 1 /\ r1 = 0
  BY <1>1, BeforeByte DEF Station, Outcome
<1>4. card.present => ReplyTyped(Reply(card))
  BY <1>2, <1>3, Replies
<1>5. ASSUME card.present
      PROVE  \E k \in 3..7 : Heeded(A, k, Reply(card)) /\ (k = 7 <=> A = 254)
  <2>1. PICK k \in 3..7 : Streams(card, A, k, Reply(card))
    BY <1>1, <1>5, BeforeByte DEF Station
  <2> DEFINE r == Reply(card)
  <2>2. ReplyTyped(r)
    BY <1>4, <1>5
  <2>3. A = r[k]
    BY <2>1 DEF Streams
  <2> HIDE DEF r
  <2>4. r[7] = 254 /\ \A j \in 3..6 : r[j] = 255
    BY <1>2, <2>2 DEF ReplyTyped
  <2>5. k = 7 \/ k \in 3..6
    OBVIOUS
  <2>6. k = 7 <=> A = 254
    BY <2>3, <2>4, <2>5
  <2> QED BY <2>1, <2>2, <2>6 DEF Heeded, r
<1>6. /\ WireInv' /\ Keeping /\ ~SpiIdle' /\ Got' = Heard /\ MosiAfter' = port.mosi
      /\ SameStore(card', card) /\ SameStore(After', card)
      /\ card.present => Tame(After') /\ Listens(After')
  BY <1>1, <1>3, RecvKeeps DEF Patient
<1>7. ProgInv' /\ CallInv'
  <2>1. 1 \in 1..(SECTOR + 2)
    BY <1>2
  <2> QED BY <1>1, <1>2, <1>6, <2>1 DEF SdInv, ProgInv, CallInv, Stations, Resting, Booting
<1>8. ASSUME card.present PROVE Station(After, Got, MosiAfter)' /\ Outcome(After)'
  <2>1. PICK k \in 3..7 : Heeded(A, k, Reply(card)) /\ (k = 7 <=> A = 254)
    BY <1>5, <1>8
  <2>2. k \in Nat /\ k < Len(Reply(card))
    BY <1>2, <1>4, <1>8 DEF ReplyTyped
  <2>3. Answers(After') /\ Streams(After', Got', k + 1, Reply(After'))
    BY <1>1, <1>3, <1>8, <2>1, <2>2, Heeds DEF Patient
  <2>4. CASE A # 254 /\ pc' = "token" /\ i' = i
    <3>1. \A c, a : Listens(c) /\ Answers(c) /\ (\E j \in 3..7 : Streams(c, a, j, Reply(c))) => Station(c, a, 1)'
      BY <1>1, <2>4, StationToken
    <3>2. k + 1 \in 3..7
      BY <2>1, <2>4
    <3>3. Outcome(After)'
      BY <1>1, <1>3, <1>8, <2>4 DEF Outcome, Closing
    <3> QED BY <1>3, <1>6, <1>8, <2>3, <3>1, <3>2, <3>3
  <2>5. CASE A = 254 /\ pc' = "data" /\ i' = 1
    <3>1. \A c, a : Listens(c) /\ Answers(c) /\ Streams(c, a, 7 + i', Reply(c)) => Station(c, a, 1)'
      BY <1>1, <2>5, StationData
    <3>2. k + 1 = 7 + i'
      BY <2>1, <2>5
    <3>3. Outcome(After)'
      <4>1. i' - 1 = 0 /\ \A c : InBuffer(c, 0)'
        BY <2>5 DEF InBuffer
      <4>2. pc' # "ask" /\ pc' # "payload" /\ pc' # "response" /\ pc' \notin Closing /\ r1' = 0
        BY <1>1, <1>3, <1>8, <2>5 DEF Closing
      <4>3. InBuffer(After, i - 1)'
        BY <4>1 DEF InBuffer
      <4> QED BY <4>2, <4>3 DEF Outcome
    <3> QED BY <1>3, <1>6, <1>8, <2>3, <3>1, <3>2, <3>3
  <2> QED BY <1>1, <2>4, <2>5
<1>9. StoreInv'
  BY <1>1, <1>6, StoreKept DEF Closing
<1>10. i' \in 0..(SECTOR + 33)
  BY <1>1, <1>2 DEF SdInv, RegInv
<1>11. r1' \in Byte /\ ocr' \in Byte /\ SDBUF' \in [1..(SECTOR + 2) -> Byte] /\ pc' \notin Sitting
  BY <1>1 DEF SdInv, RegInv, Sitting
<1> QED BY <1>1, <1>6, <1>7, <1>8, <1>9, <1>10, <1>11, StepKeeps

(* The answer to a read or a write: refused, or the sector follows.           *)
LEMMA SectorAnswered ==
  ASSUME SdInv, pc = "answer", SpiIdle, card.present, A # 255 \/ i = 1, which \in {"cmd17", "cmd24"}
  PROVE  /\ Begun(card) /\ port.mosi = 1
         /\ A # 0 => Silent(card)
         /\ A = 0 => Answers(card) /\ Heeded(A, 2, Reply(card))
<1>1. /\ Begun(card) /\ port.mosi = 1
      /\ \/ Silent(card) /\ A = 255
         \/ Answers(card) /\ A = Reply(card)[2] /\ Heeded(A, 2, Reply(card))
  BY AnswerSoFar
<1>2. Heeded(A, 2, Reply(card)) => Reply(card)[2] = 0
  BY DEF Heeded, ReplyTyped
<1> QED BY <1>1, <1>2

LEMMA Refused ==
  ASSUME SdInv, Answered({"cmd17", "cmd24"}), A # 0, Quiet, Goto("close"),
         UNCHANGED <<which, ocr, SDBUF, ignore, call, booted, ret>>
  PROVE  SdInv'
<1>1. /\ pc = "answer" /\ SpiIdle /\ (A # 255 \/ i = 1) /\ which \in {"cmd17", "cmd24"} /\ r1' = A
      /\ pc' = "close" /\ i' = i
      /\ UNCHANGED <<which, ocr, SDBUF, ignore, call, booted, ret>>
  BY DEF Answered, At, Goto
<1>2. card.present => Silent(card) /\ Listens(card) /\ card.miso_queue = <<>>
  BY <1>1, SectorAnswered DEF Silent, Begun
<1>3. /\ WireInv' /\ After' = card /\ Got' = A /\ MosiAfter' = port.mosi /\ Keeping /\ SpiIdle'
  BY <1>1, QuietStays DEF Keeping
<1>4. ProgInv' /\ CallInv'
  BY <1>1, <1>3 DEF SdInv, ProgInv, CallInv, Stations, Resting, Booting
<1>5. card.present => Station(After, Got, MosiAfter)' /\ Outcome(After)'
  <2>1. pc' \in Resting \cup {"pulse", "select", "deselect"} /\ pc' \in Closing /\ r1' # 0
    BY <1>1 DEF Resting, Closing
  <2>2. card.present => After'.failed
    BY <1>2, <1>3 DEF Silent
  <2> QED BY <1>2, <1>3, <2>1, <2>2, StationRests, OutcomeCloses
<1>6. StoreInv'
  <2>1. SameStore(card', card) /\ SameStore(After', card)
    BY <1>3 DEF SameStore, Keeping
  <2> QED BY <1>1, <2>1, StoreKept
<1>7. /\ r1' \in Byte /\ ocr' \in Byte /\ SDBUF' \in [1..(SECTOR + 2) -> Byte] /\ pc' \notin Sitting
      /\ i' \in 0..(SECTOR + 33) /\ Tame(After')
  BY <1>1, <1>3 DEF SdInv, RegInv, Sitting
<1> QED BY <1>1, <1>3, <1>4, <1>5, <1>6, <1>7, StepKeeps

LEMMA ReadGranted ==
  ASSUME SdInv, Answered({"cmd17", "cmd24"}), A = 0, which = "cmd17", Recv, Goto("token"),
         UNCHANGED <<which, ocr, SDBUF, ignore, call, booted, ret>>
  PROVE  SdInv'
<1>1. /\ pc = "answer" /\ SpiIdle /\ (A # 255 \/ i = 1) /\ which \in {"cmd17", "cmd24"} /\ r1' = 0
      /\ pc' = "token" /\ i' = i
      /\ UNCHANGED <<which, ocr, SDBUF, ignore, call, booted, ret>>
  BY DEF Answered, At, Goto
<1>2. card.present => /\ Answers(card) /\ Heeded(A, 2, Reply(card)) /\ Listens(card) /\ port.mosi = 1
                      /\ 2 < Len(Reply(card))
  <2>1. card.present => Answers(card) /\ Heeded(A, 2, Reply(card)) /\ Listens(card) /\ port.mosi = 1
    BY <1>1, SectorAnswered DEF Begun
  <2>2. ReplyTyped(Reply(card)) => Len(Reply(card)) = SECTOR + 9
    BY DEF ReplyTyped
  <2>3. 2 < SECTOR + 9
    BY CardAssumption DEF CardAssumption
  <2> QED BY <2>1, <2>2, <2>3 DEF Heeded
<1>3. /\ WireInv' /\ Keeping /\ ~SpiIdle' /\ Got' = Heard /\ MosiAfter' = port.mosi
      /\ SameStore(card', card) /\ SameStore(After', card)
      /\ card.present => Tame(After') /\ Listens(After')
  BY <1>1, <1>2, RecvKeeps DEF Patient
<1>4. ProgInv' /\ CallInv'
  BY <1>1, <1>3 DEF SdInv, ProgInv, CallInv, Stations, Resting, Booting
<1>5. ASSUME card.present PROVE Station(After, Got, MosiAfter)' /\ Outcome(After)'
  <2>1. \A c, a : Listens(c) /\ Answers(c) /\ (\E j \in 3..7 : Streams(c, a, j, Reply(c))) => Station(c, a, 1)'
    BY <1>1, StationToken
  <2> DEFINE k == 2
  <2>2. k \in Nat /\ k + 1 \in 3..7 /\ k = 2
    OBVIOUS
  <2> HIDE DEF k
  <2>3. Answers(After') /\ Streams(After', Got', k + 1, Reply(After'))
    BY <1>1, <1>2, <1>5, <2>2, Heeds DEF Patient
  <2>4. Outcome(After)'
    BY <1>1 DEF Outcome, Closing
  <2> QED BY <1>2, <1>3, <1>5, <2>1, <2>2, <2>3, <2>4
<1>6. StoreInv'
  BY <1>1, <1>3, StoreKept DEF Closing
<1>7. /\ r1' \in Byte /\ ocr' \in Byte /\ SDBUF' \in [1..(SECTOR + 2) -> Byte] /\ pc' \notin Sitting
      /\ i' \in 0..(SECTOR + 33)
  BY <1>1 DEF SdInv, RegInv, Sitting, Byte
<1> QED BY <1>1, <1>3, <1>4, <1>5, <1>6, <1>7, StepKeeps

LEMMA WriteGranted ==
  ASSUME SdInv, Answered({"cmd17", "cmd24"}), A = 0, which = "cmd24", Send(254), Loop("payload", 0),
         UNCHANGED <<which, ocr, SDBUF, ignore, call, booted, ret>>
  PROVE  SdInv'
<1>1. /\ pc = "answer" /\ SpiIdle /\ (A # 255 \/ i = 1) /\ which \in {"cmd17", "cmd24"} /\ r1' = 0
      /\ pc' = "payload" /\ i' = 0
      /\ UNCHANGED <<which, ocr, SDBUF, ignore, call, booted, ret>>
  BY DEF Answered, At, Loop
<1> DEFINE b == 254
<1>2. b \in Byte
  BY DEF Byte
<1> HIDE DEF b
<1>3. /\ WireInv' /\ After' = Next8(b) /\ Got' = A /\ Keeping /\ ~SpiIdle'
  BY <1>1, <1>2, SendStarts DEF Keeping, b
<1>4. card \in CardSet /\ Tame(card)
  BY DEF SdInv
<1>5. card.present => /\ Awaits(card) /\ ~card.cmd24_seen_token /\ card.write_payload = <<>>
                      /\ card.miso_queue = <<>> /\ card.awaiting_write_block = TRUE
  <2>1. ASSUME card.present PROVE Heeded(A, 2, Reply(card)) /\ Begun(card)
    BY <1>1, <2>1, SectorAnswered
  <2>2. ASSUME card.present PROVE Len(Reply(card)) = 2
    BY <2>1, <2>2 DEF Heeded, ReplyTyped
  <2>3. card.awaiting_write_block \in BOOLEAN
    BY <1>4 DEF CardSet
  <2> QED BY <2>1, <2>2, <2>3, HeededAll DEF Begun, Awaits
<1> DEFINE d == AfterByte(card, 254, 8)
<1>6. card.present => /\ After' = d /\ d \in CardSet /\ SameStore(d, card) /\ Queues(d, <<>>, <<>>)
                      /\ d.awaiting_write_block = TRUE /\ d.cmd24_seen_token = TRUE
                      /\ d.pending_write_addr = card.pending_write_addr /\ d.write_payload = <<>>
  BY <1>3, <1>4, <1>5, TokenIn, ZenonT(60) DEF Next8, b, Awaits, Without
<1> HIDE DEF d
<1>7. ProgInv' /\ CallInv'
  <2>1. 0 \in 0..(SECTOR + 2)
    BY CardAssumption DEF CardAssumption
  <2> QED BY <1>1, <1>3, <2>1 DEF SdInv, ProgInv, CallInv, Stations, Resting, Booting
<1>8. ASSUME card.present PROVE Tame(After') /\ Station(After, Got, MosiAfter)' /\ Outcome(After)'
  <2>1. Len(<<>>) = 0 /\ 0 < 6 /\ 0 < SECTOR + 2 /\ ~(0 >= SECTOR) /\ 0 \in Nat /\ ~(0 = SECTOR + 2)
    BY CardAssumption DEF CardAssumption
  <2>2. Tame(After')
    BY <1>6, <1>8, <2>1 DEF Tame, Storable, Queues
  <2>3. \A c, a, m :
           /\ Awaits(c) /\ c.cmd24_seen_token /\ c.miso_queue = <<>>
           /\ Len(c.write_payload) = i' /\ \A k \in 1..i' : k <= SECTOR => c.write_payload[k] = SDBUF[k]
           => Station(c, a, m)'
    BY <1>1, <2>1, StationPayload
  <2>4. \A k \in 1..i' : FALSE
    BY <1>1
  <2>5. Awaits(After')
    BY <1>5, <1>6, <1>8 DEF Awaits, Queues
  <2>6. Station(After, Got, MosiAfter)'
    BY <1>1, <1>6, <1>8, <2>1, <2>3, <2>4, <2>5 DEF Queues
  <2>7. Outcome(After)'
    BY <1>1, <2>1 DEF Outcome, Closing
  <2> QED BY <2>2, <2>6, <2>7
<1>9. StoreInv'
  <2>1. SameStore(card', card) /\ SameStore(After', card)
    BY <1>3, <1>6 DEF Keeping, SameStore, Next8
  <2> QED BY <1>1, <2>1, StoreKept DEF Closing
<1>10. /\ r1' \in Byte /\ ocr' \in Byte /\ SDBUF' \in [1..(SECTOR + 2) -> Byte] /\ pc' \notin Sitting
       /\ i' \in 0..(SECTOR + 33)
  BY <1>1, CardAssumption DEF SdInv, RegInv, Sitting, Byte, CardAssumption
<1> QED BY <1>1, <1>3, <1>7, <1>8, <1>9, <1>10, StepKeeps

LEMMA AnswerSectorKeeps == ASSUME SdInv, AnswerSector PROVE SdInv'
BY Refused, ReadGranted, WriteGranted DEF AnswerSector

(* The sector comes in, byte by byte.                                         *)
LEMMA BufferGrows ==
  ASSUME SdInv, pc = "data", SpiIdle, SDBUF' = [SDBUF EXCEPT ![i] = A], which' = which, call' = call
  PROVE  /\ SDBUF' \in [1..(SECTOR + 2) -> Byte]
         /\ card.present => \A k \in 1..i : SDBUF'[k] = Reply(card)[7 + k]
<1>1. SDBUF \in [1..(SECTOR + 2) -> Byte] /\ A \in Byte /\ i \in 1..(SECTOR + 2) /\ SECTOR \in Nat
  BY CardAssumption DEF SdInv, RegInv, ProgInv, CardAssumption
<1>2. SDBUF' \in [1..(SECTOR + 2) -> Byte]
  BY <1>1
<1>4. ASSUME card.present PROVE \A k \in 1..i : SDBUF'[k] = Reply(card)[7 + k]
  <2> DEFINE r == Reply(card)
  <2>1. Streams(card, A, 7 + i, r) /\ InBuffer(card, i - 1)
    BY <1>4, BeforeByte DEF Station, Outcome
  <2>2. A = r[7 + i] /\ \A k \in 1..(i - 1) : SDBUF[k] = r[7 + k]
    BY <2>1 DEF Streams, InBuffer
  <2> HIDE DEF r
  <2>3. \A k \in 1..i : k = i \/ k \in 1..(i - 1)
    BY <1>1
  <2>4. \A k \in 1..i : k \in 1..(SECTOR + 2)
    BY <1>1
  <2>5. SDBUF'[i] = A /\ \A k \in 1..(i - 1) : k # i /\ k \in 1..(SECTOR + 2)
    BY <1>1
  <2>6. \A k \in 1..(i - 1) : SDBUF'[k] = SDBUF[k]
    BY <1>1, <2>5
  <2> QED BY <2>2, <2>3, <2>5, <2>6 DEF r
<1> QED BY <1>2, <1>4

LEMMA ReadDataKeeps == ASSUME SdInv, ReadData PROVE SdInv'
<1>1. /\ pc = "data" /\ SpiIdle /\ SDBUF' = [SDBUF EXCEPT ![i] = A]
      /\ UNCHANGED <<which, r1, ocr, ignore, call, booted, ret>>
      /\ \/ i < SECTOR + 2 /\ Recv /\ pc' = "data" /\ i' = i + 1
         \/ i = SECTOR + 2 /\ Quiet /\ pc' = "close" /\ i' = i
  BY DEF ReadData, At, Loop, Goto
<1>2. which = "cmd17" /\ Asking /\ SECTOR \in Nat /\ i \in 1..(SECTOR + 2)
  BY <1>1, CardAssumption DEF SdInv, ProgInv, Asking, Booting, CardAssumption
<1>3. /\ SDBUF' \in [1..(SECTOR + 2) -> Byte]
      /\ card.present => \A k \in 1..i : SDBUF'[k] = Reply(card)[7 + k]
  BY <1>1, BufferGrows
<1>4. card.present => /\ Listens(card) /\ Answers(card) /\ port.mosi = 1 /\ r1 = 0
                      /\ Streams(card, A, 7 + i, Reply(card))
  BY <1>1, BeforeByte DEF Station, Outcome
<1>5. card.present => Heeded(A, 7 + i, Reply(card)) /\ Len(Reply(card)) = SECTOR + 9
  <2>1. card.present => ReplyTyped(Reply(card))
    BY <1>2, <1>4, Replies
  <2> QED BY <1>2, <1>4, <2>1 DEF Heeded, ReplyTyped
<1>6. r1' \in Byte /\ ocr' \in Byte
  BY <1>1 DEF SdInv, RegInv
<1>7. \A c : Reply(c)' = Reply(c) /\ Answers(c)' = Answers(c)
  BY <1>1, SameCommand
<1>8. ASSUME NEW c, SameStore(c, card), card.present
      PROVE  /\ i' - 1 = i => InBuffer(c, i - 1)'
             /\ i = SECTOR + 2 => InBuffer(c, SECTOR + 2)'
  <2>1. Reply(c)' = Reply(card)
    BY <1>7, <1>8, SameReply
  <2>2. \A k \in 1..i : SDBUF'[k] = Reply(c)'[7 + k]
    BY <1>3, <1>8, <2>1
  <2> QED BY <2>2 DEF InBuffer
<1>9. CASE i < SECTOR + 2 /\ Recv /\ pc' = "data" /\ i' = i + 1
  <2>1. /\ WireInv' /\ Keeping /\ ~SpiIdle' /\ Got' = Heard /\ MosiAfter' = port.mosi
        /\ SameStore(card', card) /\ SameStore(After', card)
        /\ card.present => Tame(After') /\ Listens(After')
    BY <1>1, <1>4, <1>9, RecvKeeps DEF Patient
  <2>2. i' \in 1..(SECTOR + 2) /\ i' - 1 = i
    BY <1>2, <1>9
  <2>3. ProgInv' /\ CallInv'
    BY <1>1, <1>2, <1>9, <2>1, <2>2 DEF SdInv, ProgInv, CallInv, Stations, Resting, Booting
  <2>4. ASSUME card.present PROVE Station(After, Got, MosiAfter)' /\ Outcome(After)'
    <3>1. \A c, a : Listens(c) /\ Answers(c) /\ Streams(c, a, 7 + i', Reply(c)) => Station(c, a, 1)'
      BY <1>1, <1>9, StationData
    <3> DEFINE k == 7 + i
    <3>2. Heeded(A, k, Reply(card)) /\ Len(Reply(card)) = SECTOR + 9
      BY <1>5, <2>4, Zenon
    <3>3. k \in Nat /\ k < SECTOR + 9 /\ k + 1 = 7 + i'
      BY <1>2, <1>9
    <3> HIDE DEF k
    <3>4. Answers(After') /\ Streams(After', Got', k + 1, Reply(After'))
      BY <1>1, <1>4, <1>9, <2>4, <3>2, <3>3, Heeds DEF Patient
    <3>5. \A c : SameStore(c, card) => InBuffer(c, i - 1)'
      BY <1>8, <2>2, <2>4
    <3>6. Outcome(After)'
      <4>1. InBuffer(After, i - 1)'
        BY <2>1, <3>5
      <4>2. pc' = "data" /\ pc' \notin Closing /\ r1' = 0
        BY <1>1, <1>4, <1>9, <2>4 DEF Closing
      <4> QED BY <4>1, <4>2 DEF Outcome
    <3> QED BY <1>4, <2>1, <2>4, <3>1, <3>3, <3>4, <3>6
  <2>5. StoreInv'
    BY <1>1, <1>9, <2>1, StoreKept DEF Closing
  <2>6. i' \in 0..(SECTOR + 33) /\ pc' \notin Sitting
    BY <1>2, <1>9, <2>2 DEF Sitting
  <2> QED BY <1>1, <1>3, <1>6, <2>1, <2>3, <2>4, <2>5, <2>6, StepKeeps
<1>10. CASE i = SECTOR + 2 /\ Quiet /\ pc' = "close" /\ i' = i
  <2>1. /\ WireInv' /\ After' = card /\ Got' = A /\ MosiAfter' = port.mosi /\ Keeping /\ SpiIdle'
    BY <1>1, <1>10, QuietStays DEF Keeping
  <2>2. card.present => Listens(card) /\ card.miso_queue = <<>>
    <3>1. 7 + i = SECTOR + 9
      BY <1>2, <1>10
    <3>2. card.present => Heeded(A, SECTOR + 9, Reply(card)) /\ SECTOR + 9 = Len(Reply(card))
      BY <1>5, <3>1, Zenon
    <3> QED BY <1>4, <3>2, HeededAll
  <2>3. ProgInv' /\ CallInv'
    BY <1>1, <1>2, <1>10, <2>1 DEF SdInv, ProgInv, CallInv, Stations, Resting, Booting
  <2>4. ASSUME card.present PROVE Station(After, Got, MosiAfter)' /\ Outcome(After)'
    <3>1. pc' \in Resting \cup {"pulse", "select", "deselect"} /\ pc' \in Closing /\ r1' = 0
      BY <1>1, <1>4, <1>10, <2>4 DEF Resting, Closing
    <3>2. SameStore(card, card)
      BY DEF SameStore
    <3>3. \A c : SameStore(c, card) => InBuffer(c, SECTOR + 2)'
      BY <1>8, <1>10, <2>4
    <3>4. \A c : SameStore(c, card) => Answers(c)'
      BY <1>4, <1>7, <2>4, SameReply
    <3>5. \A c : Answers(c)' /\ InBuffer(c, SECTOR + 2)' => Outcome(c)'
      BY <3>1, OutcomeCloses
    <3>6. \A c : SameStore(c, card) => Outcome(c)'
      BY <3>3, <3>4, <3>5
    <3>7. Outcome(After)'
      BY <2>1, <3>2, <3>6
    <3> QED BY <2>1, <2>2, <2>4, <3>1, <3>7, StationRests
  <2>5. StoreInv'
    <3>1. SameStore(card', card) /\ SameStore(After', card) /\ which' # "cmd24"
      BY <1>1, <1>2, <2>1 DEF SameStore, Keeping
    <3> QED BY <1>1, <3>1, StoreKept
  <2>6. i' \in 0..(SECTOR + 33) /\ pc' \notin Sitting /\ Tame(After')
    BY <1>10, <2>1 DEF SdInv, RegInv, Sitting
  <2> QED BY <1>1, <1>3, <1>6, <2>1, <2>3, <2>4, <2>5, <2>6, StepKeeps
<1> QED BY <1>1, <1>9, <1>10

(* The sector goes out, byte by byte.                                         *)
LEMMA BufferTyped == ASSUME SdInv PROVE SDBUF \in Seq(Byte) /\ Len(SDBUF) = SECTOR + 2
<1>1. SDBUF \in [1..(SECTOR + 2) -> Byte] /\ SECTOR + 2 \in Nat
  BY CardAssumption DEF SdInv, RegInv, CardAssumption
<1> QED BY <1>1

LEMMA SameBytes ==
  ASSUME NEW p \in Seq(Byte), NEW q \in Seq(Byte), NEW n \in Nat, Len(p) >= n, Len(q) >= n,
         \A k \in 1..n : p[k] = q[k]
  PROVE  SubSeq(p, 1, n) = SubSeq(q, 1, n)
<1> DEFINE x == SubSeq(p, 1, n)
           y == SubSeq(q, 1, n)
<1>1. x \in Seq(Byte) /\ Len(x) = n /\ \A k \in 1..n : x[k] = p[k]
  OBVIOUS
<1>2. y \in Seq(Byte) /\ Len(y) = n /\ \A k \in 1..n : y[k] = q[k]
  OBVIOUS
<1> HIDE DEF x, y
<1>3. x = y
  BY <1>1, <1>2, SeqEqual
<1> QED BY <1>3 DEF x, y

LEMMA PayloadIsData ==
  ASSUME SdInv, pc = "payload", NEW p \in Seq(Byte), Len(p) >= SECTOR,
         \A k \in 1..SECTOR : p[k] = SDBUF[k]
  PROVE  SubSeq(p, 1, SECTOR) = call.data /\ call.data \in Sectors /\ call.lba \in Lbas
<1>1. /\ DataOf(SDBUF) = call.data /\ call.data \in Sectors /\ call.lba \in Lbas
  BY DEF SdInv, ProgInv, CallInv, Booting
<1>2. SDBUF \in Seq(Byte) /\ Len(SDBUF) >= SECTOR /\ SECTOR \in Nat
  BY BufferTyped, CardAssumption DEF CardAssumption
<1>3. SubSeq(p, 1, SECTOR) = SubSeq(SDBUF, 1, SECTOR)
  BY <1>2, SameBytes
<1> QED BY <1>1, <1>3 DEF DataOf

LEMMA PayloadMoves ==
  ASSUME SdInv, pc = "payload", SpiIdle, i \in 0..SECTOR, NEW b \in Byte, i < SECTOR => b = SDBUF[i + 1],
         Send(b), pc' = "payload", i' = i + 1, Same
  PROVE  SdInv'
<1>1. UNCHANGED <<which, r1, ocr, SDBUF, ignore, call, booted, ret>>
  BY DEF Same
<1>2. SECTOR \in Nat /\ i \in Nat /\ i' \in 0..(SECTOR + 2) /\ i' \in Nat /\ i' < SECTOR + 2 /\ i < SECTOR + 2
  BY CardAssumption DEF CardAssumption
<1>3. /\ WireInv' /\ After' = Next8(b) /\ Got' = A /\ Keeping /\ ~SpiIdle'
  BY SendStarts DEF Keeping
<1>4. card \in CardSet /\ Tame(card)
  BY DEF SdInv
<1>5. card.present => /\ Awaits(card) /\ card.cmd24_seen_token = TRUE /\ card.miso_queue = <<>>
                      /\ Len(card.write_payload) = i /\ card.awaiting_write_block = TRUE
                      /\ \A k \in 1..i : k <= SECTOR => card.write_payload[k] = SDBUF[k]
                      /\ r1 = 0
  <2>1. card.cmd24_seen_token \in BOOLEAN /\ card.awaiting_write_block \in BOOLEAN
    BY <1>4 DEF CardSet
  <2>2. card.present => Station(card, A, port.mosi) /\ Outcome(card)
    BY BeforeByte
  <2>3. card.present => /\ Awaits(card) /\ card.cmd24_seen_token /\ card.miso_queue = <<>>
                        /\ Len(card.write_payload) = i
                        /\ \A k \in 1..i : k <= SECTOR => card.write_payload[k] = SDBUF[k]
    BY <1>2, <2>2 DEF Station
  <2>4. card.present => r1 = 0
    BY <2>2 DEF Outcome
  <2> QED BY <2>1, <2>3, <2>4 DEF Awaits
<1> DEFINE d == AfterByte(card, b, 8)
<1>6. card.present => /\ After' = d /\ d \in CardSet /\ SameStore(d, card) /\ Queues(d, <<>>, <<>>)
                      /\ d.awaiting_write_block = TRUE /\ d.cmd24_seen_token = TRUE
                      /\ d.pending_write_addr = card.pending_write_addr
                      /\ d.write_payload = Append(card.write_payload, b)
  <2>1. card.present => Len(card.write_payload) + 1 < SECTOR + 2
    BY <1>2, <1>5
  <2>2. card.present => LET e == AfterByte(card, b, 8)
         IN /\ e \in CardSet /\ SameStore(e, card) /\ Queues(e, <<>>, Without(card.miso_queue))
            /\ e.awaiting_write_block = TRUE /\ e.cmd24_seen_token = TRUE
            /\ e.pending_write_addr = card.pending_write_addr
            /\ e.write_payload = Append(card.write_payload, b)
    BY <1>4, <1>5, <2>1, PayloadGrows DEF Awaits
  <2> QED BY <1>3, <1>5, <2>2 DEF Next8, Without
<1> HIDE DEF d
<1>7. ProgInv' /\ CallInv'
  BY <1>1, <1>2, <1>3 DEF SdInv, ProgInv, CallInv, Stations, Resting, Booting
<1>8. ASSUME card.present PROVE Tame(After') /\ Station(After, Got, MosiAfter)' /\ Outcome(After)'
  <2> DEFINE p == card.write_payload
             q == After'.write_payload
  <2>1. p \in Seq(Byte) /\ Len(p) = i /\ q = Append(p, b) /\ \A k \in 1..i : k <= SECTOR => p[k] = SDBUF[k]
    BY <1>4, <1>5, <1>6, <1>8 DEF CardSet
  <2> HIDE DEF p, q
  <2>2. q \in Seq(Byte) /\ Len(q) = i + 1 /\ q[i + 1] = b /\ \A k \in 1..i : q[k] = p[k]
    BY <2>1
  <2>3. \A k \in 1..(i + 1) : k = i + 1 \/ k \in 1..i
    BY <1>2
  <2>4. i + 1 <= SECTOR => b = SDBUF[i + 1]
    BY <1>2
  <2>5. \A k \in 1..i' : k <= SECTOR => q[k] = SDBUF[k]
    BY <2>1, <2>2, <2>3, <2>4
  <2>6. Storable(After')
    <3>1. ASSUME Len(q) >= SECTOR PROVE SubSeq(q, 1, SECTOR) \in Sectors
      <4>1. \A k \in 1..SECTOR : k \in 1..i' /\ k <= SECTOR
        BY <1>2, <2>2, <3>1
      <4>2. \A k \in 1..SECTOR : q[k] = SDBUF[k]
        BY <2>5, <4>1
      <4> QED BY <2>2, <3>1, <4>2, PayloadIsData
    <3> QED BY <3>1 DEF Storable, q
  <2>7. Tame(After')
    <3>1. Len(q) < SECTOR + 2 /\ Len(<<>>) < 6
      BY <1>2, <2>2
    <3> QED BY <1>6, <1>8, <2>6, <3>1 DEF Tame, Queues, q
  <2>8. \A c, a, m :
           /\ Awaits(c) /\ c.cmd24_seen_token /\ c.miso_queue = <<>>
           /\ Len(c.write_payload) = i' /\ \A k \in 1..i' : k <= SECTOR => c.write_payload[k] = SDBUF[k]
           => Station(c, a, m)'
    BY <1>1, <1>2, StationPayload
  <2>9. Awaits(After')
    BY <1>5, <1>6, <1>8 DEF Awaits, Queues
  <2>10. Station(After, Got, MosiAfter)'
    BY <1>6, <1>8, <2>2, <2>5, <2>8, <2>9 DEF Queues, q
  <2>11. Outcome(After)'
    <3>1. ~(i' = SECTOR + 2) /\ r1' = 0
      BY <1>1, <1>2, <1>5, <1>8
    <3> QED BY <3>1 DEF Outcome, Closing
  <2> QED BY <2>7, <2>10, <2>11
<1>9. StoreInv'
  <2>1. SameStore(card', card) /\ SameStore(After', card)
    BY <1>3, <1>6 DEF Keeping, SameStore, Next8
  <2> QED BY <1>1, <2>1, StoreKept DEF Closing
<1>10. /\ r1' \in Byte /\ ocr' \in Byte /\ SDBUF' \in [1..(SECTOR + 2) -> Byte] /\ pc' \notin Sitting
       /\ i' \in 0..(SECTOR + 33)
  BY <1>1, <1>2 DEF SdInv, RegInv, Sitting
<1> QED BY <1>1, <1>3, <1>7, <1>8, <1>9, <1>10, StepKeeps

(* What a whole card has after a write is there, however it was before.       *)
LEMMA StoredHere ==
  ASSUME NEW c \in CardSet, NEW block \in HeldSectors, NEW d,
         d.image = StoredImage(c, block), d.dirty_blocks = StoredBlocks(c, block),
         d.failed = c.failed, d.read_only = c.read_only, Whole(d)
  PROVE  Contents(d, c.pending_write_addr) = block
<1> DEFINE addr == c.pending_write_addr
<1>1. addr \in Nat
  BY DEF CardSet
<1>2. CASE c.read_only
  <2>1. d.dirty_blocks = Keep(c.dirty_blocks, addr, block)
    BY <1>2 DEF StoredBlocks
  <2>2. addr \in DOMAIN d.dirty_blocks /\ d.dirty_blocks[addr] = block
    BY <2>1 DEF Keep
  <2> QED BY <2>2 DEF Contents
<1>3. CASE ~c.read_only
  <2> DEFINE n == Len(c.image)
             m == IF addr < n THEN n ELSE addr + 1
  <2>1. ~c.failed /\ n \in Nat /\ DOMAIN d.dirty_blocks = {}
    BY <1>3 DEF Whole, CardSet
  <2>2. d.image = [k \in 1..m |-> IF k = addr + 1 THEN block ELSE IF k <= n THEN c.image[k] ELSE Zeros]
    BY <1>3, <2>1 DEF StoredImage, Written
  <2>3. m \in Nat /\ addr < m
    BY <1>1, <2>1
  <2> HIDE DEF m, n, addr
  <2>4. Len(d.image) = m /\ addr + 1 \in 1..m
    BY <1>1, <2>2, <2>3
  <2>5. d.image[addr + 1] = block /\ addr < Len(d.image)
    BY <2>2, <2>3, <2>4
  <2> QED BY <2>1, <2>5 DEF Contents, addr
<1> QED BY <1>2, <1>3

(* The last byte: the card stores the sector.                                 *)
Stores(d) ==
  /\ d.present = card.present /\ Tame(d) /\ Listens(d) /\ Sent(d, 0, Accepting)
  /\ Whole(d) => Holds(d)
  /\ Whole(card) => /\ Whole(d) /\ Contents(d, call.lba) = call.data
                    /\ \A lba \in Lbas : lba # call.lba => Contents(d, lba) = Contents(card, lba)
LEMMA CardStores ==
  ASSUME SdInv, pc = "payload", SpiIdle, i = SECTOR + 1, card.present, NEW b \in Byte
  PROVE  Stores(AfterByte(card, b, 8)) /\ call.lba \in Lbas
<1>1. card \in CardSet /\ Tame(card) /\ SECTOR \in Nat /\ i < SECTOR + 2 /\ SECTOR >= 6
  BY CardAssumption DEF SdInv, CardAssumption
<1>2. /\ Awaits(card) /\ card.cmd24_seen_token = TRUE /\ card.miso_queue = <<>>
      /\ Len(card.write_payload) = SECTOR + 1 /\ card.awaiting_write_block = TRUE
      /\ \A k \in 1..SECTOR : card.write_payload[k] = SDBUF[k]
  <2>1. card.cmd24_seen_token \in BOOLEAN /\ card.awaiting_write_block \in BOOLEAN
    BY <1>1 DEF CardSet
  <2>2. Station(card, A, port.mosi)
    BY BeforeByte
  <2>3. /\ Awaits(card) /\ card.cmd24_seen_token /\ card.miso_queue = <<>>
        /\ Len(card.write_payload) = i
        /\ \A k \in 1..i : k <= SECTOR => card.write_payload[k] = SDBUF[k]
    BY <1>1, <2>2 DEF Station
  <2>4. \A k \in 1..SECTOR : k \in 1..i /\ k <= SECTOR
    BY <1>1
  <2> QED BY <2>1, <2>3, <2>4 DEF Awaits
<1> DEFINE p == card.write_payload
           block == SubSeq(p, 1, SECTOR)
           d == AfterByte(card, b, 8)
<1>3. block = call.data /\ block \in Sectors /\ call.lba \in Lbas
  <2>1. p \in Seq(Byte) /\ Len(p) >= SECTOR
    BY <1>1, <1>2 DEF CardSet
  <2> QED BY <1>2, <2>1, PayloadIsData
<1>4. block \in HeldSectors
  BY <1>3, HeldBytes
<1> HIDE DEF block
<1>5. /\ d \in CardSet /\ d.present = card.present /\ Queues(d, <<>>, Accepting)
      /\ d.awaiting_write_block = FALSE /\ d.write_payload = <<>>
      /\ d.failed = card.failed /\ d.read_only = card.read_only
      /\ d.image = StoredImage(card, block) /\ d.dirty_blocks = StoredBlocks(card, block)
  BY <1>1, <1>2, <1>4, PayloadEnds DEF Awaits, block
<1> HIDE DEF d, p
<1>6. card.pending_write_addr = call.lba
  BY <1>2 DEF Awaits
<1>7. Listens(d) /\ Tame(d)
  <2>1. Len(<<>>) = 0 /\ 0 < 6 /\ 0 < SECTOR + 2
    BY <1>1
  <2> QED BY <1>5, <2>1 DEF Listens, Tame, Storable, Queues
<1>8. Sent(d, 0, Accepting)
  <2>1. Accepting \in Seq(Byte)
    BY DEF Accepting, Byte
  <2> QED BY <1>5, <2>1, StreamStarts DEF Queues
<1>9. Whole(d) => Holds(d)
  BY <1>1, <1>3, <1>4, <1>5, <1>6, StoredHere DEF Holds
<1>10. Whole(card) => /\ Whole(d) /\ Contents(d, call.lba) = block
                      /\ \A lba \in Lbas : lba # call.lba => Contents(d, lba) = Contents(card, lba)
  BY <1>1, <1>3, <1>4, <1>5, <1>6, StoredContents
<1> QED BY <1>3, <1>5, <1>7, <1>8, <1>9, <1>10 DEF Stores, d

LEMMA PayloadCompletes ==
  ASSUME SdInv, pc = "payload", SpiIdle, i = SECTOR + 1, Send(255), pc' = "payload", i' = SECTOR + 2, Same
  PROVE  SdInv'
<1>1. UNCHANGED <<which, r1, ocr, SDBUF, ignore, call, booted, ret>>
  BY DEF Same
<1> DEFINE b == 255
           d == AfterByte(card, b, 8)
<1>2. b \in Byte /\ b % 2 = 1
  BY DEF Byte
<1>3. SECTOR \in Nat
  BY CardAssumption DEF CardAssumption
<1> HIDE DEF b
<1>4. /\ WireInv' /\ After' = Next8(b) /\ Got' = A /\ MosiAfter' = b % 2 /\ Keeping /\ ~SpiIdle'
  BY <1>2, SendStarts DEF Keeping, b
<1>5. card.present => After' = d /\ Stores(d) /\ call.lba \in Lbas
  BY <1>2, <1>4, CardStores DEF Next8
<1>6. ProgInv' /\ CallInv'
  BY <1>1, <1>3, <1>4 DEF SdInv, ProgInv, CallInv, Stations, Resting, Booting
<1> HIDE DEF d
<1>7. ASSUME card.present PROVE Tame(After') /\ Station(After, Got, MosiAfter)' /\ Outcome(After)'
  <2>1. \A c, a : Listens(c) /\ Sent(c, 0, Accepting) => Station(c, a, 1)'
    BY StationStored
  <2>2. MosiAfter' = 1
    BY <1>2, <1>4
  <2>3. Station(After, Got, MosiAfter)'
    BY <1>5, <1>7, <2>1, <2>2 DEF Stores
  <2>4. \A c : (Whole(c) => Holds(c)) => Outcome(c)'
    <3>1. r1' = 0
      BY <1>1, <1>7, BeforeByte DEF Outcome
    <3>2. pc' \notin Closing /\ pc' # "data" /\ pc' # "ask"
      BY DEF Closing
    <3>3. \A c : Whole(c)' = Whole(c) /\ Holds(c)' = Holds(c)
      BY <1>1, SameCommand DEF Whole, HoldsAll
    <3> QED BY <3>1, <3>2, <3>3 DEF Outcome
  <2> QED BY <1>5, <1>7, <2>3, <2>4 DEF Stores
<1>8. StoreInv'
  <2>1. CASE ~card.present
    <3>1. SameStore(card', card) /\ SameStore(After', card)
      BY <1>4, <2>1 DEF Keeping, SameStore, Next8
    <3> QED BY <1>1, <3>1, StoreKept DEF Closing
  <2>2. CASE card.present
    <3>1. After' = d /\ Stores(d) /\ call.lba \in Lbas
      BY <1>5, <2>2
    <3>2. LongEnough' = LongEnough /\ Whole(After)' = Whole(d) /\ Whole(card)' = Whole(card)
      BY <1>4, <3>1 DEF LongEnough, HoldsAll, Whole, Keeping
    <3>3. LongEnough => Whole(card)
      BY DEF SdInv, StoreInv
    <3>4. pc' # "busy" /\ pc' # "response" /\ pc' \notin Closing
      BY DEF Closing
    <3>5. \A a : Contents(After, a)' = Contents(d, a) /\ Contents(card, a)' = Contents(card, a)
      BY <1>4, <3>1 DEF Contents, Keeping
    <3>6. call.op = "write" /\ call' = call
      BY <1>1 DEF SdInv, ProgInv, CallInv, Booting
    <3> QED BY <3>1, <3>2, <3>3, <3>4, <3>5, <3>6 DEF StoreInv, Stores
  <2> QED BY <2>1, <2>2
<1>9. /\ r1' \in Byte /\ ocr' \in Byte /\ SDBUF' \in [1..(SECTOR + 2) -> Byte] /\ pc' \notin Sitting
      /\ i' \in 0..(SECTOR + 33)
  BY <1>1, <1>3 DEF SdInv, RegInv, Sitting
<1> QED BY <1>1, <1>4, <1>6, <1>7, <1>8, <1>9, StepKeeps

(* Listening for the data response.                                           *)
AcceptingTyped == Accepting \in Seq(Byte) /\ Len(Accepting) = 3 /\ Accepting[1] = 255 /\ Accepting[2] = 5 /\ Accepting[3] = 255
LEMMA AcceptingIs == AcceptingTyped
<1>1. <<255, 5, 255>> \in Seq(Byte)
  BY DEF Byte
<1>2. /\ Len(<<255, 5, 255>>) = 3 /\ <<255, 5, 255>>[1] = 255 /\ <<255, 5, 255>>[2] = 5
      /\ <<255, 5, 255>>[3] = 255
  OBVIOUS
<1> QED BY <1>1, <1>2 DEF AcceptingTyped, Accepting

(* From one place of a write to the next: the sector stays where it is.       *)
LEMMA StillHeld ==
  ASSUME which' = which, call' = call, SDBUF' = SDBUF, pc' \in {"payload", "response"}, r1' = 0 \/ pc' = "response"
  PROVE  \A c, d : SameStore(d, c) /\ (Whole(c) => Holds(c)) => Outcome(d)'
<1>1. pc' \notin Closing /\ pc' # "data" /\ pc' # "ask" /\ pc' # "token"
  BY DEF Closing
<1>2. \A c, d : SameStore(d, c) => Whole(d)' = Whole(c) /\ Holds(d)' = Holds(c)
  BY StoredReply DEF Whole, HoldsAll, SameStore
<1> QED BY <1>1, <1>2 DEF Outcome

LEMMA Responds ==
  ASSUME SdInv, pc = "payload", SpiIdle, i = SECTOR + 2, Recv, pc' = "response", i' = 32, Same
  PROVE  SdInv'
<1>1. UNCHANGED <<which, r1, ocr, SDBUF, ignore, call, booted, ret>>
  BY DEF Same
<1>2. card.present => /\ Listens(card) /\ Sent(card, 0, Accepting) /\ port.mosi = 1
                      /\ Whole(card) => Holds(card)
  BY BeforeByte DEF Station, Outcome
<1>3. /\ WireInv' /\ Keeping /\ ~SpiIdle' /\ Got' = Heard /\ MosiAfter' = port.mosi
      /\ SameStore(card', card) /\ SameStore(After', card)
      /\ card.present => Tame(After') /\ Listens(After')
  BY <1>2, RecvKeeps DEF Patient
<1>4. ProgInv' /\ CallInv'
  BY <1>1, <1>3 DEF SdInv, ProgInv, CallInv, Stations, Resting, Booting
<1>5. ASSUME card.present PROVE Streams(After', Got', 33 - i', Accepting) /\ Got' = 255
  <2> DEFINE r == Accepting
             k == 0
  <2>1. r \in Seq(Byte) /\ k \in 0..(Len(r) - 1) /\ r[k + 1] = 255
    BY AcceptingIs DEF AcceptingTyped
  <2>2. Sent(card, k, r) /\ k + 1 = 33 - i'
    BY <1>2, <1>5
  <2> HIDE DEF r, k
  <2>3. Streams(After', Got', k + 1, r) /\ Got' = r[k + 1]
    BY <1>2, <1>5, <2>1, <2>2, StreamNext DEF Patient
  <2> QED BY <2>1, <2>2, <2>3 DEF r
<1>6. ASSUME card.present PROVE Station(After, Got, MosiAfter)' /\ Outcome(After)'
  <2>1. \A c, a : Listens(c) /\ i' \in {31, 32} /\ Streams(c, a, 33 - i', Accepting) => Station(c, a, 1)'
    BY StationResponse
  <2>2. \A c, d : SameStore(d, c) /\ (Whole(c) => Holds(c)) => Outcome(d)'
    BY <1>1, StillHeld
  <2> QED BY <1>2, <1>3, <1>5, <1>6, <2>1, <2>2
<1>7. StoreInv'
  <2>1. Got' = 255
    BY <1>3, <1>5 DEF Heard
  <2>2. pc' \notin Closing /\ pc' # "busy"
    BY DEF Closing
  <2> QED BY <1>1, <1>3, <2>1, <2>2, StoreKept
<1>8. /\ r1' \in Byte /\ ocr' \in Byte /\ SDBUF' \in [1..(SECTOR + 2) -> Byte] /\ pc' \notin Sitting
      /\ i' \in 0..(SECTOR + 33)
  BY <1>1, CardAssumption DEF SdInv, RegInv, Sitting, CardAssumption
<1> QED BY <1>1, <1>3, <1>4, <1>6, <1>7, <1>8, StepKeeps

LEMMA WriteDataKeeps == ASSUME SdInv, WriteData PROVE SdInv'
<1>1. pc = "payload" /\ SpiIdle /\ Same /\ i \in 0..(SECTOR + 2) /\ SECTOR \in Nat
  BY CardAssumption DEF WriteData, At, SdInv, ProgInv, CardAssumption
<1>2. CASE i < SECTOR /\ Send(SDBUF[i + 1]) /\ Loop("payload", i + 1)
  <2> DEFINE b == SDBUF[i + 1]
  <2>1. i \in 0..SECTOR /\ i + 1 \in 1..(SECTOR + 2)
    BY <1>1, <1>2
  <2>2. b \in Byte
    BY <2>1 DEF SdInv, RegInv
  <2>3. (i < SECTOR => b = SDBUF[i + 1]) /\ Send(b)
    BY <1>2
  <2> HIDE DEF b
  <2> QED BY <1>1, <1>2, <2>1, <2>2, <2>3, PayloadMoves DEF Loop
<1>3. CASE i = SECTOR /\ Send(255) /\ Loop("payload", i + 1)
  <2> DEFINE b == 255
  <2>1. i \in 0..SECTOR /\ ~(i < SECTOR)
    BY <1>1, <1>3
  <2>2. b \in Byte
    BY DEF Byte
  <2>3. Send(b)
    BY <1>3
  <2> HIDE DEF b
  <2> QED BY <1>1, <1>3, <2>1, <2>2, <2>3, PayloadMoves DEF Loop
<1>4. CASE i = SECTOR + 1 /\ Send(255) /\ Loop("payload", i + 1)
  <2>1. i + 1 = SECTOR + 2
    BY <1>1, <1>4
  <2>2. i' = SECTOR + 2 /\ pc' = "payload"
    BY <1>4, <2>1 DEF Loop
  <2> QED BY <1>1, <1>4, <2>2, PayloadCompletes
<1>5. CASE i = SECTOR + 2 /\ Recv /\ Loop("response", 32)
  BY <1>1, <1>5, Responds DEF Loop
<1> QED BY <1>2, <1>3, <1>4, <1>5 DEF WriteData

(* What the data response says, and the end of busy.                          *)
LEMMA ResponseSoFar ==
  ASSUME SdInv, pc = "response", SpiIdle, card.present
  PROVE  /\ Listens(card) /\ port.mosi = 1 /\ (Whole(card) => Holds(card))
         /\ \/ i = 32 /\ A = 255 /\ Sent(card, 1, Accepting)
            \/ i = 31 /\ A = 5 /\ Sent(card, 2, Accepting)
<1>1. /\ Listens(card) /\ port.mosi = 1 /\ (Whole(card) => Holds(card))
      /\ i \in {31, 32} /\ Streams(card, A, 33 - i, Accepting)
  BY BeforeByte DEF Station, Outcome
<1>2. CASE i = 32
  <2>1. 33 - i = 1
    BY <1>2
  <2>2. Streams(card, A, 1, Accepting)
    BY <1>1, <2>1
  <2> QED BY <1>1, <1>2, <2>2, AcceptingIs DEF Streams, AcceptingTyped
<1>3. CASE i = 31
  <2>1. 33 - i = 2
    BY <1>3
  <2>2. Streams(card, A, 2, Accepting)
    BY <1>1, <2>1
  <2> QED BY <1>1, <1>3, <2>2, AcceptingIs DEF Streams, AcceptingTyped
<1> QED BY <1>1, <1>2, <1>3

LEMMA ResponseNext ==
  ASSUME SdInv, SpiIdle, card.present, Recv, port.mosi = 1, Listens(card),
         NEW k \in 0..2, Sent(card, k, Accepting)
  PROVE  Streams(After', Got', k + 1, Accepting) /\ Got' = Accepting[k + 1]
<1> DEFINE r == Accepting
<1>1. r \in Seq(Byte) /\ k \in 0..(Len(r) - 1) /\ Sent(card, k, r)
  BY AcceptingIs DEF AcceptingTyped
<1> HIDE DEF r
<1>2. Streams(After', Got', k + 1, r) /\ Got' = r[k + 1]
  BY <1>1, StreamNext DEF Patient
<1> QED BY <1>2 DEF r

LEMMA ResponseWaits ==
  ASSUME SdInv, pc = "response", SpiIdle, A = 255, i > 1, Recv, pc' = "response", i' = i - 1,
         UNCHANGED <<r1, which, ocr, SDBUF, ignore, call, booted, ret>>
  PROVE  SdInv'
<1>1. UNCHANGED <<which, r1, ocr, SDBUF, ignore, call, booted, ret>> /\ i \in 1..32 /\ i' \in 1..32
  BY DEF SdInv, ProgInv
<1>2. card.present => /\ Listens(card) /\ port.mosi = 1 /\ (Whole(card) => Holds(card))
                      /\ i = 32 /\ Sent(card, 1, Accepting)
  BY ResponseSoFar
<1>3. /\ WireInv' /\ Keeping /\ ~SpiIdle' /\ Got' = Heard /\ MosiAfter' = port.mosi
      /\ SameStore(card', card) /\ SameStore(After', card)
      /\ card.present => Tame(After') /\ Listens(After')
  BY <1>2, RecvKeeps DEF Patient
<1>4. ProgInv' /\ CallInv'
  BY <1>1, <1>3 DEF SdInv, ProgInv, CallInv, Stations, Resting, Booting
<1>5. ASSUME card.present PROVE Station(After, Got, MosiAfter)' /\ Outcome(After)'
  <2>1. \A c, a : Listens(c) /\ i' \in {31, 32} /\ Streams(c, a, 33 - i', Accepting) => Station(c, a, 1)'
    BY StationResponse
  <2>2. \A c, d : SameStore(d, c) /\ (Whole(c) => Holds(c)) => Outcome(d)'
    BY <1>1, StillHeld
  <2> DEFINE k == 1
  <2>3. k \in 0..2 /\ k + 1 = 2 /\ Sent(card, k, Accepting)
    BY <1>2, <1>5
  <2>4. i' = 31 /\ 33 - i' = 2
    BY <1>2, <1>5
  <2> HIDE DEF k
  <2>5. Streams(After', Got', k + 1, Accepting)
    BY <1>2, <1>5, <2>3, ResponseNext
  <2>6. Streams(After', Got', 33 - i', Accepting) /\ i' \in {31, 32}
    BY <2>3, <2>4, <2>5
  <2> QED BY <1>2, <1>3, <1>5, <2>1, <2>2, <2>6
<1>6. StoreInv'
  <2>1. LongEnough => Whole(card)
    BY DEF SdInv, StoreInv
  <2>2. LongEnough /\ Got' # 255 => Holds(card)
    <3>1. ~card.present => Got' = 255
      BY <1>3 DEF Heard
    <3> QED BY <1>2, <2>1, <3>1
  <2>3. pc' \notin Closing /\ pc' # "busy"
    BY DEF Closing
  <2> QED BY <1>1, <1>3, <2>2, <2>3, StoreKept
<1>7. /\ r1' \in Byte /\ ocr' \in Byte /\ SDBUF' \in [1..(SECTOR + 2) -> Byte] /\ pc' \notin Sitting
      /\ i' \in 0..(SECTOR + 33)
  BY <1>1, CardAssumption DEF SdInv, RegInv, Sitting, CardAssumption
<1> QED BY <1>1, <1>3, <1>4, <1>5, <1>6, <1>7, StepKeeps

LEMMA ResponseAccepts ==
  ASSUME SdInv, pc = "response", SpiIdle, A # 255, Recv, pc' = "busy", i' = i,
         UNCHANGED <<r1, which, ocr, SDBUF, ignore, call, booted, ret>>
  PROVE  SdInv'
<1>1. UNCHANGED <<which, r1, ocr, SDBUF, ignore, call, booted, ret>>
  OBVIOUS
<1>2. card.present => Listens(card) /\ port.mosi = 1 /\ Sent(card, 2, Accepting)
  BY ResponseSoFar
<1>3. /\ WireInv' /\ Keeping /\ ~SpiIdle' /\ Got' = Heard /\ MosiAfter' = port.mosi
      /\ SameStore(card', card) /\ SameStore(After', card)
      /\ card.present => Tame(After') /\ Listens(After')
  BY <1>2, RecvKeeps DEF Patient
<1>4. ProgInv' /\ CallInv'
  BY <1>1, <1>3 DEF SdInv, ProgInv, CallInv, Stations, Resting, Booting
<1>5. ASSUME card.present PROVE Station(After, Got, MosiAfter)' /\ Outcome(After)'
  <2>1. \A c, a : Listens(c) /\ Streams(c, a, 3, Accepting) => Station(c, a, 1)'
    BY StationBusy
  <2>2. pc' \notin Closing \cup {"token", "data", "payload", "ask", "response"}
    BY DEF Closing
  <2> DEFINE k == 2
  <2>3. k \in 0..2 /\ k + 1 = 3 /\ Sent(card, k, Accepting)
    BY <1>2, <1>5
  <2> HIDE DEF k
  <2>4. Streams(After', Got', k + 1, Accepting)
    BY <1>2, <1>5, <2>3, ResponseNext
  <2> QED BY <1>2, <1>3, <1>5, <2>1, <2>2, <2>3, <2>4, OutcomeElsewhere
<1>6. StoreInv'
  <2>1. which = "cmd24" /\ After = card /\ Got = A
    BY BeforeByte DEF SdInv, ProgInv
  <2>2. LongEnough => Holds(card)
    BY <2>1 DEF SdInv, StoreInv
  <2> QED BY <1>1, <1>3, <2>2, StoreKept
<1>7. /\ r1' \in Byte /\ ocr' \in Byte /\ SDBUF' \in [1..(SECTOR + 2) -> Byte] /\ pc' \notin Sitting
      /\ i' \in 0..(SECTOR + 33)
  BY <1>1 DEF SdInv, RegInv, Sitting
<1> QED BY <1>1, <1>3, <1>4, <1>5, <1>6, <1>7, StepKeeps

(* No response, or a refusal: not from a card that is there.                  *)
LEMMA ResponseFails ==
  ASSUME SdInv, pc = "response", SpiIdle, (A = 255 /\ i = 1) \/ (A # 255 /\ ~Accepted(A)),
         Quiet, pc' = "close", i' = i, r1' = 255,
         UNCHANGED <<which, ocr, SDBUF, ignore, call, booted, ret>>
  PROVE  SdInv'
<1>1. UNCHANGED <<which, ocr, SDBUF, ignore, call, booted, ret>> /\ r1' # 0
  OBVIOUS
<1>2. ~card.present
  <2>1. Accepted(5)
    BY DEF Accepted
  <2> QED BY <2>1, ResponseSoFar
<1>3. /\ WireInv' /\ After' = card /\ Keeping /\ SpiIdle'
  BY QuietStays DEF Keeping
<1>4. ProgInv' /\ CallInv'
  BY <1>1, <1>3 DEF SdInv, ProgInv, CallInv, Stations, Resting, Booting
<1>5. StoreInv'
  <2>1. SameStore(card', card) /\ SameStore(After', card)
    BY <1>3 DEF SameStore, Keeping
  <2> QED BY <1>1, <2>1, StoreKept
<1>6. /\ r1' \in Byte /\ ocr' \in Byte /\ SDBUF' \in [1..(SECTOR + 2) -> Byte] /\ pc' \notin Sitting
      /\ i' \in 0..(SECTOR + 33)
  BY <1>1 DEF SdInv, RegInv, Sitting, Byte
<1> QED BY <1>1, <1>2, <1>3, <1>4, <1>5, <1>6, StepKeeps

LEMMA DataResponseKeeps == ASSUME SdInv, DataResponse PROVE SdInv'
BY ResponseWaits, ResponseAccepts, ResponseFails DEF DataResponse, At, Loop, Goto

LEMMA WaitBusyKeeps == ASSUME SdInv, WaitBusy PROVE SdInv'
<1>1. /\ pc = "busy" /\ SpiIdle /\ i' = i
      /\ UNCHANGED <<which, r1, ocr, SDBUF, ignore, call, booted, ret>>
      /\ \/ A # 255 /\ Recv /\ pc' = "busy"
         \/ A = 255 /\ Quiet /\ pc' = "close"
  BY DEF WaitBusy, At, Goto, Same
<1>2. which = "cmd24" /\ After = card
  BY <1>1, BeforeByte DEF SdInv, ProgInv
<1>3. card.present => Listens(card) /\ A = 255 /\ card.miso_queue = <<>>
  <2>1. card.present => Listens(card) /\ Streams(card, A, 3, Accepting)
    BY <1>1, BeforeByte DEF Station
  <2>2. card.present => A = 255 /\ Sent(card, Len(Accepting), Accepting)
    BY <2>1, AcceptingIs DEF Streams, AcceptingTyped
  <2>3. Accepting \in Seq(Byte)
    BY AcceptingIs DEF AcceptingTyped
  <2> QED BY <2>1, <2>2, <2>3, StreamEnds
<1>4. LongEnough => Holds(card)
  BY <1>1, <1>2 DEF SdInv, StoreInv
<1>5. /\ r1' \in Byte /\ ocr' \in Byte /\ SDBUF' \in [1..(SECTOR + 2) -> Byte] /\ pc' \notin Sitting
      /\ i' \in 0..(SECTOR + 33)
  BY <1>1 DEF SdInv, RegInv, Sitting
<1>6. CASE A # 255 /\ Recv /\ pc' = "busy"
  <2>1. ~card.present
    BY <1>3, <1>6
  <2>2. /\ WireInv' /\ Keeping /\ ~SpiIdle' /\ SameStore(card', card) /\ SameStore(After', card)
    BY <1>1, <1>6, <2>1, RecvKeeps
  <2>3. ProgInv' /\ CallInv'
    BY <1>1, <1>2, <1>6, <2>2 DEF SdInv, ProgInv, CallInv, Stations, Resting, Booting
  <2>4. StoreInv'
    BY <1>1, <1>4, <2>2, StoreKept
  <2> QED BY <1>1, <1>5, <2>1, <2>2, <2>3, <2>4, StepKeeps
<1>7. CASE A = 255 /\ Quiet /\ pc' = "close"
  <2>1. /\ WireInv' /\ After' = card /\ Got' = A /\ MosiAfter' = port.mosi /\ Keeping /\ SpiIdle'
    BY <1>1, <1>7, QuietStays DEF Keeping
  <2>2. ProgInv' /\ CallInv'
    BY <1>1, <1>2, <1>7, <2>1 DEF SdInv, ProgInv, CallInv, Stations, Resting, Booting
  <2>3. card.present => Station(After, Got, MosiAfter)' /\ Outcome(After)'
    <3>1. pc' \in Resting \cup {"pulse", "select", "deselect"} /\ pc' \in Closing /\ which' # "cmd17"
      BY <1>1, <1>2, <1>7 DEF Resting, Closing
    <3> QED BY <1>3, <2>1, <3>1, StationRests, OutcomeCloses
  <2>4. StoreInv'
    <3>1. SameStore(card', card) /\ SameStore(After', card)
      BY <2>1 DEF SameStore, Keeping
    <3> QED BY <1>1, <1>4, <3>1, StoreKept
  <2>5. Tame(After')
    BY <2>1 DEF SdInv
  <2> QED BY <1>1, <1>5, <2>1, <2>2, <2>3, <2>4, <2>5, StepKeeps
<1> QED BY <1>1, <1>6, <1>7

----------------------------------------------------------------------------
(* Between two commands and between two calls.                                *)
LEMMA StoreRests ==
  ASSUME SdInv, SpiIdle, SameStore(card', card), After' = card',
         pc' \notin Closing \cup {"busy", "response"}
  PROVE  StoreInv'
<1>1. LongEnough' = LongEnough
  BY DEF LongEnough, HoldsAll
<1>2. After = card
  BY BeforeByte
<1> SUFFICES ASSUME LongEnough PROVE StoreInv'
  BY <1>1 DEF StoreInv
<1>3. Whole(card')
  BY <1>2, WholeAlike DEF SdInv, StoreInv
<1>4. Whole(After)' = Whole(After') /\ Whole(card)' = Whole(card')
  BY DEF Whole, HoldsAll
<1>5. \A lba : Contents(After, lba)' = Contents(card, lba)'
  BY DEF Contents
<1> QED BY <1>3, <1>4, <1>5 DEF StoreInv

LEMMA RestKeeps ==
  ASSUME SdInv, Quiet, pc \in {"idle", "result", "ask"}, pc' \in {"idle", "sdinit", "open"},
         UNCHANGED <<i, r1, ocr>>, SDBUF' \in [1..(SECTOR + 2) -> Byte],
         ignore' \in BOOLEAN, booted' \in BOOLEAN, ProgInv', CallInv'
  PROVE  SdInv'
<1>1. SpiIdle
  BY DEF SdInv, ProgInv, Resting
<1>2. /\ WireInv' /\ After' = card /\ Got' = A /\ MosiAfter' = port.mosi
      /\ card' = card /\ port' = port /\ A' = A /\ SpiIdle'
  BY <1>1, QuietStays
<1>3. RegInv' /\ SelectInv'
  BY <1>2 DEF SdInv, RegInv, SelectInv
<1>4. FrameInv'
  <2>1. card.present => Listens(card) /\ card.miso_queue = <<>>
    BY <1>1, BeforeByte DEF Station, Resting
  <2>2. pc' \in Resting \cup {"pulse", "select", "deselect"}
    BY DEF Resting
  <2>3. pc' \notin Closing \cup {"token", "data", "payload", "ask", "response"}
    BY DEF Closing
  <2>4. card.present => Station(After, Got, MosiAfter)' /\ Outcome(After)'
    BY <1>2, <2>1, <2>2, <2>3, StationRests, OutcomeElsewhere
  <2>5. Tame(After)' <=> Tame(card)
    BY <1>2 DEF Tame, Storable
  <2> QED BY <1>2, <2>4, <2>5 DEF FrameInv, SdInv
<1>5. StoreInv'
  <2>1. SameStore(card', card) /\ After' = card'
    BY <1>2 DEF SameStore
  <2>2. pc' \notin Closing \cup {"busy", "response"}
    BY DEF Closing
  <2> QED BY <1>1, <2>1, <2>2, StoreRests
<1>6. card' \in CardSet /\ Tame(card)'
  BY <1>2 DEF SdInv, Tame, Storable
<1> QED BY <1>2, <1>3, <1>4, <1>5, <1>6 DEF SdInv

LEMMA BootStepKeeps == ASSUME SdInv, BootStep PROVE SdInv'
<1>1. /\ pc = "result" /\ SpiIdle /\ Quiet /\ which \notin {"cmd17", "cmd24"}
      /\ UNCHANGED <<i, r1, ocr, SDBUF, ignore>>
  BY DEF BootStep, At
<1>2. call.op = "boot" /\ SpiIdle'
  BY <1>1 DEF SdInv, CallInv, Booting, Quiet, io, SpiIdle
<1>3. SDBUF' \in [1..(SECTOR + 2) -> Byte] /\ ignore' \in BOOLEAN /\ booted \in BOOLEAN
  BY <1>1 DEF SdInv, RegInv
<1>4. CASE Good /\ which # "cmd58" /\ Start(NextCommand[which]) /\ UNCHANGED <<booted, call, ret>>
  <2>1. which' \in {"cmd08", "cmd55", "acmd41", "cmd58"} /\ pc' = "open"
    BY <1>1, <1>4 DEF SdInv, ProgInv, Start, NextCommand
  <2>2. ProgInv' /\ CallInv'
    BY <1>2, <1>4, <2>1 DEF ProgInv, CallInv, Stations, Resting, Booting
  <2> QED BY <1>1, <1>3, <1>4, <2>1, <2>2, RestKeeps
<1>5. CASE which = "acmd41" /\ ~Good /\ Start("cmd55") /\ UNCHANGED <<booted, call, ret>>
  <2>1. which' = "cmd55" /\ pc' = "open"
    BY <1>5 DEF Start
  <2>2. ProgInv' /\ CallInv'
    BY <1>2, <1>5, <2>1 DEF ProgInv, CallInv, Stations, Resting, Booting
  <2> QED BY <1>1, <1>3, <1>5, <2>1, <2>2, RestKeeps
<1>6. CASE pc' = "idle" /\ call' = NoCall /\ which' = which /\ booted' \in {booted, TRUE}
  <2>1. ProgInv' /\ CallInv'
    BY <1>2, <1>6 DEF SdInv, ProgInv, CallInv, Stations, Resting, Booting
  <2> QED BY <1>1, <1>3, <1>6, <2>1, RestKeeps
<1> QED BY <1>4, <1>5, <1>6 DEF BootStep, Return

LEMMA WriteResultKeeps == ASSUME SdInv, WriteResult PROVE SdInv'
<1>1. /\ pc = "result" /\ Quiet /\ pc' = "idle" /\ call' = NoCall /\ SpiIdle
      /\ UNCHANGED <<which, i, r1, ocr, SDBUF, ignore, booted>>
  BY DEF WriteResult, At, Return
<1>2. SDBUF' \in [1..(SECTOR + 2) -> Byte] /\ ignore' \in BOOLEAN /\ booted' \in BOOLEAN
  BY <1>1 DEF SdInv, RegInv
<1>3. ProgInv' /\ CallInv'
  BY <1>1 DEF SdInv, ProgInv, CallInv, Stations, Resting, Booting, Quiet, io, SpiIdle
<1> QED BY <1>1, <1>2, <1>3, RestKeeps

LEMMA AnswerKeeps == ASSUME SdInv, Answer PROVE SdInv'
<1>1. /\ pc = "ask" /\ Quiet /\ pc' = "idle" /\ call' = NoCall /\ ignore' \in BOOLEAN
      /\ UNCHANGED <<which, i, r1, ocr, SDBUF, booted>>
  BY DEF Answer, Return
<1>2. SDBUF' \in [1..(SECTOR + 2) -> Byte] /\ booted' \in BOOLEAN
  BY <1>1 DEF SdInv, RegInv
<1>3. ProgInv' /\ CallInv'
  BY <1>1 DEF SdInv, ProgInv, CallInv, Stations, Resting, Booting, Quiet, io, SpiIdle
<1> QED BY <1>1, <1>2, <1>3, RestKeeps

LEMMA RestartKeeps == ASSUME SdInv, Restart PROVE SdInv'
<1>1. /\ pc = "idle" /\ Quiet /\ pc' = "idle" /\ call' = call /\ ignore' \in BOOLEAN
      /\ booted' \in BOOLEAN /\ UNCHANGED <<which, i, r1, ocr, SDBUF>>
  BY DEF Restart, Quiet
<1>2. SDBUF' \in [1..(SECTOR + 2) -> Byte]
  BY <1>1 DEF SdInv, RegInv
<1>3. ProgInv' /\ CallInv'
  BY <1>1 DEF SdInv, ProgInv, CallInv, Stations, Resting, Booting, Quiet, io, SpiIdle
<1> QED BY <1>1, <1>2, <1>3, RestKeeps

LEMMA BootSdKeeps == ASSUME SdInv, BootSd PROVE SdInv'
<1>1. /\ pc = "idle" /\ Quiet /\ pc' = "sdinit" /\ call'.op = "boot"
      /\ UNCHANGED <<which, i, r1, ocr, SDBUF, ignore, booted>>
  BY DEF BootSd, Call
<1>2. SDBUF' \in [1..(SECTOR + 2) -> Byte] /\ ignore' \in BOOLEAN /\ booted' \in BOOLEAN
  BY <1>1 DEF SdInv, RegInv
<1>3. ProgInv' /\ CallInv'
  BY <1>1 DEF SdInv, ProgInv, CallInv, Stations, Resting, Booting, Quiet, io, SpiIdle
<1> QED BY <1>1, <1>2, <1>3, RestKeeps

LEMMA Joined ==
  ASSUME NEW p \in Seq(Byte), NEW q \in Seq(Byte), NEW m \in Nat, NEW n \in Nat, Len(p) = m, Len(q) = n
  PROVE  /\ p \o q \in Seq(Byte) /\ Len(p \o q) = m + n /\ p \o q \in [1..(m + n) -> Byte]
         /\ \A k \in 1..m : (p \o q)[k] = p[k]
<1> DEFINE r == p \o q
<1>1. /\ r \in Seq(Byte) /\ Len(r) = m + n
      /\ \A k \in 1..(m + n) : r[k] = IF k <= m THEN p[k] ELSE q[k - m]
  BY ConcatProperties
<1> HIDE DEF r
<1>2. r \in [1..(m + n) -> Byte]
  BY <1>1
<1>3. \A k \in 1..m : r[k] = p[k]
  BY <1>1
<1> QED BY <1>1, <1>2, <1>3 DEF r

(* The command of a read lies in the first bytes of the sector buffer.        *)
LEMMA ReadSectorKeeps == ASSUME SdInv, NEW lba \in Lbas, ReadSector(lba) PROVE SdInv'
<1>1. /\ pc = "idle" /\ Quiet /\ pc' = "open" /\ which' = "cmd17" /\ call'.op = "read" /\ call'.lba = lba
      /\ UNCHANGED <<i, r1, ocr, ignore, booted>>
      /\ SDBUF' = Cmd17(lba) \o SubSeq(SDBUF, 7, SECTOR + 2)
  BY DEF ReadSector, Call, Start
<1>2. ignore' \in BOOLEAN /\ booted' \in BOOLEAN
  BY <1>1 DEF SdInv, RegInv
<1>3. SDBUF' \in [1..(SECTOR + 2) -> Byte]
  <2> DEFINE p == Cmd17(lba)
             q == SubSeq(SDBUF, 7, SECTOR + 2)
  <2>1. lba \in 0..255
    BY DriverAssumption DEF DriverAssumption
  <2>2. p \in Seq(Byte) /\ Len(p) = 6
    BY <2>1, ReadCommand DEF SectorCommand
  <2>3. SECTOR \in Nat /\ SECTOR >= 6
    BY CardAssumption DEF CardAssumption
  <2>4. q \in Seq(Byte) /\ Len(q) = SECTOR - 4
    BY <2>3, BufferTyped
  <2> HIDE DEF p, q
  <2> DEFINE n == SECTOR - 4
  <2>5. n \in Nat /\ 6 + n = SECTOR + 2 /\ Len(q) = n
    BY <2>3, <2>4
  <2> HIDE DEF n
  <2>6. p \o q \in [1..(6 + n) -> Byte]
    BY <2>2, <2>4, <2>5, Joined
  <2>7. SDBUF' = p \o q
    BY <1>1 DEF p, q
  <2> QED BY <2>5, <2>6, <2>7
<1>4. ProgInv' /\ CallInv'
  BY <1>1 DEF SdInv, ProgInv, CallInv, Stations, Resting, Booting, Quiet, io, SpiIdle
<1> QED BY <1>1, <1>2, <1>3, <1>4, RestKeeps

LEMMA WriteSectorKeeps ==
  ASSUME SdInv, NEW lba \in Lbas, NEW data \in Sectors, WriteSector(lba, data) PROVE SdInv'
<1>1. /\ pc = "idle" /\ Quiet /\ pc' = "open" /\ which' = "cmd24"
      /\ call'.op = "write" /\ call'.lba = lba /\ call'.data = data
      /\ UNCHANGED <<i, r1, ocr, ignore, booted>>
      /\ SDBUF' = data \o SubSeq(SDBUF, SECTOR + 1, SECTOR + 2)
  BY DEF WriteSector, Call, Start
<1>2. ignore' \in BOOLEAN /\ booted' \in BOOLEAN
  BY <1>1 DEF SdInv, RegInv
<1>3. SDBUF' \in [1..(SECTOR + 2) -> Byte] /\ DataOf(SDBUF)' = data
  <2> DEFINE q == SubSeq(SDBUF, SECTOR + 1, SECTOR + 2)
             r == data \o q
  <2>1. SECTOR \in Nat /\ SECTOR >= 6
    BY CardAssumption DEF CardAssumption
  <2>2. data \in Seq(Byte) /\ Len(data) = SECTOR
    <3>1. data \in [1..SECTOR -> Byte]
      BY DriverAssumption DEF DriverAssumption, Byte
    <3> QED BY <2>1, <3>1
  <2>3. q \in Seq(Byte) /\ Len(q) = 2
    BY <2>1, BufferTyped
  <2> HIDE DEF q
  <2>4. r \in Seq(Byte) /\ Len(r) = SECTOR + 2 /\ \A k \in 1..SECTOR : r[k] = data[k]
    <3> DEFINE n == 2
    <3>1. n \in Nat /\ Len(q) = n
      BY <2>3
    <3> HIDE DEF n
    <3>2. r \in Seq(Byte) /\ Len(r) = SECTOR + n /\ \A k \in 1..SECTOR : r[k] = data[k]
      BY <2>1, <2>2, <2>3, <3>1, Joined
    <3> QED BY <3>2 DEF n
  <2>5. SDBUF' = r
    BY <1>1 DEF q
  <2> HIDE DEF r
  <2>6. SubSeq(r, 1, SECTOR) = SubSeq(data, 1, SECTOR)
    BY <2>1, <2>2, <2>4, SameBytes
  <2>7. SubSeq(data, 1, SECTOR) = data
    BY <2>2, AllOfIt
  <2> QED BY <2>4, <2>5, <2>6, <2>7 DEF DataOf
<1>4. ProgInv'
  BY <1>1 DEF SdInv, ProgInv, Stations, Resting, Quiet, io, SpiIdle
<1>5. CallInv'
  BY <1>1, <1>3 DEF CallInv, Booting
<1> QED BY <1>1, <1>2, <1>3, <1>4, <1>5, RestKeeps

(* What a read that was answered has put into the buffer.                     *)
LEMMA ReadBack ==
  ASSUME SdInv, pc = "result", which = "cmd17", card.present, r1 = 0
  PROVE  LET held == Contents(card, call.lba)
         IN /\ held \in HeldSectors /\ DataOf(SDBUF) = held
            /\ 256 * SDBUF[SECTOR + 1] + SDBUF[SECTOR + 2] = card_crc(held)
<1> DEFINE held == Contents(card, call.lba)
           r == SectorResponse(held)
<1>1. SpiIdle
  BY DEF SdInv, ProgInv, Resting
<1>2. Answers(card) /\ InBuffer(card, SECTOR + 2)
  BY <1>1, BeforeByte DEF Outcome, Closing
<1>3. held \in HeldSectors
  BY <1>2 DEF Answers
<1>4. Reply(card) = r
  BY DEF Reply
<1> HIDE DEF held
<1>5. /\ \A k \in 1..SECTOR : r[7 + k] = held[k]
      /\ 256 * r[SECTOR + 8] + r[SECTOR + 9] = card_crc(held)
  BY <1>3, SectorAnswer
<1> HIDE DEF r
<1>6. \A k \in 1..(SECTOR + 2) : SDBUF[k] = r[7 + k]
  BY <1>2, <1>4 DEF InBuffer
<1>7. SECTOR \in Nat /\ SDBUF \in Seq(Byte) /\ Len(SDBUF) = SECTOR + 2
  BY BufferTyped, CardAssumption DEF CardAssumption
<1>8. held \in Seq(Byte) /\ Len(held) = SECTOR
  BY <1>3, HeldBytes
<1>9. \A k \in 1..SECTOR : SDBUF[k] = held[k]
  BY <1>5, <1>6, <1>7
<1>10. SubSeq(SDBUF, 1, SECTOR) = SubSeq(held, 1, SECTOR)
  <2>1. Len(SDBUF) >= SECTOR /\ Len(held) >= SECTOR
    BY <1>7, <1>8
  <2> QED BY <1>7, <1>8, <1>9, <2>1, SameBytes
<1>11. SubSeq(held, 1, SECTOR) = held
  BY <1>8, AllOfIt
<1>12. SDBUF[SECTOR + 1] = r[SECTOR + 8] /\ SDBUF[SECTOR + 2] = r[SECTOR + 9]
  <2>1. SECTOR + 1 \in 1..(SECTOR + 2) /\ SECTOR + 2 \in 1..(SECTOR + 2)
    BY <1>7
  <2>2. 7 + (SECTOR + 1) = SECTOR + 8 /\ 7 + (SECTOR + 2) = SECTOR + 9
    BY <1>7
  <2>3. SDBUF[SECTOR + 1] = r[7 + (SECTOR + 1)] /\ SDBUF[SECTOR + 2] = r[7 + (SECTOR + 2)]
    BY <1>6, <2>1
  <2> QED BY <2>2, <2>3
<1> QED BY <1>3, <1>5, <1>10, <1>11, <1>12 DEF DataOf, held

LEMMA ReadResultKeeps == ASSUME SdInv, ReadResult PROVE SdInv'
<1>1. /\ pc = "result" /\ which = "cmd17" /\ Quiet /\ SpiIdle
      /\ UNCHANGED <<which, i, r1, ocr, SDBUF, ignore, booted>>
  BY DEF ReadResult, At
<1>2. SDBUF' \in [1..(SECTOR + 2) -> Byte] /\ ignore' \in BOOLEAN /\ booted' \in BOOLEAN
  BY <1>1 DEF SdInv, RegInv
<1>3. CASE Return(0)
  <2>1. pc' = "idle" /\ call' = NoCall
    BY <1>3 DEF Return
  <2>2. ProgInv' /\ CallInv'
    BY <1>1, <2>1 DEF SdInv, ProgInv, CallInv, Stations, Resting, Booting, Quiet, io, SpiIdle
  <2> QED BY <1>1, <1>2, <2>1, <2>2, RestKeeps
<1>4. CASE ~Matches /\ ~ignore /\ pc' = "ask" /\ UNCHANGED <<call, ret>>
  <2>1. /\ WireInv' /\ After' = card /\ Got' = A /\ MosiAfter' = port.mosi
        /\ card' = card /\ port' = port /\ A' = A /\ SpiIdle'
    BY <1>1, QuietStays
  <2>2. RegInv' /\ SelectInv'
    BY <1>1, <2>1 DEF SdInv, RegInv, SelectInv
  <2>3. ProgInv' /\ CallInv'
    BY <1>1, <1>4, <2>1 DEF SdInv, ProgInv, CallInv, Stations, Resting, Booting
  <2>4. ASSUME card.present, ChecksumsAgree PROVE card.failed
    <3>1. r1 # 0
      BY <1>1, <1>4, <2>4, ReadBack DEF Matches, Checksum, ChecksumsAgree
    <3> QED BY <1>1, <2>4, <3>1, BeforeByte DEF Outcome, Closing
  <2>5. FrameInv'
    <3>1. card.present => Listens(card) /\ card.miso_queue = <<>>
      BY <1>1, BeforeByte DEF Station, Resting
    <3>2. pc' \in Resting \cup {"pulse", "select", "deselect"}
      BY <1>4 DEF Resting
    <3>3. card.present => Station(After, Got, MosiAfter)'
      BY <2>1, <3>1, <3>2, StationRests
    <3>4. card.present => Outcome(After)'
      <4>1. \A c : (ChecksumsAgree => c.failed) => Outcome(c)'
        BY <1>4 DEF Outcome, Closing, ChecksumsAgree
      <4> QED BY <2>1, <2>4, <4>1
    <3>5. Tame(After)' <=> Tame(card)
      BY <2>1 DEF Tame, Storable
    <3> QED BY <2>1, <3>3, <3>4, <3>5 DEF FrameInv, SdInv
  <2>6. StoreInv'
    <3>1. SameStore(card', card) /\ After' = card'
      BY <2>1 DEF SameStore
    <3>2. pc' \notin Closing \cup {"busy", "response"}
      BY <1>4 DEF Closing
    <3> QED BY <1>1, <3>1, <3>2, StoreRests
  <2>7. card' \in CardSet /\ Tame(card)'
    BY <2>1 DEF SdInv, Tame, Storable
  <2> QED BY <2>1, <2>2, <2>3, <2>5, <2>6, <2>7 DEF SdInv
<1> QED BY <1>3, <1>4 DEF ReadResult

----------------------------------------------------------------------------
(* A fresh card, and a card that is taken out.                                *)
LEMMA FreshTyped ==
  ASSUME NEW image \in Seq(HeldSectors), NEW ro \in BOOLEAN, NEW blocks \in BlockMaps,
         NEW there \in BOOLEAN, NEW bit \in Bit
  PROVE  [FreshCard(image, ro) EXCEPT !.present = there, !.miso_bit = bit, !.dirty_blocks = blocks] \in CardSet
<1>1. /\ 0 \in Bit /\ 1 \in Bit /\ 0 \in Byte /\ 0 \in 0..7 /\ 0 \in 0..8 /\ 0 \in Nat
      /\ <<>> \in Seq(Byte) /\ FALSE \in BOOLEAN
  BY DEF Bit, Byte
<1> QED BY <1>1 DEF FreshCard, CardSet

LEMMA TakeOutKeeps == ASSUME SdInv, TakeOut PROVE SdInv'
<1>1. /\ SpiIdle /\ card.present /\ card' = TakenOut(card)
      /\ UNCHANGED <<port, spi, A, pc, which, i, r1, ocr, SDBUF, ignore, call, booted, ret>>
  BY DEF TakeOut
<1>2. card' \in CardSet
  <2>1. card.image \in Seq(HeldSectors) /\ card.read_only \in BOOLEAN /\ card.dirty_blocks \in BlockMaps
    BY DEF SdInv, CardSet
  <2>2. FALSE \in BOOLEAN /\ 1 \in Bit
    BY DEF Bit
  <2> QED BY <1>1, <2>1, <2>2, FreshTyped, Zenon DEF TakenOut
<1>3. /\ card'.present = FALSE /\ card'.miso_bit = 1 /\ card'.image = card.image
      /\ card'.read_only = card.read_only /\ card'.dirty_blocks = card.dirty_blocks
      /\ card'.failed = FALSE
      /\ card'.mosi_queue = <<>> /\ card'.write_payload = <<>> /\ card'.awaiting_write_block = FALSE
  BY <1>1 DEF TakenOut, FreshCard
<1>4. Tame(card)'
  <2>1. 0 < SECTOR + 2
    BY CardAssumption DEF CardAssumption
  <2> QED BY <1>3, <2>1 DEF Tame, Storable
<1>5. RegInv' /\ ProgInv' /\ CallInv' /\ SelectInv'
  BY <1>1 DEF SdInv, RegInv, ProgInv, CallInv, SelectInv, SpiIdle
<1>6. WireInv' /\ FrameInv'
  BY <1>1, <1>3 DEF SdInv, WireInv, FrameInv, SpiIdle
<1>7. After' = card' /\ After = card /\ Got' = A /\ Got = A
  BY <1>1 DEF After, Got, SpiIdle
<1>8. \A lba : Contents(card', lba) = Contents(card, lba)
  BY <1>3 DEF Contents
<1>9. StoreInv'
  <2>1. LongEnough' = LongEnough
    BY DEF LongEnough, HoldsAll
  <2> SUFFICES ASSUME LongEnough PROVE StoreInv'
    BY <2>1 DEF StoreInv
  <2>2. Whole(card)
    BY DEF SdInv, StoreInv
  <2>3. Whole(card)' /\ Whole(After)'
    BY <1>3, <1>7, <2>2 DEF Whole, HoldsAll
  <2>4. Holds(After)' = Holds(After)
    BY <1>1, <1>7, <1>8 DEF Holds
  <2>5. which = "cmd24" =>
          /\ pc = "busy" \/ (pc = "response" /\ Got # 255) => Holds(After)
          /\ pc \in Closing /\ r1 = 0 => Holds(After)
    BY DEF SdInv, StoreInv
  <2>6. \A lba : Contents(After, lba)' = Contents(card, lba)'
    BY <1>7 DEF Contents
  <2> QED BY <1>1, <1>7, <2>3, <2>4, <2>5, <2>6 DEF StoreInv
<1> QED BY <1>2, <1>4, <1>5, <1>6, <1>9 DEF SdInv

----------------------------------------------------------------------------
(* The beginning.                                                             *)
LEMMA ImageHeld == ASSUME NEW c \in InitialCards PROVE c.image \in Seq(HeldSectors) /\ c.read_only \in BOOLEAN
<1>1. c.image \in Seq([1..SECTOR -> 0..255]) /\ c.read_only \in BOOLEAN
  BY DriverAssumption DEF DriverAssumption
<1>2. \A k \in 1..Len(c.image) : c.image[k] \in HeldSectors
  <2>1. \A k \in 1..Len(c.image) : c.image[k] \in ToSet(c.image)
    BY <1>1 DEF ToSet
  <2> QED BY <2>1 DEF HeldSectors
<1> QED BY <1>1, <1>2

LEMMA FreshStarts ==
  ASSUME NEW image \in Seq(HeldSectors), NEW ro \in BOOLEAN
  PROVE  FreshCard(image, ro) \in CardSet
<1>1. <<>> \in BlockMaps
  <2>1. <<>> \in [{} -> HeldSectors]
    OBVIOUS
  <2> QED BY <2>1, Zenon DEF BlockMaps
<1>2. TRUE \in BOOLEAN /\ FALSE \in BOOLEAN /\ 0 \in Bit /\ 1 \in Bit /\ 0 \in Byte /\ 0 \in 0..7 /\ 0 \in 0..8 /\ 0 \in Nat
      /\ <<>> \in Seq(Byte)
  BY DEF Bit, Byte
<1> QED BY <1>1, <1>2 DEF FreshCard, CardSet

LEMMA InitInv == ASSUME Init PROVE SdInv
<1>1. /\ card \in InitialCards /\ port = [cs |-> 1, clk |-> 0, mosi |-> 0]
      /\ spi = IdleSpi /\ A = 0 /\ pc = "idle" /\ which = "cmd00" /\ i = 0 /\ r1 = 0 /\ ocr = 0
      /\ SDBUF = [k \in 1..(SECTOR + 2) |-> 0]
      /\ ignore = FALSE /\ call = NoCall /\ booted = FALSE
  BY DEF Init
<1>2. card = FreshCard(card.image, card.read_only) /\ card.image \in Seq(HeldSectors) /\ card.read_only \in BOOLEAN
  BY <1>1, ImageHeld, DriverAssumption DEF DriverAssumption
<1>3. card \in CardSet
  BY <1>2, FreshStarts
<1>4. /\ card.present = TRUE /\ card.clk = 0 /\ card.mosi_bit = 0
      /\ card.mosi_bit_count = 0 /\ card.miso_bit_count = 0 /\ card.mosi_shift_reg = 0
      /\ card.mosi_queue = <<>> /\ card.miso_queue = <<>> /\ card.write_payload = <<>>
      /\ card.awaiting_write_block = FALSE /\ card.failed = FALSE /\ card.dirty_blocks = <<>>
  BY <1>2 DEF FreshCard
<1>5. SECTOR \in Nat /\ SECTOR >= 6
  BY CardAssumption DEF CardAssumption
<1>6. Tame(card)
  BY <1>4, <1>5 DEF Tame, Storable
<1>7. spi.op = "idle" /\ spi.byte = 0 /\ spi.n = 0 /\ SpiIdle
      /\ spi \in [op : {"idle", "send", "recv"}, byte : Byte, n : 0..8]
  BY <1>1 DEF IdleSpi, SpiIdle, Byte
<1>8. After = card /\ Got = A /\ MosiAfter = port.mosi
  BY <1>7 DEF After, Got, MosiAfter
<1>9. RegInv
  <2>1. 0 \in Byte /\ 0 \in 0..(SECTOR + 33)
    BY <1>5 DEF Byte
  <2> QED BY <1>1, <2>1 DEF RegInv
<1>10. ProgInv /\ CallInv /\ SelectInv
  BY <1>1, <1>7 DEF ProgInv, CallInv, SelectInv, Stations, Resting, Booting
<1>11. WireInv
  <2>1. port \in [cs : Bit, clk : {0}, mosi : Bit] /\ port.mosi = 0
    BY <1>1 DEF Bit
  <2> QED BY <1>4, <1>7, <2>1 DEF WireInv
<1>12. FrameInv
  <2>1. Station(card, A, port.mosi)
    BY <1>1, <1>4 DEF Station, Listens, Resting
  <2>2. Outcome(card)
    BY <1>1 DEF Outcome, Closing
  <2> QED BY <1>6, <1>8, <2>1, <2>2 DEF FrameInv
<1>13. StoreInv
  <2>1. LongEnough => Whole(card)
    <3>1. DOMAIN card.dirty_blocks = {}
      BY <1>4
    <3> QED BY <1>1, <1>4, <3>1 DEF LongEnough, Whole
  <2>2. pc \notin Closing /\ pc # "busy" /\ pc # "response"
    BY <1>1 DEF Closing
  <2> QED BY <1>8, <2>1, <2>2 DEF StoreInv
<1> QED BY <1>3, <1>6, <1>9, <1>10, <1>11, <1>12, <1>13 DEF SdInv

LEMMA VarsKeep == ASSUME SdInv, UNCHANGED vars PROVE SdInv'
<1>1. /\ card' = card /\ port' = port /\ spi' = spi /\ A' = A /\ pc' = pc /\ which' = which /\ i' = i
      /\ r1' = r1 /\ ocr' = ocr /\ SDBUF' = SDBUF /\ ignore' = ignore /\ call' = call
      /\ booted' = booted /\ ret' = ret
  BY DEF vars, io
<1>2. RegInv' /\ ProgInv' /\ CallInv' /\ SelectInv' /\ WireInv'
  BY <1>1 DEF SdInv, RegInv, ProgInv, CallInv, SelectInv, WireInv, SpiIdle, Outgoing
<1>3. After' = After /\ Got' = Got /\ MosiAfter' = MosiAfter
  BY <1>1 DEF After, Got, MosiAfter, SpiIdle, Outgoing, Incoming
<1>4. FrameInv'
  <2>1. \A c, a, m : Station(c, a, m) => Station(c, a, m)'
    BY <1>1, StationKept DEF StaysPut
  <2>2. \A c : Outcome(c) => Outcome(c)'
    BY <1>1, OutcomeKept DEF StaysPut
  <2>3. Tame(After)' <=> Tame(After)
    BY <1>3 DEF Tame, Storable
  <2> QED BY <1>1, <1>3, <2>1, <2>2, <2>3 DEF SdInv, FrameInv
<1>5. StoreInv'
  <2>1. Holds(After)' = Holds(After)
    BY <1>1, <1>3 DEF Holds
  <2>2. LongEnough' = LongEnough /\ Whole(card)' = Whole(card) /\ Whole(After)' = Whole(After)
    BY <1>1, <1>3 DEF LongEnough, Whole, HoldsAll
  <2>3. \A lba : Contents(After, lba)' = Contents(After, lba) /\ Contents(card, lba)' = Contents(card, lba)
    BY <1>1, <1>3 DEF Contents
  <2> QED BY <1>1, <1>3, <2>1, <2>2, <2>3 DEF SdInv, StoreInv
<1>6. card' \in CardSet /\ Tame(card)'
  BY <1>1 DEF SdInv, Tame, Storable
<1> QED BY <1>2, <1>4, <1>5, <1>6 DEF SdInv

(* Every step of the driver, of its callers, of the user and of the slot.     *)
LEMMA StepInv == ASSUME SdInv, [Next]_vars PROVE SdInv'
<1>1. CASE Driver
  <2>1. CASE SendBit \/ RecvBit \/ Sdinit \/ Pulse \/ Sdopen \/ Select \/ SendCommand
    BY <2>1, BitKeeps, SdinitKeeps, PulseKeeps, SdopenKeeps, SelectKeeps, SendCommandKeeps
  <2>2. CASE AnswerAgain \/ AnswerSimple \/ AnswerLong \/ AnswerSector \/ MoreOfAnswer \/ Sdclose \/ Deselect
    BY <2>2, AnswerAgainKeeps, AnswerSimpleKeeps, AnswerLongKeeps, AnswerSectorKeeps, MoreOfAnswerKeeps,
       SdcloseKeeps, DeselectKeeps
  <2>3. CASE WaitToken \/ ReadData \/ WriteData \/ DataResponse \/ WaitBusy
    BY <2>3, WaitTokenKeeps, ReadDataKeeps, WriteDataKeeps, DataResponseKeeps, WaitBusyKeeps
  <2>4. CASE BootStep \/ ReadResult \/ WriteResult
    BY <2>4, BootStepKeeps, ReadResultKeeps, WriteResultKeeps
  <2> QED BY <1>1, <2>1, <2>2, <2>3, <2>4 DEF Driver
<1>2. CASE Caller
  BY <1>2, BootSdKeeps, ReadSectorKeeps, WriteSectorKeeps DEF Caller
<1>3. CASE Answer \/ Restart \/ TakeOut
  BY <1>3, AnswerKeeps, RestartKeeps, TakeOutKeeps
<1>4. CASE UNCHANGED vars
  BY <1>4, VarsKeep
<1> QED BY <1>1, <1>2, <1>3, <1>4 DEF Next

(* SdInv is inductive: between any two bits, driver and card stand at matching*)
(* places of the same command, also when the card goes away or the driver is  *)
(* started again (sdcmds.s, sdcard.c, sdcardbasic.cpp).                       *)
THEOREM SdInvariant == Spec => []SdInv
<1>1. Init => SdInv
  BY InitInv
<1>2. SdInv /\ [Next]_vars => SdInv'
  BY StepInv
<1> QED BY <1>1, <1>2, PTL DEF Spec

(* The loops of the driver stay inside their buffers, and the card never      *)
(* collects more than a command or a payload.                                 *)
THEOREM TypeCorrect == Spec => []TypeOK
<1>1. SdInv => TypeOK
  <2> SUFFICES ASSUME SdInv PROVE TypeOK
    OBVIOUS
  <2>1. /\ A \in Byte /\ r1 \in Byte /\ ocr \in Byte /\ i \in 0..(SECTOR + 33)
        /\ SDBUF \in [1..(SECTOR + 2) -> Byte]
    BY DEF SdInv, RegInv
  <2>2. /\ spi.op \in {"idle", "send", "recv"} /\ spi.byte \in Byte /\ spi.n \in 0..8
        /\ {port.cs, port.clk, port.mosi} \subseteq {0, 1}
    BY DEF SdInv, WireInv, Bit
  <2>3. /\ card.miso_bit \in {0, 1} /\ card.mosi_bit \in {0, 1}
        /\ card.mosi_shift_reg \in Byte /\ card.miso_shift_reg \in Byte
    BY DEF SdInv, CardSet, Bit
  <2>4. Len(card.mosi_queue) < 6 /\ Len(card.write_payload) < SECTOR + 2
    BY DEF SdInv, Tame
  <2> QED BY <2>1, <2>2, <2>3, <2>4 DEF TypeOK
<1> QED BY <1>1, SdInvariant, PTL

(* Between two calls nothing is under way: no half a byte, no answer left over,*)
(* no command begun, no block awaited, and the card is deselected.            *)
THEOREM InStepCorrect == Spec => []InStep
<1>1. SdInv => InStep
  <2> SUFFICES ASSUME SdInv, pc = "idle", card.present PROVE InStep
    BY DEF InStep
  <2>1. SpiIdle /\ port.cs = 1
    BY DEF SdInv, ProgInv, SelectInv, Resting
  <2>2. card.mosi_bit_count = 0 /\ card.miso_bit_count = 0 /\ card.clk = 0
    BY <2>1 DEF SdInv, WireInv
  <2>3. Listens(card) /\ card.miso_queue = <<>>
    BY <2>1, BeforeByte DEF Station, Resting
  <2> QED BY <2>1, <2>2, <2>3 DEF InStep, Listens
<1> QED BY <1>1, SdInvariant, PTL

(* If the two checksums agree on every sector that may lie on a card, sdcmd17 *)
(* never reports a bad checksum for a sector that the card has and can send.  *)
THEOREM NoFalseAlarmCorrect == ASSUME ChecksumsAgree PROVE Spec => []NoFalseAlarm
<1>1. SdInv => NoFalseAlarm
  <2> SUFFICES ASSUME SdInv, pc = "ask", card.present PROVE card.failed
    BY DEF NoFalseAlarm
  <2>1. SpiIdle
    BY DEF SdInv, ProgInv, Resting
  <2> QED BY <2>1, BeforeByte DEF Outcome
<1> QED BY <1>1, SdInvariant, PTL

----------------------------------------------------------------------------
(* Driver and card as a device of sectors.                                    *)
Untouched == \A lba \in Lbas : Contents(card', lba) = Contents(card, lba)
StoredOnly ==
  /\ call.op = "write" /\ call.lba \in Lbas
  /\ \A lba \in Lbas : Contents(card', lba) = IF lba = call.lba THEN call.data ELSE Contents(card, lba)

LEMMA BitStores == ASSUME SdInv, SendBit \/ RecvBit, LongEnough PROVE Untouched \/ StoredOnly
<1>1. CASE ~card.present
  <2>1. card' = card
    BY <1>1 DEF SendBit, RecvBit, Put
  <2> QED BY <2>1 DEF Untouched
<1>2. CASE card.present
  <2>1. BitGone
    BY <1>2, SendGone, RecvGone
  <2>2. ~SpiIdle
    BY DEF SendBit, RecvBit, SpiIdle
  <2>3. SameStore(card', card) \/ SameStore(card', After)
    <3>1. CASE spi.n > 1
      BY <2>1, <3>1 DEF BitGone, MovesOn
    <3>2. CASE spi.n = 1
      BY <1>2, <2>1, <2>2, <3>2 DEF BitGone, MovesOn, Alike, After
    <3> QED BY <2>1, <3>1, <3>2 DEF BitGone
  <2>4. CASE SameStore(card', card)
    BY <2>4, SameContents DEF Untouched
  <2>5. CASE SameStore(card', After)
    <3>1. \A lba : Contents(card', lba) = Contents(After, lba)
      BY <2>5, SameContents
    <3>2. \A lba \in Lbas :
            \/ Contents(After, lba) = Contents(card, lba)
            \/ call.op = "write" /\ lba = call.lba /\ Contents(After, lba) = call.data
      BY DEF SdInv, StoreInv
    <3> QED BY <3>1, <3>2 DEF Untouched, StoredOnly
  <2> QED BY <2>3, <2>4, <2>5
<1> QED BY <1>1, <1>2 DEF SdInv, CardSet

LEMMA OthersKeep == ASSUME SdInv, [Next]_vars, ~SendBit, ~RecvBit PROVE SameStore(card', card) \/ TakeOut
<1>1. card' = card => SameStore(card', card)
  BY DEF SameStore
<1>2. CASE Sdinit \/ Select \/ Deselect
  <2>1. PICK p : p \in Ports /\ p.clk = 0 /\ Set(p) /\ spi' = spi /\ A' = A
    <3>1. CASE Sdinit
      BY <3>1 DEF Sdinit, Ports, Bit
    <3>2. CASE Select
      BY <3>2, PortTyped DEF Select, Ports, Bit
    <3>3. CASE Deselect
      BY <3>3, PortTyped DEF Deselect, Ports, Bit
    <3> QED BY <1>2, <3>1, <3>2, <3>3
  <2>2. SpiIdle
    BY <1>2 DEF Sdinit, Select, Deselect, At
  <2>3. SameStore(card', card)
    BY <2>1, <2>2, SetKeeps
  <2> QED BY <2>3
<1>3. CASE Pulse \/ Sdopen \/ SendCommand \/ AnswerAgain \/ AnswerSimple \/ AnswerLong \/ AnswerSector \/ MoreOfAnswer
  BY <1>1, <1>3
     DEF Pulse, Sdopen, SendCommand, AnswerAgain, AnswerSimple, AnswerLong, AnswerSector, MoreOfAnswer,
         Send, Recv, Quiet, io
<1>4. CASE Sdclose \/ WaitToken \/ ReadData \/ WriteData \/ DataResponse \/ WaitBusy
  BY <1>1, <1>4 DEF Sdclose, WaitToken, ReadData, WriteData, DataResponse, WaitBusy, Send, Recv, Quiet, io
<1>5. CASE BootStep \/ ReadResult \/ WriteResult \/ Caller \/ Answer \/ Restart \/ UNCHANGED vars
  BY <1>1, <1>5
     DEF BootStep, ReadResult, WriteResult, Caller, BootSd, ReadSector, WriteSector, Call, Answer, Restart,
         Quiet, io, vars
<1> QED BY <1>2, <1>3, <1>4, <1>5 DEF Next, Driver

LEMMA OthersStore == ASSUME SdInv, [Next]_vars, ~SendBit, ~RecvBit PROVE Untouched
<1>1. CASE SameStore(card', card)
  BY <1>1, SameContents DEF Untouched
<1>2. CASE TakeOut
  BY <1>2 DEF TakeOut, TakenOut, FreshCard, Contents, Untouched
<1> QED BY <1>1, <1>2, OthersKeep

(* The steps that neither begin nor end a call.                               *)
LEMMA CallGoesOn ==
  ASSUME [Next]_vars, ~BootStep, ~ReadResult, ~WriteResult, ~Caller, ~Answer
  PROVE  call' = call /\ ret' = ret
<1>1. CASE SendBit \/ RecvBit \/ Sdinit \/ Pulse \/ Sdopen \/ Select \/ SendCommand \/ Sdclose \/ Deselect
  BY <1>1 DEF SendBit, RecvBit, Sdinit, Pulse, Sdopen, Select, SendCommand, Sdclose, Deselect, Same
<1>2. CASE AnswerAgain \/ AnswerSimple \/ AnswerLong \/ AnswerSector \/ MoreOfAnswer
  BY <1>2 DEF AnswerAgain, AnswerSimple, AnswerLong, AnswerSector, MoreOfAnswer, Same
<1>3. CASE WaitToken \/ ReadData \/ WriteData \/ DataResponse \/ WaitBusy
  BY <1>3 DEF WaitToken, ReadData, WriteData, DataResponse, WaitBusy, Same
<1>4. CASE Restart \/ TakeOut \/ UNCHANGED vars
  BY <1>4 DEF Restart, TakeOut, vars
<1> QED BY <1>1, <1>2, <1>3, <1>4 DEF Next, Driver

(* What the proof supposes of the checksum: a read that got no answer, or     *)
(* whose card went away, is not taken for a good one by chance.               *)
Answered17 == card.present /\ r1 = 0
ChecksumTells ==
  pc = "result" /\ which = "cmd17" /\ Matches
    => Answered17 \/ DataOf(SDBUF) = Contents(card, call.lba)

StoreNow == [lba \in Lbas |-> Contents(card, lba)]
DeviceStep == Device!DeviceNext \/ (StoreNow' = StoreNow /\ call' = call /\ ret' = ret)

LEMMA SameStores == ASSUME Untouched PROVE StoreNow' = StoreNow
BY DEF Untouched, StoreNow

LEMMA DeviceStores == ASSUME StoredOnly, call' = call, ret' = ret PROVE Device!Store
<1>1. StoreNow' = [StoreNow EXCEPT ![call.lba] = call.data]
  BY DEF StoredOnly, StoreNow
<1> QED BY <1>1 DEF StoredOnly, StoreNow, Device!Store

LEMMA DeviceAccepts == ASSUME SdInv, Caller, StoreNow' = StoreNow PROVE Device!Accept
<1>1. pc = "idle" /\ call'.op \in {"boot", "read", "write"}
  BY DEF Caller, BootSd, ReadSector, WriteSector, Call
<1>2. call.op = "none"
  BY <1>1 DEF SdInv, CallInv, NoCall
<1> QED BY <1>1, <1>2 DEF Device!Accept, StoreNow

LEMMA HeldHere == NoSector \notin HeldSectors
<1>1. SECTOR \in Nat /\ SECTOR >= 6
  BY CardAssumption DEF CardAssumption
<1>2. Len(NoSector) = 0
  BY DEF NoSector
<1>3. \A sector \in HeldSectors : Len(sector) = SECTOR
  BY HeldBytes
<1> QED BY <1>1, <1>2, <1>3

LEMMA BufferHere == ASSUME SdInv PROVE DataOf(SDBUF) # NoSector
<1>1. SECTOR \in Nat /\ SECTOR >= 6 /\ SDBUF \in Seq(Byte) /\ Len(SDBUF) = SECTOR + 2
  BY BufferTyped, CardAssumption DEF CardAssumption
<1>2. Len(SubSeq(SDBUF, 1, SECTOR)) = SECTOR
  BY <1>1
<1>3. Len(NoSector) = 0
  BY DEF NoSector
<1> QED BY <1>1, <1>2, <1>3 DEF DataOf

LEMMA DeviceBoots ==
  ASSUME SdInv, BootStep, StoreNow' = StoreNow PROVE DeviceStep
<1>1. CASE call' = call /\ ret' = ret
  BY <1>1 DEF DeviceStep
<1>2. CASE call' = NoCall
  <2>1. call.op = "boot"
    BY DEF BootStep, At, SdInv, CallInv, Booting
  <2>2. Device!Finish
    BY <1>2, <2>1 DEF Device!Finish, StoreNow, NoCall
  <2> QED BY <2>2 DEF DeviceStep, Device!DeviceNext
<1> QED BY <1>1, <1>2 DEF BootStep, Return

LEMMA DeviceReads ==
  ASSUME SdInv, ReadResult, ChecksumTells, StoreNow' = StoreNow PROVE DeviceStep
<1>1. /\ pc = "result" /\ which = "cmd17" /\ SDBUF' = SDBUF /\ ignore' = ignore
      /\ \/ (Matches \/ ignore) /\ call' = NoCall /\ ret' = 0
         \/ call' = call /\ ret' = ret
  BY DEF ReadResult, At, Return
<1>2. call.op = "read" /\ call.lba \in Lbas
  BY <1>1 DEF SdInv, CallInv, Booting
<1>3. CASE (Matches \/ ignore) /\ call' = NoCall
  <2>1. ASSUME ~ignore' PROVE Contents(card, call.lba) # NoSector /\ DataOf(SDBUF)' = Contents(card, call.lba)
    <3>1. Matches
      BY <1>1, <1>3, <2>1
    <3>2. CASE Answered17
      BY <1>1, <3>2, ReadBack, HeldHere DEF Answered17
    <3>3. CASE DataOf(SDBUF) = Contents(card, call.lba)
      BY <1>1, <3>3, BufferHere
    <3> QED BY <1>1, <3>1, <3>2, <3>3 DEF ChecksumTells
  <2>2. StoreNow[call.lba] = Contents(card, call.lba)
    BY <1>2 DEF StoreNow
  <2>3. Device!Finish
    BY <1>2, <1>3, <2>1, <2>2 DEF Device!Finish, StoreNow, NoCall
  <2> QED BY <2>3 DEF DeviceStep, Device!DeviceNext
<1> QED BY <1>1, <1>3 DEF DeviceStep

LEMMA DeviceWrites ==
  ASSUME SdInv, WriteResult, LongEnough, StoreNow' = StoreNow PROVE DeviceStep
<1>1. /\ pc = "result" /\ which = "cmd24" /\ call' = NoCall /\ ret' = IF r1 = 0 THEN 0 ELSE 255
      /\ SpiIdle
  BY DEF WriteResult, At, Return
<1>2. call.op = "write" /\ call.lba \in Lbas
  BY <1>1 DEF SdInv, CallInv, Booting
<1>3. ret' = 0 => Contents(card, call.lba) = call.data
  <2>1. r1 = 0 => Holds(card)
    BY <1>1, BeforeByte DEF SdInv, StoreInv, Closing
  <2> QED BY <1>1, <2>1 DEF Holds
<1>4. StoreNow[call.lba] = Contents(card, call.lba)
  BY <1>2 DEF StoreNow
<1>5. Device!Finish
  BY <1>1, <1>2, <1>3, <1>4 DEF Device!Finish, StoreNow, NoCall
<1> QED BY <1>5 DEF DeviceStep, Device!DeviceNext

(* The user says what to do with a sector whose checksum is wrong.            *)
LEMMA DeviceAnswers ==
  ASSUME SdInv, Answer, StoreNow' = StoreNow PROVE DeviceStep
<1>1. /\ pc = "ask" /\ call' = NoCall
      /\ (ignore' = TRUE /\ ret' = 0) \/ (ignore' = FALSE /\ ret' = 255)
  BY DEF Answer, Return
<1>2. call.op = "read"
  BY <1>1 DEF SdInv, ProgInv, CallInv, Booting
<1>3. Device!Finish
  BY <1>1, <1>2 DEF Device!Finish, StoreNow, NoCall
<1> QED BY <1>3 DEF DeviceStep, Device!DeviceNext

LEMMA DeviceTakesStep ==
  ASSUME SdInv, ChecksumTells, LongEnough, [Next]_vars
  PROVE  [Device!DeviceNext]_(Device!dvars)
<1>1. CASE SendBit \/ RecvBit
  <2>1. call' = call /\ ret' = ret
    BY <1>1 DEF SendBit, RecvBit
  <2>2. Untouched => DeviceStep
    BY <2>1, SameStores DEF DeviceStep
  <2>3. StoredOnly => DeviceStep
    BY <2>1, DeviceStores DEF DeviceStep, Device!DeviceNext
  <2>4. DeviceStep
    BY <1>1, <2>2, <2>3, BitStores
  <2> QED BY <2>4 DEF DeviceStep, Device!dvars, StoreNow
<1>2. CASE ~SendBit /\ ~RecvBit
  <2>1. StoreNow' = StoreNow
    BY <1>2, OthersStore, SameStores
  <2>2. Caller => DeviceStep
    BY <2>1, DeviceAccepts DEF DeviceStep, Device!DeviceNext
  <2>3. BootStep \/ ReadResult \/ WriteResult \/ Answer => DeviceStep
    BY <2>1, DeviceBoots, DeviceReads, DeviceWrites, DeviceAnswers
  <2>4. ~(Caller \/ BootStep \/ ReadResult \/ WriteResult \/ Answer) => DeviceStep
    BY <2>1, CallGoesOn DEF DeviceStep
  <2>5. DeviceStep
    BY <2>2, <2>3, <2>4
  <2> QED BY <2>5 DEF DeviceStep, Device!dvars, StoreNow
<1> QED BY <1>1, <1>2

(* Driver, wires and card are the device that the filesystem counts on: a read*)
(* that succeeds has brought the sector that lies on the card, a write that   *)
(* succeeds has stored its sector, and nothing else is ever changed. Supposed:*)
(* a card that can be written holds every address asked for (a write beyond the*)
(* end of the image makes the sectors in between), and the checksum tells a read*)
(* that got no answer, or lost its card, from one that went well.             *)
THEOREM DeviceCorrect ==
  ASSUME LongEnough PROVE Spec /\ []ChecksumTells => IsSectorDevice
<1>1. Init => Device!InitDevice
  BY DEF Init, NoCall, Device!InitDevice
<1>2. SdInv /\ ChecksumTells /\ [Next]_vars => [Device!DeviceNext]_(Device!dvars)
  BY DeviceTakesStep
<1> QED BY <1>1, <1>2, SdInvariant, PTL DEF Spec, IsSectorDevice, Device!DeviceSpec

----------------------------------------------------------------------------
(* Cards that stay in the slot, can be written and hold every sector asked    *)
(* for: nothing needs to be supposed of the checksum.                         *)
Staying(d, c) == d.present = c.present /\ d.read_only = c.read_only

LEMMA PayloadStays == ASSUME NEW c \in CardSet, NEW b PROVE Staying(PayloadByte(c, b), c)
BY DEF PayloadByte, StoreBlock, load_response, Staying, CardSet

LEMMA ObeyStays == ASSUME NEW c \in CardSet, NEW cmd PROVE Staying(Obey(c, cmd), c)
BY DEF Obey, load_response, load_response_cmd17, AcceptWrite, Staying, CardSet

LEMMA ByteStays ==
  ASSUME NEW c \in CardSet, Tame(c), NEW b \in Byte, NEW n \in 1..8
  PROVE  Staying(AfterByte(c, b, n), c)
<1> DEFINE t == Taking(c, b, n)
           d == [t EXCEPT !.mosi_queue = <<>>]
<1>1. /\ t \in CardSet /\ SameWrite(t, c) /\ SameStore(t, c)
      /\ t.mosi_queue = Append(c.mosi_queue, b)
  BY TakingTyped DEF Becomes
<1>2. Staying(t, c)
  BY <1>1 DEF Staying, SameStore
<1> HIDE DEF t
<1>3. <<>> \in Seq(Byte)
  OBVIOUS
<1>4. d \in CardSet /\ Staying(d, t)
  BY <1>1, <1>3, Requeue DEF Becomes, Staying, SameStore
<1>5. CASE t.awaiting_write_block
  <2>1. t.mosi_queue = <<b>>
    <3>1. c.mosi_queue = <<>>
      BY <1>1, <1>5 DEF Tame, SameWrite
    <3> QED BY <1>1, <3>1
  <2>2. digest_sd(t) = PayloadByte(d, b)
    BY <1>1, <1>5, <2>1, DigestPayload
  <2> HIDE DEF d
  <2>3. Staying(PayloadByte(d, b), d)
    BY <1>4, PayloadStays
  <2> QED BY <1>2, <1>4, <2>2, <2>3 DEF AfterByte, t, Staying
<1>6. CASE ~t.awaiting_write_block
  <2>1. digest_sd(t) = t \/ digest_sd(t) = d \/ digest_sd(t) = Obey(d, t.mosi_queue)
    BY <1>6, Zenon DEF digest_sd
  <2> HIDE DEF d
  <2>2. Staying(Obey(d, t.mosi_queue), d)
    BY <1>4, ObeyStays
  <2> QED BY <1>2, <1>4, <2>1, <2>2 DEF AfterByte, t, Staying
<1> QED BY <1>5, <1>6

LEMMA BitStays == ASSUME SdInv, SendBit \/ RecvBit PROVE Staying(card', card)
<1>1. CASE ~card.present
  <2>1. card' = card
    BY <1>1 DEF SendBit, RecvBit, Put
  <2> QED BY <2>1 DEF Staying
<1>2. CASE card.present
  <2>1. BitGone
    BY <1>2, SendGone, RecvGone
  <2>2. CASE spi.n > 1
    BY <2>1, <2>2 DEF BitGone, MovesOn, SameStore, Staying
  <2>3. CASE spi.n = 1
    <3>1. Alike(card', AfterByte(card, Outgoing, 1)) /\ Outgoing \in Byte /\ 1 \in 1..8
      BY <2>1, <2>3 DEF BitGone, MovesOn
    <3>2. Staying(AfterByte(card, Outgoing, 1), card)
      BY <3>1, ByteStays DEF SdInv
    <3> QED BY <3>1, <3>2 DEF Alike, SameStore, Staying
  <2> QED BY <2>1, <2>2, <2>3 DEF BitGone
<1> QED BY <1>1, <1>2 DEF SdInv, CardSet

WritableCards == \A c \in InitialCards : ~c.read_only /\ HoldsAll(c)
InSlot == card.present = TRUE /\ card.read_only = FALSE

LEMMA SlotStep == ASSUME SdInv, InSlot, ~CanTakeOut, [Next]_vars PROVE InSlot'
<1>1. CASE SendBit \/ RecvBit
  BY <1>1, BitStays DEF Staying, InSlot
<1>2. CASE ~SendBit /\ ~RecvBit
  BY <1>2, OthersKeep DEF SameStore, InSlot, TakeOut
<1> QED BY <1>1, <1>2

LEMMA SlotTells == ASSUME SdInv, InSlot, WritableCards PROVE ChecksumTells
<1> SUFFICES ASSUME pc = "result", which = "cmd17", r1 # 0 PROVE FALSE
  BY DEF ChecksumTells, Answered17, InSlot
<1>1. SpiIdle
  BY DEF SdInv, ProgInv, Resting
<1>2. card.failed
  BY <1>1, BeforeByte DEF Outcome, Closing, InSlot
<1>3. Whole(card)
  BY DEF SdInv, StoreInv, LongEnough, WritableCards
<1> QED BY <1>2, <1>3 DEF Whole, InSlot

(* Nothing is supposed of the checksum if cards stay in the slot, can be written*)
(* and hold every address asked for.                                          *)
THEOREM StayingDeviceCorrect ==
  ASSUME WritableCards, ~CanTakeOut PROVE Spec => IsSectorDevice
<1>1. LongEnough
  BY DEF WritableCards, LongEnough
<1>2. Init => InSlot
  <2> SUFFICES ASSUME Init PROVE InSlot
    OBVIOUS
  <2>1. card \in InitialCards /\ card = FreshCard(card.image, card.read_only)
    BY DriverAssumption DEF Init, DriverAssumption
  <2>2. card.present = TRUE
    BY <2>1 DEF FreshCard
  <2>3. card.read_only \in BOOLEAN /\ ~card.read_only
    BY <2>1, ImageHeld DEF WritableCards
  <2> QED BY <2>2, <2>3 DEF InSlot
<1>3. SdInv /\ InSlot /\ [Next]_vars => InSlot'
  BY SlotStep
<1>4. SdInv /\ InSlot => ChecksumTells
  BY SlotTells
<1>5. Spec => []ChecksumTells
  BY <1>2, <1>3, <1>4, SdInvariant, PTL DEF Spec
<1> QED BY <1>1, <1>5, DeviceCorrect, PTL
=============================================================================
