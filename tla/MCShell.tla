------------------------------ MODULE MCShell ------------------------------
(* Lines of five characters over a blank and a letter, in which two words,    *)
(* and a third that is one too many, fit: five letters are LS, four SDINFO,   *)
(* two MORE, one MKDIR, and three the name of a program.  Files on either     *)
(* side of each limit that the loader has, headers that came over wrong.      *)
EXTENDS Shell

CONSTANT x

OneLetter == {Blank, x}
FourCommands ==
  [cmd \in Commands |->
     CASE cmd = "MKDIR" -> <<x>> [] cmd = "MORE" -> <<x, x>> [] cmd = "SDINFO" -> <<x, x, x, x>>
       [] cmd = "LS" -> <<x, x, x, x, x>> [] OTHER -> <<x, x, x, x, x, x>>]

Program(size, load) ==
  [size |-> size, sectors |-> SectorsOf(size), load |-> load,
   len |-> IF size > COM_HEADER_SIZE THEN (size - COM_HEADER_SIZE) % 65536 ELSE 0,
   abi |-> TRUE, crc |-> TRUE]
Good == Program(1000, 2048)
MCFiles ==
  {Good,
   [Good EXCEPT !.sectors = 1],          \* the chain is shorter than the size
   [Good EXCEPT !.sectors = 0],          \* no chain at all
   [Good EXCEPT !.crc = FALSE],
   [Good EXCEPT !.abi = FALSE],
   Program(7, 2048),                     \* half a header
   Program(1000, 2047),                  \* load address out of range
   Program(1023, 31488), Program(1024, 31488), \* ends just below the I/O page
   Program(600, 31488 + 1)}              \* its last sector reaches into it
(* Headers of which one byte or another came over wrong.                       *)
MCHeaders ==
  {[HeaderOf(Good) EXCEPT !.load = 4096],
   [HeaderOf(Good) EXCEPT !.len = 15, !.abi = FALSE, !.payload = NoFile]}
MCBanks == {0, SDRAMBANK}
MCRomBanks == {8}
MCPowerOn == {2, 200}   \* one that no register keeps: never written, or beyond six bits
=============================================================================
