-------------------------------- MODULE MCSd --------------------------------
(* Cards of two or three sectors of six bytes, the fewest that hold the six   *)
(* bytes sdcmd17 builds in the buffer.  The bytes are chosen to look like     *)
(* what the protocol itself sends: the token, waits, R1, a response, CMD17.   *)
EXTENDS SdProps, Crc16

Tokens == <<254, 255, 0, 5, 81, 1>>
Waits == <<255, 255, 255, 254, 255, 255>>
Plain == <<18, 52, 86, 120, 154, 188>>

(* On the first card sector 2 is beyond the end of the image.                 *)
TwoCards == {FreshCard(<<Tokens, Plain>>, TRUE), FreshCard(<<Tokens, Waits, Plain>>, FALSE)}
Asked == {0, 2}
Blocks == {Waits}
=============================================================================
