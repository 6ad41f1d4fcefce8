---------------------------- MODULE MCKeyBuffer ----------------------------
(* A ring of four slots holds three unread bytes; three different bytes tell  *)
(* the oldest, the next and the newest apart when the ring overflows, and the *)
(* write index laps the read index within a few steps.                        *)
EXTENDS KeyBuffer, TLC

CONSTANTS k1, k2, k3
Alphabet == Permutations({k1, k2, k3})
=============================================================================
