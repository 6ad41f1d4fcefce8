----------------------------- MODULE MCConsole -----------------------------
(* A chip that holds two keys and a ring of four slots: both overflow, and a  *)
(* second key arrives while the handler is at work on the first.  Line feed   *)
(* and carriage return are among the keys, since the chip maps one to the     *)
(* other.                                                                     *)
EXTENDS Console

CONSTANT k
=============================================================================
