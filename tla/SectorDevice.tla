---------------------------- MODULE SectorDevice ----------------------------
(* What the filesystem takes the SD driver to be: a device that reads and     *)
(* writes whole sectors.  A call that reports success has done exactly what   *)
(* it was asked for; one that reports an error may have stored its sector, or *)
(* not; and nothing else is ever changed.                                     *)
EXTENDS Integers

CONSTANT NoSector
VARIABLES
  store,    \* address -> sector or NoSector
  call,     \* the call in progress: [op, lba, data]
  buffer,   \* the sector buffer
  ret,      \* what the last call returned: 0 is success
  trusted   \* FALSE once the user has chosen to ignore checksums

dvars == <<store, call, ret>>

InitDevice == call.op = "none"

Accept == call.op = "none" /\ call'.op # "none" /\ store' = store

Store ==
  /\ call.op = "write" /\ store' = [store EXCEPT ![call.lba] = call.data]
  /\ UNCHANGED <<call, ret>>

Finish ==
  /\ call.op # "none" /\ call'.op = "none" /\ store' = store
  /\ call.op = "read" /\ ret' = 0 /\ trusted' =>
       store[call.lba] # NoSector /\ buffer' = store[call.lba]
  /\ call.op = "write" /\ ret' = 0 => store[call.lba] = call.data

DeviceNext == Accept \/ Store \/ Finish
DeviceSpec == InitDevice /\ [][DeviceNext]_dvars
=============================================================================
