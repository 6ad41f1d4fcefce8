SPECIFICATION SpecP
CONSTANTS
  EPF = 8
  SLOTS = 4
  EOC = 99
  RESERVED = 1000
  LLSZ = 3
  Text <- AnyText
  SECTOR = 2
  MAX_OPEN = 2
  MAX_DEPTH = 3
  MAX_FILES = 5
  LOAD_LIMIT = 8
  BOOT_RETRIES = 2
  FIRST_FREE = 3
  PAGE = 2
  Behind <- WordsBehind
  Cards <- FileCards
  MkdirArgs <- NoArgs
  TouchArgs <- NoArgs
  ChdirArgs <- SRNames
  OpenArgs <- OpenNames
  LoadArgs <- LoadNames
  ReadLens <- SomeLens
  Faults <- ReadFaults
INVARIANTS
  HandlesMatchDisk
  ReadsAreFileBytes
PROPERTIES
  LoadsDeliverFile
  RoutinesReturn
