SPECIFICATION SpecP
CONSTANTS
  EPF = 6
  SLOTS = 3
  EOC = 99
  RESERVED = 1000
  LLSZ = 2
  Text <- AnyText
  SECTOR = 2
  MAX_OPEN = 1
  MAX_DEPTH = 2
  MAX_FILES = 4
  LOAD_LIMIT = 0
  BOOT_RETRIES = 2
  FIRST_FREE = 3
  PAGE = 2
  Behind <- NoArgs
  Cards <- TwoFatCards
  MkdirArgs <- FolderNames
  TouchArgs <- NoArgs
  ChdirArgs <- GoNames
  OpenArgs <- NoArgs
  LoadArgs <- NoArgs
  ReadLens <- NoArgs
  Faults <- NoFaults
INVARIANTS
  PromptShowsFolder
