SPECIFICATION SpecP
CONSTANTS
  EPF = 6
  SLOTS = 3
  EOC = 99
  RESERVED = 1000
  LLSZ = 2
  Text <- AnyText
  SECTOR = 2
  MAX_OPEN = 1
  MAX_DEPTH = 3
  MAX_FILES = 4
  LOAD_LIMIT = 0
  BOOT_RETRIES = 2
  FIRST_FREE = 3
  PAGE = 2
  Behind <- NoArgs
  Cards <- DirCards
  MkdirArgs <- FolderNames
  TouchArgs <- FileNames
  ChdirArgs <- GoNames
  OpenArgs <- NoArgs
  LoadArgs <- NoArgs
  ReadLens <- NoArgs
  Faults <- AllFaults
INVARIANTS
  TypeOK
  EntriesAllocated
  NoSharedClusters
  SecondFat
  FoldersComplete
  PathIsReal
PROPERTIES
  FilesKeepContents
  GrowsByOneEntry
