SPECIFICATION Spec
CONSTANTS
  MAXSCRIPTS = 3
  Scripts <- MCScripts
  Cells <- MCCells
  Image <- MCImage
CHECK_DEADLOCK FALSE
INVARIANTS
  TypeOK
  StackBalanced
  WritesInOrder
  ListingIsMemory
  TypesBack
PROPERTIES
  AssemblesTheLine
  DumpShowsAll
