SPECIFICATION Spec
CONSTANTS
  Blank = Blank
  x = x
  Chars <- OneLetter
  LINE = 6
  ARGV = 3
  ARGSTR = 6
  Table <- FourCommands
  Files <- MCFiles
  Headers <- MCHeaders
  Banks <- MCBanks
  RomBanks <- MCRomBanks
  PowerOn <- MCPowerOn
  NoFile = NoFile
  NoHeader = NoHeader
  NUL = NUL
  Unset = Unset
INVARIANTS TypeOK LineIsShown FsInItsBank BootInOrder NoHandleLeft ProgramWhole ArgumentsInPlace
