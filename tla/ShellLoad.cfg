SPECIFICATION Spec
CONSTANTS
  Blank = Blank
  x = x
  Chars <- OneLetter
  LINE = 5
  ARGV = 3
  ARGSTR = 5
  Table <- FourCommands
  Files <- MCFiles
  Headers <- MCHeaders
  Banks <- MCBanks
  RomBanks <- MCRomBanks
  PowerOn <- MCPowerOn
  NoFile = NoFile
  NoHeader = NoHeader
  NUL = NUL
  Unset = Unset
INVARIANT LoadsStayInUserSpace
