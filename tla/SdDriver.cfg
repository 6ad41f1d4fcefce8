SPECIFICATION Spec
CONSTANTS
  SECTOR = 6
  card_crc <- crc16_xmodem
  rom_crc <- crc16_xmodem_sdsector
  InitialCards <- TwoCards
  Lbas <- Asked
  Sectors <- Blocks
  CanTakeOut = TRUE
INVARIANTS TypeOK InStep NoFalseAlarm
PROPERTIES IsSectorDevice DriverReturns
