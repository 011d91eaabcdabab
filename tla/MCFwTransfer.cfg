SPECIFICATION XferSpec
CONSTANTS
  Byte = {0, 1}
  Erased = Erased
  Corrupt = Corrupt
  NoImage = NoImage
  NoReply = NoReply
  PageSz = 2
  SlotSize = 4
  TrailerOff = 3
  MinTotal = 1
  Totals = {3}
  Chunks = {}
  CrcValues = {}
  Crc16 <- MCCrc16
  TlvKeyOk <- MCTlvKeyOk
  FlashFaults = FALSE
  UdpQDepth = 1
  Image <- MCImage
  ChunkSz = 1
  Window = 2
  MaxRetries = 1
  CbDepth = 1
  LowByte = 2
INVARIANTS
  V2Prefix
  PendingIsImage
  ConfirmedIsReceived
  VerifiedAgrees
PROPERTIES
  HostTerminates
