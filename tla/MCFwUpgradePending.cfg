SPECIFICATION UpgSpec
CONSTANTS
  Byte = {0, 1}
  Erased = Erased
  Corrupt = Corrupt
  NoImage = NoImage
  NoReply = NoReply
  NoCanReply = "-"
  PageSz = 2
  SlotSize = 4
  TrailerOff = 3
  MinTotal = 1
  Totals = {3, 4}
  Chunks <- MCBlocks
  CrcValues = {0, 1, 2, 3}
  Crc16 <- MCCrc16
  TlvKeyOk <- MCTlvKeyOk
  UdpQDepth = 1
  CanQDepth = 1
  KeyChunks = {0, 1}
  AckInterval = 1
  WsQDepth = 1
  WsSizes = {3}
  WsKeys = {"good"}
  WsBlocks <- MCWsBlocks
  UdpMsgs <- MCUdpMsgs
  CanMsgs <- MCCanMsgs
  FlashFaults = FALSE
  ChannelSets = {{"udp", "can"}}
PROPERTIES
  PendingVerified
