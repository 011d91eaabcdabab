SPECIFICATION ServicesSpec
CONSTANTS
  ServicesRun = {"ftp"}
  Images <- MCImages
  SwapImage <- MCSwapImage
  Slot0Size = 2
  SectorSz = 1
  MinImage = 1
  BootFrames <- MCBootFrames
  FifoDepth = 1
  IdleLimit = 1
  BootKeys = {0}
  Empty = Empty
  Bad = Bad
  QueueDepth = 2
  FileMax = 1
  MaxFiles = 2
  NamesCap = 4
  Samples = 3
  Times = 3
  Switches = 2
  Cuts = 1
  ClockMayGoBack = FALSE
  RingSize = 3
  RingMod = 6
  LineLens = {1, 2}
  UartMax = 2
  LogBytes = 6
  LogDrops = 1
  HConns = {1, 2}
  WebFiles = {"f1"}
  WebSize <- MCWebSize
  RxMax = 2
  HttpWindow = 2
  HttpSends = 3
  FSlots = {1}
  FtpDirs <- MCFtpDirs
  FtpPaths <- MCFtpPaths
  MaxParts = 1
  FtpBytes <- MCFtpBytes
  FtpBlocks <- MCFtpBlocks
  ReadLen = 1
  FtpCap = 2
  Rests = {0, 1}
  ListenPool = 1
PROPERTY
  FtpReturns
CHECK_DEADLOCK FALSE
