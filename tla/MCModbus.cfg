SPECIFICATION ModbusSpec
CONSTANTS
  ByteBits = 2
  DoNum = 3
  DiNum = 2
  HoldNum = 4
  InNum = 2
  DoIdx = 0
  HiIdx = 1
  LoIdx = 2
  ActIdx = {3}
  BitLimit = 4
  RegLimit = 3
  FpAddr = 5
  CountMod = 4
  ClockTimes <- MCClockTimes
  MbRequests <- MCMbRequests
  Conns = {1, 2}
  TcpFrames <- MCTcpFrames
  TcpSends = 2
  LenClamp = 4
  ServerSays <- MCServerSays
  Chunks <- MCChunks
  RtuChunks <- MCRtuChunks
  RtuMax = 3
  RtuMin = 2
  SrvUnit = 1
  CrcOk <- MCCrcOk
  RtuSays <- MCRtuSays
INVARIANTS
  CoilsReadBack
  WritesOnlyNamed
  SegmentationIrrelevant
  RepliesOnce
  EchoNeedsRace
  FrameIsHeard
  CountersBalance
PROPERTIES
  HalfFrameEnds
  RtuListens
CHECK_DEADLOCK FALSE
