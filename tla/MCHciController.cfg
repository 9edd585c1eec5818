CONSTANTS
  Blocks = {b1, b2}
  Null = Null
  TaskCount = 2
  NoTask = 255
  RomStatusOps = {"SetAdvEnable"}
  RomReadOps = {"ReadBdaddr"}
  ListOps = {"AddWhiteList"}
  ExtraOps = {"ReadRssi"}
  CapsOps = {"SetEventMask"}
  LengthOps = {"SetDataLength"}
  SecurityOps = {"LtkReply"}
  Tables <- TheTables
SPECIFICATION FairSpec
INVARIANTS
  AnsweredOnce
  WritesAddressed
PROPERTIES
  CallerRestored
  NothingLost
  CallsReturn
