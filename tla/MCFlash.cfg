\* Two images that overwrite each other's sectors; HEX files of up to four
\* lines; sessions of two parts on a line with two faults; three cells under
\* two HEX files, one that a sector shares with another, one alone in its own.
CONSTANTS
  Sector = 8
  BigSectors = 4
  Align = 2
  NorSize = 128
  MaxFlash = 256
  HeaderOff = 8
  HeaderLen = 3
  StoreOff = 16
  Images <- Fitting
  LowSize = 16
  RecordBytes = 4
  SramBase = 256
  DefaultStart = 260
  NoEntry = NoEntry
  MaxSegments = 3
  Bytes = {"x", "y"}
  Lines <- TheLines
  MaxLines = 4
  StartBaud = 96
  DefaultBaud = 1152
  AppBaud = 1152
  RunBauds = {1152, 9216}
  ImageParts = 2
  Attempts = 2
  Tries = 2
  Polls = 1
  MaxFaults = 2
  f1 = f1
  f2 = f2
  a = a
  b = b
  c = c
  Beyond = beyond
  Firmwares = {f1, f2}
  Cells <- TheCells
  Sectors <- TheSectors
  Xip <- InNorImages
SPECIFICATION FlashPartsSpec
INVARIANTS
  FlashedImageReadsBack
  ReadersAgree
  LayoutApart
  VerifiedBoots
  EntryRecovers
  ReportedIsStored
  OwnNorOnly
PROPERTIES
  OthersUntouched
  NorKept
