\* One image with three SRAM parts in neighbouring and shared sectors.
CONSTANTS
  Sector = 8
  BigSectors = 4
  Align = 2
  NorSize = 64
  MaxFlash = 128
  HeaderOff = 8
  HeaderLen = 3
  StoreOff = 16
  Images <- Sharing
SPECIFICATION FlashSpec
INVARIANT FlashedImageReadsBack
