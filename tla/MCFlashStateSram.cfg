\* Programs whose HEX files have no byte in the NOR.
CONSTANTS
  f1 = f1
  f2 = f2
  a = a
  b = b
  c = c
  Beyond = beyond
  Firmwares = {f1, f2}
  Cells <- TheCells
  Sectors <- TheSectors
  Xip <- InSramImages
SPECIFICATION Spec
INVARIANT OwnNorOnly
