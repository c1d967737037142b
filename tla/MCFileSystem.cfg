CONSTANTS
  Name = {a, b}
  NumSectors = 10
  SectorSize = 2
  NumDirEntries = 2
  NumHdr = 1
  Sizes <- SomeSizes
  MaxLength = 7
  Commands = {"-cp", "-ap", "-hap", "-r"}
  MaxCtlC = 1
  Nothing = Nothing
  FileLength = 5
  Byte = {0, 1}
  MaxCount = 6
SPECIFICATION FileSystemSpec
SYMMETRY NameSymmetry
INVARIANTS
  DiskInv
  OnlyIndexBlocksLeak
PROPERTIES
  FilesSpec
  BytesSpec
CHECK_DEADLOCK FALSE
