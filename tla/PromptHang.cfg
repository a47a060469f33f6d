SPECIFICATION Spec
CONSTANTS
  MaxInodes = 6
  MaxBlocks = 10
  BitmapBits = 10
  Reserved = 1
  NDirect = 2
  Slots = 2
  CountMod = 1
  LinkMod = 1
  Data = {"x"}
  MaxOpen = 1
  HomeName = "root"
  MaxTransfer = 2
  Names <- ReuseNames
  CreatePaths <- ReuseFile
  DeletePaths <- NoPaths
  MkdirPaths <- ReuseMkdir
  RmdirPaths <- ReuseRmdir
  OpenPaths <- ReuseFile
  OpenFlags <- Flags
  CdPaths <- ReuseCd
INVARIANT PromptReturns
