SPECIFICATION Spec
CONSTANTS
  MaxInodes = 6
  MaxBlocks = 4
  BitmapBits = 5
  Reserved = 1
  NDirect = 2
  Slots = 3
  CountMod = 1
  LinkMod = 1
  Data = {"x"}
  MaxOpen = 1
  HomeName = "root"
  MaxTransfer = 1
  Names <- OneNames
  CreatePaths <- OnePath
  DeletePaths <- OnePath
  MkdirPaths <- OneMkdir
  RmdirPaths <- OneRmdir
  OpenPaths <- NoPaths
  OpenFlags <- Flags
  CdPaths <- OneCd
INVARIANTS BlockOwnership NamesFormATree
PROPERTY LostBlocksExplained
