SPECIFICATION LoopFairSpec
CONSTANTS
  MaxInodes = 6
  MaxBlocks = 5
  BitmapBits = 5
  Reserved = 1
  NDirect = 2
  Slots = 3
  CountMod = 1
  LinkMod = 1
  Data = {"x"}
  MaxOpen = 1
  HomeName = "root"
  MaxTransfer = 1
  Names <- NsNames
  CreatePaths <- NsCreate
  DeletePaths <- NsDelete
  MkdirPaths <- NsMkdir
  RmdirPaths <- NsRmdir
  OpenPaths <- NoPaths
  OpenFlags <- Flags
  CdPaths <- NsCd

INVARIANT NamesFormATree
PROPERTY PromptComesBack
