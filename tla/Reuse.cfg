SPECIFICATION LoopFairSpec
CONSTANTS
  MaxInodes = 6
  MaxBlocks = 8
  BitmapBits = 8
  Reserved = 1
  NDirect = 2
  Slots = 2
  CountMod = 2
  LinkMod = 1
  Data = {"x"}
  MaxOpen = 1
  HomeName = "root"
  MaxTransfer = 1
  Names <- ReuseNames
  CreatePaths <- ReuseFile
  DeletePaths <- ReuseDelete
  MkdirPaths <- ReuseMkdir
  RmdirPaths <- ReuseRmdir
  OpenPaths <- ReuseFile
  OpenFlags <- ReadWriteOnly
  CdPaths <- ReuseCd
PROPERTIES FilesChangeOnlyByTheirWrites CommandsEnd CountersFollowBitmaps PromptComesBack
CONSTRAINT NamesKept
