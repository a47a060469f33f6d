SPECIFICATION Spec
CONSTANTS
  MaxInodes = 6
  MaxBlocks = 7
  BitmapBits = 7
  Reserved = 1
  NDirect = 2
  Slots = 2
  CountMod = 1
  LinkMod = 1
  Data = {"x", "y"}
  MaxOpen = 1
  HomeName = "root"
  MaxTransfer = 2
  Names <- FsNames
  CreatePaths <- FsCreate
  DeletePaths <- FsDelete
  MkdirPaths <- NoPaths
  RmdirPaths <- NoPaths
  OpenPaths <- FsOpen
  OpenFlags <- ReadWriteOnly
  CdPaths <- NoPaths

INVARIANTS TypeOK BlockOwnership
PROPERTIES LostBlocksExplained FilesChangeOnlyByTheirWrites HolesOnlyFromStaleOffsets OffsetsPassSizeOnlyByDelete FilesAreSequences
