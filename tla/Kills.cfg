SPECIFICATION Spec
CONSTANTS
  MaxInodes = 6
  MaxBlocks = 5
  BitmapBits = 5
  Reserved = 1
  NDirect = 2
  Slots = 2
  CountMod = 1
  LinkMod = 1
  Data = {"x"}
  MaxKills = 1
  Names <- KillNames
  FilePaths <- TwoFiles
  DirPaths <- OneDir
  WritePaths <- OneFile
INVARIANTS TypeOK NamedInodesOwnTheirBlocks NoNameWithoutInode WritesAddUp
PROPERTY OthersKeepTheirContent
