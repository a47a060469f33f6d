SPECIFICATION Spec
CONSTANTS
  Users <- AnnAndBob
  Modes <- TwoModes
  Owners <- AnnAndBob
  MaxOpen = 1
  FirstNodes <- Tree
  ChangedPaths <- ChangedOnes
  NewFiles <- NewOnes
  NewDirs <- NewDirOnes
  OpenPaths <- OpenedOnes
  CdPaths <- EnteredOnes
  DirPaths <- ListedOnes
  DeletePaths <- NewOnes
INVARIANTS TypeOK LooksByTheBits HomeOpensByTheBits
