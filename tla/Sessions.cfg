SPECIFICATION Spec
CONSTANTS
  MaxInodes = 6
  MaxBlocks = 6
  BitmapBits = 6
  Reserved = 1
  NDirect = 1
  Slots = 4
  CountMod = 1
  LinkMod = 1
  Names = {"root", "home", "user1", "new"}
  Data = {}
  Images = {a, b}
  MaxUsers = 5
  InBlock = 4
  Covered = 3
  NewUsers <- OneNew
  Logins <- RootAndNew
  MkdirPaths <- HomeDir
  CreatePaths <- HomeDir
SYMMETRY ImageSymmetry
INVARIANTS TypeOK UsersAreOnTheImage BeganAtHome HomesAreOwned MountedIsWhole
PROPERTIES RootLostOnlyByBadMounts MountOnlyLoads
