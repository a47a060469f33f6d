SPECIFICATION Spec
CONSTANTS
  MaxInodes = 5
  MaxBlocks = 9
  BitmapBits = 10
  Reserved = 2
  NDirect = 1
  Slots = 4
  CountMod = 1
  LinkMod = 1
  Data = {"x"}
  Names <- BigFileNames
INVARIANTS TypeOK OneOwnerUnlessLeftovers BlocksComeBackUnlessLeftovers NoHolesUnlessLeftovers
CONSTRAINT BeforeLeftovers
