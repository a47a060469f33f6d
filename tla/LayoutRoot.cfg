SPECIFICATION Spec
CONSTANTS
  MaxInodes = 10
  MaxBlocks = 20
  PerBlock = 8
  Reserved = 10
  Digit = 20
INVARIANT RootIsKnown
