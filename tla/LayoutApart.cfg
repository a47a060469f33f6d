SPECIFICATION Spec
CONSTANTS
  MaxInodes = 9
  MaxBlocks = 20
  PerBlock = 8
  Reserved = 10
  Digit = 20
INVARIANTS TypeOK LyingApart
