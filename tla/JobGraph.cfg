SPECIFICATION Spec
CONSTANTS
  Jobs = {j1, j2}
  Memory = 8
  Null = Null
  Wild = Wild
INVARIANTS
  TypeOK
  ListsHoldWhatWasAdded
  PopMatchesPush
