SPECIFICATION Spec
CONSTANTS
  Labels = {"L"}
  Forms = {"stray"}
  MaxCode = 4
  MaxOpen = 2
  MaxGroups = 1
INVARIANTS TypeOK JumpsArrive PatchesOwnJumps
