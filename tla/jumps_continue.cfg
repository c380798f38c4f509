SPECIFICATION Spec
CONSTANTS
  Labels = {"L"}
  Forms = {"inner"}
  MaxCode = 3
  MaxOpen = 2
  MaxGroups = 1
INVARIANT JumpsArrive
