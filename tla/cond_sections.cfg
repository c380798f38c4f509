SPECIFICATION Spec
CONSTANTS
  Macros = {"M"}
  Forms = {"define", "undef", "error", "depends", "include", "unterminated", "unknown", "expression", "elif", "elifdef"}
  MaxFiles = 2
  MaxDepth = 2
  MaxGroups = 3
  MaxText = 1
INVARIANTS KeepsFirstTrueGroup DecidedFromOutside
 
