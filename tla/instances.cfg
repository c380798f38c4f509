SPECIFICATION FairSpec
CONSTANTS
  Templates = {"f", "g"}
  Types = {"int", "long"}
  Param = "T"
  Bodies <- MCBodies
  NoTokens = NoTokens
  NoItem = NoItem
  Capacity = 4
  Forms <- MCForms
  MaxSource = 4
INVARIANTS TypeOK ServedInOrder InstantiatedOnce Complete
PROPERTY UnitEnds
\* A program that has read freed memory goes no further here.
CHECK_DEADLOCK FALSE
