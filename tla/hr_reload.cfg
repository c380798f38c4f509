SPECIFICATION Spec
CONSTANTS
  f = f
  g = g
  x = x
  c = c
  e = e
  host = host
  Names = {f, c, e}
  Kind <- MCKind
  HostSymbols = {}
  Aliases <- OwnNames
  Values = {0, 1}
  Policies = {"ifconst", "always", "never"}
  Forms = {"error"}
  MaxUnit = 3
INVARIANT RunsLatest
PROPERTY PreservedValue
