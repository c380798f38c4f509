SPECIFICATION Spec
CONSTANTS
  f = f
  g = g
  x = x
  c = c
  e = e
  host = host
  Names = {f, x}
  Kind <- MCKind
  HostSymbols = {host}
  Aliases <- AnyAlias
  Values = {0, 1}
  Policies = {"ifconst"}
  Forms = {"error", "prototype", "extern", "static", "localstatic"}
  MaxUnit = 2
INVARIANTS TypeOK CallableIsSafe EntersNewest
PROPERTY AddressStable
