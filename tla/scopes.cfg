\* Two names, functions and blocks four deep, three scopes opened after that of the file; no more
\* than four names declared in what is open, but for parameters.
CONSTANTS
    Names = {1, 2}
    Forms = {}
    MaxDepth = 4
    MaxScopes = 3
    MaxNames = 4
    MaxParameters = 1
SPECIFICATION Spec
INVARIANTS TypeOK ScopesBalanced ResolvesAsInC TagsAsInC NamesReachStorage
\* Programs end.
CHECK_DEADLOCK FALSE
