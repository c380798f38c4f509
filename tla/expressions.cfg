CONSTANTS
    Bits = 4
    Number <- MCNumber
    Names = {"A", "N"}
    Macros = {"A"}
    Tokens <- MCTokens
    Shapes <- MCShapes
SPECIFICATION Spec
INVARIANTS ValueAsInC TakesOnlyC
\* Texts do not get longer than their shapes.
CHECK_DEADLOCK FALSE
