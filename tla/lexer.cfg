\* Texts of up to 4 to 8 characters of each alphabet.
CONSTANTS
    Symbols <- SomeSymbols
    Include <- I
    Alphabets <- SomeAlphabets
SPECIFICATION Spec
INVARIANTS TokensAsInC TokensLocated AngledInIncludes
\* The lexer returns.
CHECK_DEADLOCK FALSE
