SPECIFICATION Spec
CONSTANTS
    Chars <- MCChars
    MaxLen = 4
    Needles <- MCNeedles
    Delimiters <- MCDelimiters
INVARIANTS SearchExact BlanksExact SplitJoins ImageDecodes
