CONSTANTS
    MemSizes <- MCMemSizes
    Totalrams <- MCTotalrams
    Units <- MCUnits
    NoResult = NoResult

SPECIFICATION Spec

INVARIANT DarwinMemExact
