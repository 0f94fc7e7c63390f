\* A declaration as a branch is not closed.
SPECIFICATION Spec
CONSTANTS
    Rules <- CppRules
    StartSymbol <- CppStart
    OtherTokens <- CppOtherTokens
    Levels <- NoLevels
    Semantic <- CppSemantic
    Asserts <- CppAsserts
    Builds <- CppBuilds
    NullTree <- Null
    YYINITDEPTH = 200
    YYMAXDEPTH = 10000
    MallocMayFail = FALSE
    Sentences <- CppTexts
    Programs <- CppPrograms
INVARIANTS
    StatementsAreKept
CHECK_DEADLOCK FALSE
