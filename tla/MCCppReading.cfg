\* The text of every tree that can be written is read by C++ as that tree.
SPECIFICATION Spec
CONSTANTS
    Rules <- CppRules
    StartSymbol <- CppStart
    OtherTokens <- CppOtherTokens
    Levels <- NoLevels
    Semantic <- CppSemantic
    Asserts <- CppAsserts
    Builds <- CppBuilds
    NullTree <- Null
    YYINITDEPTH = 200
    YYMAXDEPTH = 10000
    MallocMayFail = FALSE
    Sentences <- CppTexts
    Programs <- CppPrograms
INVARIANTS
    TextKeepsMeaning
CHECK_DEADLOCK FALSE
