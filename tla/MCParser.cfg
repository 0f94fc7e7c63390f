\* The trees authors mean, and every short sequence of tokens of expressions and
\* of declarations, with stacks so short that they grow and run out.
SPECIFICATION HistorySpec
CONSTANTS
    Rules <- ParserRules
    StartSymbol <- ParserStart
    OtherTokens <- ParserOtherTokens
    Levels <- ParserLevels
    Semantic <- SemanticAction
    Asserts <- AssertionFails
    Builds <- AllBuilds
    NullTree <- Null
    YYINITDEPTH = 4
    YYMAXDEPTH = 18
    MallocMayFail = TRUE
    Sentences <- AllSentences
    Programs <- AllPrograms
    Alphabet <- ShortAlphabet
    MaxLength = 6
INVARIANTS
    MeantIsParsed
    NothingLost
    AcceptsLanguage
    FileDerived
    NodesFit
PROPERTIES
    StacksHold
    ParseEnds
CHECK_DEADLOCK FALSE
