SPECIFICATION Spec
CONSTANTS
    ArgObjects <- AllArgs
    HelpAndVersion = TRUE
    Reads <- AllReads
    Setups <- AllSetups
    CommandLines <- AllCommandLines
    MaxParses = 2
INVARIANTS
    TypeOK
    AcceptedIsComplete
    WordsAccountedFor
    MetOnce
    CompleteIsAccepted
    UsageNamesEachArg
PROPERTIES
    ParseEnds
CHECK_DEADLOCK FALSE
