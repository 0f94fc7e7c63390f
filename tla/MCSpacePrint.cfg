SPECIFICATION Spec
CONSTANTS
    Texts <- ShortTexts
    MaxWidth = 4
    Indents = {0, 1}
    Offsets = {0, 1}
INVARIANTS
    LinesFit
    TextKept
    WordsKept
PROPERTIES
    Returns
CHECK_DEADLOCK FALSE
