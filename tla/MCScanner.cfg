\* All short texts over the characters of comments, of literals, of words.
SPECIFICATION Spec
CONSTANTS
    Keywords <- If
    Texts <- ShortTexts
INVARIANTS
    TypeOK
    LinesCounted
    CommentsClose
    NothingSkipped
PROPERTIES
    ScanEnds
CHECK_DEADLOCK FALSE
