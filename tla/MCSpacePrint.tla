---------------------------- MODULE MCSpacePrint ----------------------------
EXTENDS SpacePrint

\* All texts of up to six characters, on lines of four.
ShortTexts == UNION {[1..n -> Char] : n \in 0..6}
=============================================================================
