----------------------------- MODULE MCScanner ------------------------------
EXTENDS Scanner

\* One keyword stands for all.
If == <<"i", "f">> :> "IF"

Over(characters, length) == UNION {[1..n -> characters] : n \in 0..length}

\* Comments; strings and character literals; numbers, words and operators.
ShortTexts ==
    Over({"/", "*", "\n", "x"}, 6)
    \union Over({"\"", "\\", "\n", "x", "'"}, 5)
    \union Over({"i", "f", "0", ".", "=", "+", "#"}, 4)
=============================================================================
