------------------------------ MODULE MCParser ------------------------------
(* The trees as their authors write them, and short sequences of tokens.     *)
EXTENDS Trees, ParserProperties

WrittenPrograms == {Write("program", t) : t \in AllPrograms}

\* All short sequences over a few tokens.
Token(kind) == Node(kind, "", <<>>)
Name(text)  == Node("TIDENIFIER", text, <<>>)
ExpressionTokens == {Name("a"), Token("-"), Token("("), Token(")"), Token(";")}
DeclarationTokens == {Name("a"), Token("="), Token("["), Token("]"),
                      Token("{"), Token("}"), Token(";")}
AllSequences(tokens, length) == UNION {[1..n -> tokens] : n \in 0..length}
ShortSequences == AllSequences(ExpressionTokens, 6) \union AllSequences(DeclarationTokens, 5)
ShortAlphabet == {token.kind : token \in ExpressionTokens \union DeclarationTokens}

\* What the trees do not tell: types that differ on the two sides of a new collection,
\* and a comma before the first argument.
Forgetful == {
    <<Token("LIST"), Token("<"), Name("a"), Token(">"), Name("a"), Token("="), Token("TNEW"),
      Token("LIST"), Token("<"), Name("b"), Token(">"), Token("("), Token(")"), Token(";")>>,
    <<Name("a"), Token("("), Token(","), Name("b"), Token(")"), Token(";")>>,
    <<Name("T"), Name("a"), Token("("), Token(","), Name("T"), Name("b"), Token(")"), Token("{"), Token("}")>>}

\* A character the scanner lets through and the action of char_literal does not know.
Newline == Node("CHRLIT", "\\n", <<>>)
Escaped == {<<Newline, Token(";")>>, <<Name("a"), Token("="), Newline, Token(";")>>}

AllSentences == WrittenPrograms \union ShortSequences \union Forgetful \union Escaped

\* Of all actions that of char_literal alone asserts; other files are read alike.
AllBuilds(text) == IF \E i \in DOMAIN text : text[i].kind = "CHRLIT" THEN BOOLEAN ELSE {TRUE}
=============================================================================
