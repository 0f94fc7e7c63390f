------------------------------ MODULE Scanner -------------------------------
(* yylex() as flex makes it of tokens.l: of the patterns of the current      *)
(* start condition that match at this place, the one with the longest match  *)
(* acts, the first in the file on a tie.  The functions of one run of yylex  *)
(* after the other; what happens between them is the parser's.               *)
EXTENDS Naturals, Sequences, FiniteSets, Functions, TLC

CONSTANTS
    Keywords,  \* the words with a token of their own: [spelling -> token]
    Texts      \* the files, as sequences of characters

ASSUME TextsAssumption == \A t \in Texts : t \in Seq(Range(t))

VARIABLES
    text,       \* the file behind yyin
    position,   \* how much of it is consumed
    condition,  \* the start condition
    line_num,
    tokens,     \* history: the tokens returned, with their places and lines
    opened,     \* history: where the last comment began
    done        \* yylex has returned end of file

vars == <<text, position, condition, line_num, tokens, opened, done>>

-----------------------------------------------------------------------------
\* Patterns, of a sequence of characters w.

Letters == {"a", "f", "i", "x", "_"}   \* those of the model; [a-zA-Z_]
Digits  == {"0", "1"}
Blanks  == {" ", "\t"}

All(w, from, to, S) == \A j \in from..to : w[j] \in S
No(w, from, to, c)  == \A j \in from..to : w[j] # c

Operators ==
    [w \in {<<c>> : c \in {"=", "<", ">", "?", "[", "]", "{", "}", "(", ")",
                           ";", ".", ":", ",", "+", "-", "*", "/", "%", "!"}} |-> w[1]]
    @@ <<"=", "=">> :> "EQ"    @@ <<"!", "=">> :> "NOTEQ"
    @@ <<"<", "=">> :> "LE"    @@ <<">", "=">> :> "GE"
    @@ <<"+", "=">> :> "ADDEQ" @@ <<"-", "=">> :> "SUBEQ" @@ <<"*", "=">> :> "MULEQ"
    @@ <<"/", "=">> :> "DIVEQ" @@ <<"%", "=">> :> "MODEQ"
    @@ <<"+", "+">> :> "PLUSPLUS" @@ <<"-", "-">> :> "MINUSMINUS"

IsDouble(w) ==
    \E k \in 2..Len(w) : All(w, 1, k - 1, Digits) /\ w[k] = "." /\ All(w, k + 1, Len(w), Digits)

\* \"(\\.|[^"])*\": a quote inside follows a backslash.  A backslash stands for
\* itself as well, a newline is like any other character.
IsString(w) ==
    /\ Len(w) >= 2 /\ w[1] = "\"" /\ w[Len(w)] = "\""
    /\ \A j \in 2..(Len(w) - 1) : w[j] = "\"" => j > 2 /\ w[j - 1] = "\\"

IsChar(w) ==
    /\ Len(w) \in {3, 4} /\ w[1] = "'" /\ w[Len(w)] = "'"
    /\ IF Len(w) = 3 THEN w[2] \notin {"'", "\\", "\n"} ELSE w[2] = "\\" /\ w[3] # "\n"

\* "//"[^\r\n]*
\* Seeded fault: the newline is not excluded.
IsLineCommentOverLines(w) ==
    Len(w) >= 2 /\ w[1] = "/" /\ w[2] = "/" /\ No(w, 3, Len(w), "\r")
IsLineComment(w) ==
    Len(w) >= 2 /\ w[1] = "/" /\ w[2] = "/" /\ No(w, 3, Len(w), "\r") /\ No(w, 3, Len(w), "\n")

\* What is in a comment, but a star.
\* Seeded fault: a chunk goes over the end of the line.
IsChunkOverLines(w) == No(w, 1, Len(w), "*")
IsChunk(w) == No(w, 1, Len(w), "*") /\ No(w, 1, Len(w), "\n")

\* Seeded fault: a star takes the character behind it along.
IsStarAndMore(w) == w[1] = "*" /\ (Len(w) = 2 => w[2] # "/") /\ Len(w) <= 2
IsStar(w) == w = <<"*">>

\* The patterns in the order of the file.
Patterns == <<"keyword", "blank", "newline", "identifier", "double", "float", "integer",
              "line comment", "open comment", "close comment", "chunk", "star", "comment newline",
              "operator", "char", "string", "unknown">>
OfComments == {"close comment", "chunk", "star", "comment newline"}

Matches(p, w) ==
    \/ p = "keyword"         /\ w \in DOMAIN Keywords
    \/ p = "blank"           /\ Len(w) = 1 /\ w[1] \in Blanks
    \/ p = "newline"         /\ w = <<"\n">>
    \/ p = "identifier"      /\ w[1] \in Letters /\ All(w, 2, Len(w), Letters \union Digits)
    \/ p = "double"          /\ IsDouble(w)
    \/ p = "float"           /\ w[Len(w)] = "f" /\ IsDouble(SubSeq(w, 1, Len(w) - 1))
    \/ p = "integer"         /\ All(w, 1, Len(w), Digits)
    \/ p = "line comment"    /\ IsLineComment(w)
    \/ p = "open comment"    /\ w = <<"/", "*">>
    \/ p = "close comment"   /\ w = <<"*", "/">>
    \/ p = "chunk"           /\ IsChunk(w)
    \/ p = "star"            /\ IsStar(w)
    \/ p = "comment newline" /\ w = <<"\n">>
    \/ p = "operator"        /\ w \in DOMAIN Operators
    \/ p = "char"            /\ IsChar(w)
    \/ p = "string"          /\ IsString(w)
    \/ p = "unknown"         /\ Len(w) = 1 /\ w[1] # "\n"

TokenOf(p, w) ==
    CASE p = "keyword"    -> Keywords[w]
      [] p = "identifier" -> "TIDENIFIER"
      [] p = "double"     -> "DOUBLE_LITERAL"
      [] p = "float"      -> "FLOAT_LITERAL"
      [] p = "integer"    -> "INTEGER_LITERAL"
      [] p = "operator"   -> Operators[w]
      [] p = "char"       -> "CHRLIT"
      [] p = "string"     -> "TSTRING"

Returning == {"keyword", "identifier", "double", "float", "integer", "operator", "char", "string"}

-----------------------------------------------------------------------------
\* The next n characters.
Lexeme(n) == SubSeq(text, position + 1, position + n)

\* Pattern number k of this start condition matches them.
Candidate(k, n) ==
    /\ Patterns[k] \in OfComments <=> condition = "IN_COMMENT"
    /\ Matches(Patterns[k], Lexeme(n))

\* The match flex decides for.
Best(k, n) ==
    /\ Candidate(k, n)
    /\ \A j \in 1..Len(Patterns), m \in 1..(Len(text) - position) :
        Candidate(j, m) => m < n \/ (m = n /\ k <= j)

\* Seeded fault: the first line is number 0.
InitCountsFromZero ==
    /\ text \in Texts /\ position = 0 /\ condition = "INITIAL" /\ line_num = 0
    /\ tokens = <<>> /\ opened = 0 /\ done = FALSE

Init ==
    /\ text \in Texts
    /\ position = 0
    /\ condition = "INITIAL"
    /\ line_num = 1
    /\ tokens = <<>>
    /\ opened = 0
    /\ done = FALSE

\* What the action of a pattern does.
Act(p, n) ==
    \/ /\ p \in {"blank", "line comment", "chunk", "star"}
       /\ UNCHANGED <<condition, line_num, tokens, opened, done>>
    \/ /\ p \in {"newline", "comment newline"}
       /\ line_num' = line_num + 1
       /\ UNCHANGED <<condition, tokens, opened, done>>
    \/ /\ p = "open comment"
       /\ condition' = "IN_COMMENT" /\ opened' = position + 1
       /\ UNCHANGED <<line_num, tokens, done>>
    \/ /\ p = "close comment"
       /\ condition' = "INITIAL"
       /\ UNCHANGED <<line_num, tokens, opened, done>>
    \/ /\ p \in Returning
       /\ tokens' = Append(tokens, [kind |-> TokenOf(p, Lexeme(n)), text |-> Lexeme(n),
                                    first |-> position + 1, last |-> position + n, line |-> line_num])
       /\ UNCHANGED <<condition, line_num, opened, done>>
    \/ /\ p = "unknown"   \* yyterminate()
       /\ done' = TRUE
       /\ UNCHANGED <<condition, line_num, tokens, opened>>

Match ==
    /\ ~done
    /\ \E k \in 1..Len(Patterns), n \in 1..(Len(text) - position) :
        /\ Best(k, n)
        /\ position' = position + n
        /\ Act(Patterns[k], n)
    /\ UNCHANGED text

\* Seeded fault: an open comment waits for its end.
EndOfFileOutsideComment ==
    /\ ~done /\ position = Len(text) /\ condition = "INITIAL"
    /\ done' = TRUE
    /\ UNCHANGED <<text, position, condition, line_num, tokens, opened>>

\* The end of the file ends a comment too.
EndOfFile ==
    /\ ~done /\ position = Len(text)
    /\ done' = TRUE
    /\ UNCHANGED <<text, position, condition, line_num, tokens, opened>>

Next == Match \/ EndOfFile

\* yylex waits for nothing but the file.
Spec == Init /\ [][Next]_vars /\ WF_vars(Next)

-----------------------------------------------------------------------------
TypeOK ==
    /\ position \in 0..Len(text)
    /\ condition \in {"INITIAL", "IN_COMMENT"}
    /\ line_num \in Nat \ {0}
    /\ tokens \in Seq(Range(tokens))
    /\ \A t \in Range(tokens) : t.first \in Nat /\ t.last \in 0..position /\ t.line \in Nat
    /\ opened \in 0..position
    /\ done \in BOOLEAN

InToken(i) == \E t \in Range(tokens) : t.first <= i /\ i <= t.last

\* line_num, which yyerror() prints, has counted every newline of the file up
\* to here, in comments of both kinds too; only those inside a token (a string
\* that goes over several lines) are not counted.
LinesCounted ==
    line_num = 1 + Cardinality({i \in 1..position : text[i] = "\n" /\ ~InToken(i)})

\* A comment ends at the first */ behind its /*, whatever stars precede it: as
\* long as one is open, none has been read.
CommentsClose ==
    condition = "IN_COMMENT" =>
        \A i \in (opened + 2)..(position - 1) : ~(text[i] = "*" /\ text[i + 1] = "/")

Pair(i, c, d) == i < Len(text) /\ text[i] = c /\ text[i + 1] = d

\* A comment began at k and position i belongs to it.
InComment(k, i) ==
    \/ Pair(k, "/", "/") /\ \A j \in k..i : text[j] # "\n"
    \/ Pair(k, "/", "*") /\ \A j \in (k + 2)..(i - 2) : ~Pair(j, "*", "/")

\* What is passed over without a token is blank or in a comment; nothing of the
\* program itself gets lost.
NothingSkipped ==
    ~done => \A i \in 1..position :
        \/ InToken(i)
        \/ text[i] \in Blanks \union {"\n"}
        \/ \E k \in 1..i : ~InToken(k) /\ InComment(k, i)

\* Whatever the file holds, an open string, character or comment included,
\* yylex comes to the end of it.
ScanEnds == <>done
=============================================================================
