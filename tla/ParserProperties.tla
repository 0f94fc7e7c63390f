-------------------------- MODULE ParserProperties --------------------------
(* What yyparse() makes of the grammar: measured by the trees authors mean   *)
(* (Source), and by the language the rules derive.                           *)
EXTENDS Source, NodeTyping

CONSTANTS
    Programs,   \* trees, each written as one of the sentences
    Alphabet,   \* the kinds of tokens of the short sentences
    MaxLength   \* no short sentence is longer

\* Each program, with how it is written.
Written == {<<t, Write("program", t)>> : t \in Programs}
WrittenSentences == {w[2] : w \in Written}

Ended == label = "yyreturn"
OutOfMemory == result = "exit -1" /\ Full   \* no syntax error: the stacks cannot grow

\* A program written as its author means it (Source), with parentheses wherever the
\* declared precedences (parser.y 90-97) would bind otherwise, and none where an
\* operator has no precedence and the one behind simply goes into its last operand,
\* is accepted and read as exactly that tree: none of the conflicts bison resolved
\* silently (dangling else, {} as a body or as none, operators without a level, an
\* element or an assignment to it) reads it as something else.  With no memory left
\* it is refused, never cut short.
MeantIsParsed ==
    Ended /\ sentence \in WrittenSentences =>
        \/ OutOfMemory
        \/ result = "accepted" /\ \A w \in Written : w[2] = sentence => programBlock = w[1]

\* What the actions drop: parentheses, a comma before the first argument, and the
\* type of the elements behind new (parser.y 473-484).
Dropped(tokens, j) ==
    \/ tokens[j].kind \in {"(", ")"}
    \/ tokens[j].kind = "," /\ tokens[j - 1].kind = "("
    \/ \E i \in 1..(j - 2) :
          /\ tokens[i].kind = "TNEW" /\ tokens[i + 1].kind \in {"LIST", "BAG", "SET", "ARRAY"}
          /\ \A k \in i..j : tokens[k].kind # "("
Kept(tokens) ==
    LET places == SelectSeq([j \in DOMAIN tokens |-> j], LAMBDA j : ~Dropped(tokens, j)) IN
    [k \in DOMAIN places |-> tokens[places[k]]]

\* Whatever is accepted, the tree holds every token that was read, once and in
\* the order of the file, but for what Dropped names: no list loses or repeats an
\* element, no word before a declaration goes to another one (the default actions of
\* yacc.c 1641 and the assignments of the actions).  NoneAsserted: see NodesFit.
NothingLost ==
    result = "accepted" /\ NoneAsserted(phrases) =>
        Kept(Write("program", programBlock)) = Kept(sentence)

\* The kinds of node that a nonterminal's values are of: what its rules make, and
\* what those of the nonterminals they hand on are.
RECURSIVE MadeFrom(_)
MadeFrom(kinds) ==
    LET more == [A \in LhsSet |-> UNION {
            CASE ParserRules[n].kind = "pass"   -> kinds[ParserRules[n].rhs[ParserRules[n].parts[1]]]
              [] ParserRules[n].kind = "append" -> {}
              [] OTHER -> {ParserRules[n].kind} : n \in {m \in RuleSet : ParserRules[m].lhs = A}}]
    IN  IF more = kinds THEN kinds ELSE MadeFrom(more)
ParserKinds == MadeFrom([A \in LhsSet |-> {}])

\* Of the actions of parser.y each, by itself, makes nodes that fit.
ASSUME ParserActionsAreTyped == ActionsTyped(ParserKinds)

-----------------------------------------------------------------------------
\* The language of the rules, up to a length: a reference for the tables, built
\* from the rules without an automaton.

\* The sequences that rhs derives, given those of each nonterminal.
Concatenations(rhs, known) ==
    FoldSeq(LAMBDA X, found :
                {s \in {u \o v : u \in IF X \in LhsSet THEN known[X] ELSE {<<X>>}, v \in found} :
                    Len(s) <= MaxLength},
            {<<>>}, rhs)

RECURSIVE Derivable(_, _)
Derivable(known, alphabet) ==
    LET usable == {n \in RuleSet : Range(ParserRules[n].rhs) \subseteq LhsSet \union alphabet}
        more == [A \in LhsSet |->
                    UNION {Concatenations(ParserRules[n].rhs, known) : n \in {m \in usable : ParserRules[m].lhs = A}}]
    IN  IF more = known THEN known ELSE Derivable(more, alphabet)

Language == Derivable([A \in LhsSet |-> {}], Alphabet)["program"]

KindsIn(tokens) == [j \in DOMAIN tokens |-> tokens[j].kind]

\* Of the short sentences the parser accepts exactly those the rules derive:
\* default reductions, the merged lookaheads and the resolved conflicts refuse no
\* program (but for want of memory) and let none through.
AcceptsLanguage ==
    Ended /\ Len(sentence) <= MaxLength /\ Range(KindsIn(sentence)) \subseteq Alphabet =>
        /\ result = "accepted" => KindsIn(sentence) \in Language
        /\ KindsIn(sentence) \in Language => result = "accepted" \/ OutOfMemory

-----------------------------------------------------------------------------
\* yyparse returns whatever the file holds: no chain of default reductions goes
\* round in circles, and at the end of the file it does not wait for more.
ParseEnds == <>Ended
=============================================================================
