----------------------------- MODULE Derivation -----------------------------
(* The steps of yyparse() as a derivation from the tokens up.  Two history   *)
(* variables record what has been shifted and reduced; no step depends on    *)
(* them.  They show what an automaton driven by tables has to do with the    *)
(* rules of the grammar, which it never looks at.                            *)
EXTENDS LRParser

VARIABLES
    phrases,  \* every token shifted and every left side reduced to, in order
    marks     \* of each value on the stack, which phrase it is the value of

history == <<phrases, marks>>

\* How far into the file the values up to the p-th reach.
Edge(p) == IF p = 0 THEN 0 ELSE phrases[marks[p]].to

\* A phrase: the tokens of the file behind from, up to to, as what rule makes of
\* the phrases parts; rule 0 stands for a token.
Note(symbol, to, rule, parts) ==
    /\ phrases' = Append(phrases,
           [symbol |-> symbol, from |-> Edge(Len(marks) - Len(parts)), to |-> to,
            value |-> yyvs'[Len(yyvs')], rule |-> rule, parts |-> parts])
    /\ marks' = Append(SubSeq(marks, 1, Len(marks) - Len(parts)), Len(phrases) + 1)

NoteToken == Note(yychar.kind, Edge(Len(marks)) + 1, 0, <<>>)

\* The last values on the stack are those of the right side.
NoteRule(n) ==
    Note(Lhs(n), Edge(Len(marks)), n,
         SubSeq(marks, Len(marks) - Len(Rhs(n)) + 1, Len(marks)))

HistoryInit == Init /\ phrases = <<>> /\ marks = <<>>

\* The steps of Next, with what a shift and a reduction add.
HistoryNext ==
    \E tables \in {Tables} :
        /\ \/ SetState(tables) /\ UNCHANGED history
           \/ Grow(tables) /\ UNCHANGED history
           \/ Exhausted /\ UNCHANGED history
           \/ ReadToken(tables) /\ UNCHANGED history
           \/ Shift(tables) /\ NoteToken
           \/ /\ Reduce(tables)
              /\ IF label' = "yyreturn" THEN UNCHANGED history ELSE NoteRule(Decision(tables).rule)
           \/ SyntaxError(tables) /\ UNCHANGED history
        /\ UNCHANGED <<sentence, assertions>>

\* The history is written in whatever step yyparse takes, and keeps it from none.
HistorySpec == HistoryInit /\ [][HistoryNext]_<<vars, history>> /\ WF_vars(Next)

-----------------------------------------------------------------------------
(* What a derivation is.                                                     *)

\* Phrase i of found is the next token of text.
IsToken(text, found, i) ==
    /\ found[i].rule = 0 /\ found[i].to = found[i].from + 1
    /\ found[i].to \in 1..Len(text) /\ found[i].value = text[found[i].to]
    /\ found[i].symbol = found[i].value.kind

\* The values of the parts of phrase i.
PartValues(found, i) == [k \in 1..Len(found[i].parts) |-> found[found[i].parts[k]].value]

\* Phrase i of found is the left side of a rule, its parts are phrases found before
\* it, of the symbols of the right side, side by side; and its value is what the
\* action of the rule makes of theirs.
FollowsRule(found, i) ==
    LET phrase == found[i]
        parts  == phrase.parts
        reach(k) == IF k = 0 THEN phrase.from ELSE found[parts[k]].to
    IN  /\ phrase.rule \in RuleNumbers \ {0}
        /\ phrase.symbol = Lhs(phrase.rule)
        /\ Len(parts) = Len(Rhs(phrase.rule))
        /\ \A k \in 1..Len(parts) :
             /\ parts[k] \in 1..(i - 1)
             /\ found[parts[k]].symbol = Rhs(phrase.rule)[k]
             /\ found[parts[k]].from = reach(k - 1)
        /\ phrase.to = reach(Len(parts))
        /\ phrase.value = Semantic(phrase.rule, PartValues(found, i))

IsDerivation(text, found) ==
    \A i \in 1..Len(found) : IsToken(text, found, i) \/ FollowsRule(found, i)

\* The action that made the value of phrase i asserts on those of its parts.
Asserted(found, i) == found[i].rule # 0 /\ Asserts(found[i].rule, PartValues(found, i))
NoneAsserted(found) == \A i \in 1..Len(found) : ~Asserted(found, i)

\* The file, with its end.
Text == Append(sentence, EndToken)

\* A file that is accepted is derived from the start symbol by the rules of the
\* grammar, every token of it and in its order, and the tree is what the actions
\* of the rules make of that derivation: the tables, their default reductions and
\* resolved conflicts (yacc.c 1485-1890) let nothing else through.  With assertions
\* none of these actions asserts on what it is given.
FileDerived ==
    result = "accepted" =>
        /\ IsDerivation(Text, phrases)
        /\ assertions => NoneAsserted(phrases)
        /\ \E i \in 1..Len(phrases) :
             /\ phrases[i].symbol = StartSymbol /\ phrases[i].value = programBlock
             /\ phrases[i].from = 0 /\ phrases[i].to = Len(sentence)
=============================================================================
