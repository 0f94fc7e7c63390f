------------------------------ MODULE LRParser ------------------------------
(* yyparse() as bison writes it (data/yacc.c): a stack automaton driven by   *)
(* tables.  It reads a token only where the tables need one, reduces by      *)
(* default where they say so, and doubles its stacks up to YYMAXDEPTH.  As   *)
(* yyerror() of main.cpp ends the process, its error recovery is out of      *)
(* reach and left out.                                                       *)
EXTENDS LALR, Integers

CONSTANTS
    Semantic(_, _),  \* what the action of a rule makes of the values of its symbols
    Asserts(_, _),   \* whether an assertion in it fails
    Builds(_),       \* of a sequence of tokens: TRUE, if a build with assertions reads
                     \* it, and FALSE, if one without (NDEBUG)
    NullTree,
    YYINITDEPTH, YYMAXDEPTH,
    MallocMayFail,
    Sentences        \* the sequences of tokens the scanner may deliver

NoToken == [kind |-> "YYEMPTY", text |-> "", parts |-> <<>>]

AtEnd(n) == <<n, Len(Rhs(n))>>

\* In state r, behind symbol X in q, the dot has moved over X.
Leads(q, X, r) ==
    /\ r \in States \ {Initial}
    /\ \A item \in ItemsOf[r] : item[2] > 0 =>
          <<item[1], item[2] - 1>> \in ItemsOf[q] /\ Rhs(item[1])[item[2]] = X

\* The tables belong to an automaton: each transition leads where it should;
\* a rule is reduced where the dot is at its end; where the dot is at the
\* beginning of a rule, its left side leads somewhere.  The dot is at the beginning
\* of rule 0 in the initial state alone, to which nothing leads; the end of the file
\* leads to the final state alone.
TablesAssumption ==
    /\ \A n \in RuleNumbers : Len(Rhs(n)) \in Nat
    /\ EOF \in Terminals /\ StartSymbol \in Nonterminals
    /\ Terminals \intersect Nonterminals = {}
    /\ Initial \in States /\ \A item \in ItemsOf[Initial] : item[2] = 0
    /\ Tables.final \in States /\ AtEnd(0) \in ItemsOf[Tables.final]
    /\ \A q \in States :
        /\ ItemsOf[q] \subseteq RuleNumbers \X Nat
        /\ <<0, 0>> \in ItemsOf[q] => q = Initial
        /\ EOF \in DOMAIN Tables.goto[q] => Tables.goto[q][EOF] = Tables.final
        /\ \A X \in DOMAIN Tables.goto[q] : Leads(q, X, Tables.goto[q][X])
        /\ \A item \in ItemsOf[q] :
                item[1] # 0 /\ item[2] = 0 => Lhs(item[1]) \in DOMAIN Tables.goto[q]
        /\ \A t \in Terminals :
            /\ Tables.action[q][t].op = "shift" =>
                 t \in DOMAIN Tables.goto[q] /\ Tables.action[q][t].state = Tables.goto[q][t]
            /\ Tables.action[q][t].op = "reduce" =>
                 Tables.action[q][t].rule # 0 /\ AtEnd(Tables.action[q][t].rule) \in ItemsOf[q]
        /\ Tables.default[q] # 0 => AtEnd(Tables.default[q]) \in ItemsOf[q]
        /\ q \in Tables.consistent => Tables.default[q] # 0
ASSUME TablesAssumption

\* The scanner returns tokens the grammar declares; the end of the file is no
\* token of a file, and no token is YYEMPTY.
EndToken == [kind |-> EOF, text |-> "", parts |-> <<>>]
Tokens   == {EndToken} \union UNION {Range(s) : s \in Sentences}
SentencesAssumption ==
    /\ Sentences \subseteq Seq(Tokens)
    /\ \A token \in Tokens : token.kind \in Terminals /\ token # NoToken
    /\ \A s \in Sentences : \A i \in 1..Len(s) : s[i].kind # EOF
ASSUME SentencesAssumption

BuildsAssumption == \A s \in Sentences : Builds(s) \subseteq BOOLEAN
ASSUME BuildsAssumption

DepthAssumption ==
    /\ YYINITDEPTH \in Nat /\ YYMAXDEPTH \in Nat
    /\ 1 < YYINITDEPTH /\ YYINITDEPTH <= YYMAXDEPTH
ASSUME DepthAssumption

VARIABLES
    sentence,      \* history: the tokens of the file
    assertions,    \* the program has its assertions
    input,         \* those yylex has not returned yet
    yychar,        \* the lookahead: a token, or NoToken
    yyss, yyvs,    \* the stacks of states and of values
    yystacksize,   \* for how many states there is room
    label,         \* where yyparse is
    programBlock,  \* the tree
    result

vars == <<sentence, assertions, input, yychar, yyss, yyvs, yystacksize, label, programBlock, result>>

Results == {"none", "accepted", "exit -1", "aborted", "yyabort"}

Init ==
    /\ sentence \in Sentences
    /\ assertions \in Builds(sentence)
    /\ input = sentence
    /\ yychar = NoToken
    /\ yyss = <<Initial>> /\ yyvs = <<>>
    /\ yystacksize = YYINITDEPTH
    /\ label = "yysetstate"
    /\ programBlock = NullTree
    /\ result = "none"

Top == yyss[Len(yyss)]

Return(r) ==
    /\ result' = r
    /\ label' = "yyreturn"
    /\ UNCHANGED <<input, yychar, yyss, yyvs, programBlock>>

\* yyerror does not return.
yyerror == Return("exit -1") /\ UNCHANGED yystacksize

-----------------------------------------------------------------------------
\* yysetstate: a state has been pushed.

Enter(tables) ==
    IF Top = tables.final THEN Return("accepted")
    ELSE label' = "yybackup" /\ UNCHANGED <<input, yychar, yyss, yyvs, programBlock, result>>

Full == yystacksize <= Len(yyss)

SetState(tables) ==
    /\ label = "yysetstate" /\ ~Full
    /\ Enter(tables)
    /\ UNCHANGED yystacksize

Twice == IF YYMAXDEPTH < 2 * yystacksize THEN YYMAXDEPTH ELSE 2 * yystacksize

\* Seeded fault: the stacks grow beyond the limit.
GrowUnbounded(tables) ==
    /\ label = "yysetstate" /\ Full
    /\ yystacksize' = 2 * yystacksize
    /\ Enter(tables)

\* The stacks are moved to a larger block.
Grow(tables) ==
    /\ label = "yysetstate" /\ Full /\ yystacksize < YYMAXDEPTH
    /\ yystacksize' = Twice
    /\ IF Twice <= Len(yyss) THEN Return("yyabort") ELSE Enter(tables)

Exhausted ==
    /\ label = "yysetstate" /\ Full
    /\ YYMAXDEPTH <= yystacksize \/ MallocMayFail
    /\ yyerror

-----------------------------------------------------------------------------
\* yybackup: decide what to do in the state on top.

\* Seeded fault: the end of the file is forgotten once it is read.
ReadTokenForgetsEnd(tables) ==
    /\ label = "yybackup" /\ Top \notin tables.consistent /\ yychar = NoToken
    /\ IF input = <<>> THEN UNCHANGED <<yychar, input>>
       ELSE yychar' = Head(input) /\ input' = Tail(input)
    /\ UNCHANGED <<yyss, yyvs, yystacksize, label, programBlock, result>>

\* A lookahead is read if the state needs one; at the end of the input yylex
\* keeps answering EOF.
ReadToken(tables) ==
    /\ label = "yybackup" /\ Top \notin tables.consistent /\ yychar = NoToken
    /\ IF input = <<>>
       THEN yychar' = EndToken /\ UNCHANGED input
       ELSE yychar' = Head(input) /\ input' = Tail(input)
    /\ UNCHANGED <<yyss, yyvs, yystacksize, label, programBlock, result>>

Deciding(tables) == label = "yybackup" /\ (Top \in tables.consistent \/ yychar # NoToken)

\* What the tables say: of a consistent state, and of an error, the default.
Decision(tables) ==
    IF Top \notin tables.consistent /\ tables.action[Top][yychar.kind].op # "error"
    THEN tables.action[Top][yychar.kind]
    ELSE [op |-> IF tables.default[Top] = 0 THEN "error" ELSE "reduce", state |-> Top, rule |-> tables.default[Top]]

Shift(tables) ==
    /\ Deciding(tables) /\ Decision(tables).op = "shift"
    /\ yyss' = Append(yyss, Decision(tables).state)
    /\ yyvs' = Append(yyvs, yychar)
    /\ yychar' = NoToken
    /\ label' = "yysetstate"
    /\ UNCHANGED <<input, yystacksize, programBlock, result>>

\* Seeded fault: the values are counted from the wrong end.
ValuesReversed(n) == [k \in 1..Len(Rhs(n)) |-> yyvs[Len(yyvs) + 1 - k]]

\* The values of the symbols of rule n, from the top of the stack.
Values(n) == SubSeq(yyvs, Len(yyvs) - Len(Rhs(n)) + 1, Len(yyvs))

\* yyreduce, with the action of the rule and the goto.
Reduce(tables) ==
    /\ Deciding(tables) /\ Decision(tables).op = "reduce"
    /\ LET n      == Decision(tables).rule
           below  == Len(yyss) - Len(Rhs(n))
           value  == Semantic(n, Values(n))
       IN IF assertions /\ Asserts(n, Values(n)) THEN Return("aborted") /\ UNCHANGED yystacksize
          ELSE /\ yyss' = Append(SubSeq(yyss, 1, below), tables.goto[yyss[below]][Lhs(n)])
               /\ yyvs' = Append(SubSeq(yyvs, 1, below - 1), value)
               /\ programBlock' = IF Lhs(n) = StartSymbol THEN value ELSE programBlock
               /\ label' = "yysetstate"
               /\ UNCHANGED <<input, yychar, yystacksize, result>>

SyntaxError(tables) == Deciding(tables) /\ Decision(tables).op = "error" /\ yyerror

\* One value for the tables: TLC's coverage would unfold their definitions at
\* every use of their names.
Next ==
    \E tables \in {Tables} :
        /\ \/ SetState(tables) \/ Grow(tables) \/ Exhausted
           \/ ReadToken(tables)
           \/ Shift(tables) \/ Reduce(tables) \/ SyntaxError(tables)
        /\ UNCHANGED <<sentence, assertions>>

\* yyparse waits for nothing but the scanner, which reads a file.
Spec == Init /\ [][Next]_vars /\ WF_vars(Next)

-----------------------------------------------------------------------------
\* The values the variables can have.
TypeOK ==
    /\ input \in Seq(Tokens)
    /\ yychar \in Tokens \union {NoToken}
    /\ yyss \in Seq(States) /\ yyss # <<>>
    /\ yyvs \in Seq(Range(yyvs))
    /\ yystacksize \in Nat
    /\ label \in {"yysetstate", "yybackup", "yyreturn"}
    /\ result \in Results

\* There is room for every push of yyparse; the two stacks are in step; where a
\* reduction is due its symbols are on the stack, and below them a state that knows
\* its left side.
StacksFit ==
    /\ Len(yyvs) = Len(yyss) - 1
    /\ yystacksize <= YYMAXDEPTH
    /\ Len(yyss) <= yystacksize
    /\ label = "yybackup" => Len(yyss) < yystacksize
    /\ Deciding(Tables) /\ Decision(Tables).op = "reduce" =>
        LET below == Len(yyss) - Len(Rhs(Decision(Tables).rule)) IN
        below >= 1 /\ Lhs(Decision(Tables).rule) \in DOMAIN Tables.goto[yyss[below]]

\* No step of yyparse moves its stack pointers where the next one would leave the
\* stacks, or would look for a goto that is not there.  The C code checks none of
\* it where it moves them.
StacksHold == [][StacksFit']_vars
=============================================================================
