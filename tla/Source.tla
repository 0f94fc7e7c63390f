------------------------------- MODULE Source -------------------------------
(* Programs as their authors mean them: trees, and the tokens each is        *)
(* written with, by the rules of the grammar, with parentheses by the        *)
(* precedences it declares.  The parser is measured by it.                   *)
EXTENDS Grammar, FiniteSets, FiniteSetsExt, Functions

\* What the %left lines say, from weak to tight.
DeclaredOrder == <<{"=="}, {"="}, {"%"}, {"+", "-"}, {"*", "/"}, {"instanceof"}, {"."}>>

Identifier(name) == Node("Identifier", name, <<>>)
Binary2(op, a, b) == IF op = "." THEN Node("EnumTypeName", "", <<a, b>>)
                     ELSE Node("BinaryOperator", op, <<a, b>>)

RuleSet == DOMAIN ParserRules
LhsSet  == {ParserRules[n].lhs : n \in RuleSet}
RulesFor(A) == SelectSeq(ParserRules, LAMBDA rule : rule.lhs = A)

\* The rule makes such a node: the same class and flags, and the same children.
Makes(rule, e) ==
    /\ rule.kind = e.kind
    /\ rule.text = "$1" \/ rule.text = e.text
    /\ Len(rule.parts) = Len(e.parts)
    /\ \A j \in DOMAIN rule.parts : rule.parts[j] = 0 <=> e.parts[j].kind = "nullptr"

IsList(e)      == e.kind \in {"Block", "ClassBody", "InterfaceBody", "SwitchSections",
                              "VariableList", "ExpressionList", "EnumerationBody"}
Handed(rule)   == rule.rhs[rule.parts[1]]   \* whose value a "pass" rule hands on
Brackets(rule) == rule.lhs = "expr" /\ rule.rhs = <<"(", "expr", ")">>

\* The classes of the nodes a nonterminal can stand for.
Kinds[A \in LhsSet] ==
    UNION {IF rule.kind = "pass" THEN IF Handed(rule) = A THEN {} ELSE Kinds[Handed(rule)]
           ELSE {rule.kind} \ {"append"} : rule \in Range(RulesFor(A))}
KindsOf == Kinds @@ <<>>

\* Expressions that begin and that end with an operand, and how tightly they bind;
\* 0 is no declared level.
MakerOf(e)    == SelectSeq(ParserRules, LAMBDA rule : Makes(rule, e))[1]
LeftOpen(e)   == e.kind \in KindsOf["expr"] /\ MakerOf(e).rhs[1] = "expr"
RightOpen(e)  == e.kind \in KindsOf["expr"] /\ Last(MakerOf(e).rhs) = "expr"
Assigns(e)    == e.kind = "BinaryOperator" /\ e.text = "="
IsElement(e)  == e.kind = "ArrayAccess" /\ e.parts[3] = Null
Level(e) ==
    LET op == CASE e.kind = "EnumTypeName" -> "."
                [] e.kind = "InstanceOfExpression" -> "instanceof"
                [] e.kind \in {"BinaryOperator", "UnaryExpression"} -> e.text
                [] e.kind = "ArrayAccess" /\ ~IsElement(e) -> "="
                [] OTHER -> ""
    IN  Max({0} \union {l \in DOMAIN DeclaredOrder : op \in DeclaredOrder[l]})

\* Behind the last operand of e the operator of other goes on with that operand:
\* it binds tighter, or one of the two has no level.
GoesOn(e, other) == Level(e) = 0 \/ Level(other) = 0 \/ Level(e) < Level(other)

\* Operands in a row without brackets, at the end and at the beginning of e.
RECURSIVE RightSpine(_), LeftSpine(_), NeedsBrackets(_, _, _)
RightSpine(e) ==
    {e} \union IF RightOpen(e) /\ ~NeedsBrackets(e, Last(e.parts), FALSE)
                THEN RightSpine(Last(e.parts)) ELSE {}
LeftSpine(e) ==
    {e} \union IF LeftOpen(e) /\ ~NeedsBrackets(e, e.parts[1], TRUE)
                THEN LeftSpine(e.parts[1]) ELSE {}

\* An operand of e is bracketed on the left where e's operator would go on with the
\* end of it, and an = with an element there; on the right, where an operator in it
\* would not go on with its first operand.
NeedsBrackets(e, child, isLeft) ==
    IF isLeft
    THEN \E last \in RightSpine(child) :
            (RightOpen(last) /\ GoesOn(last, e)) \/ (IsElement(last) /\ Assigns(e))
    ELSE \E first \in LeftSpine(child) : LeftOpen(first) /\ ~GoesOn(e, first)

\* The tokens of e, derived from the symbol A.
RECURSIVE Write(_, _)

\* The elements of a list, with what the rule that appends puts between them.
WriteList(rule, e) ==
    LET separator == [j \in 1..(Len(rule.rhs) - 2) |-> Node(rule.rhs[j + 1], "", <<>>)]
    IN  FlattenSeq([j \in DOMAIN e.parts |->
            (IF j = 1 THEN <<>> ELSE separator) \o Write(Last(rule.rhs), e.parts[j])])

\* The symbols of the rule that makes e, with its children.  Of a collection an
\* author writes the same type behind new, which no node keeps.
WriteNode(rule, e) ==
    LET child(j) == e.parts[CHOOSE p \in DOMAIN rule.parts :
                               rule.parts[p] \in DOMAIN rule.rhs /\ rule.rhs[rule.parts[p]] = rule.rhs[j]
                               /\ (j \in Range(rule.parts) => rule.parts[p] = j)]
        operand(j, e2) ==
            IF /\ rule.rhs[j] = "expr" /\ j \in {1, Len(rule.rhs)}
               /\ e.kind \in KindsOf["expr"] /\ NeedsBrackets(e, e2, j = 1)
            THEN <<Node("(", "", <<>>)>> \o Write("expr", e2) \o <<Node(")", "", <<>>)>>
            ELSE Write(rule.rhs[j], e2)
    IN  FlattenSeq([j \in DOMAIN rule.rhs |->
            IF rule.rhs[j] \in LhsSet THEN operand(j, child(j))
            ELSE <<Node(rule.rhs[j], IF rule.text = "$1" THEN e.text ELSE "", <<>>)>>])

\* The symbols of the rule that hands e on.
WriteHanded(rule, e) ==
    FlattenSeq([j \in DOMAIN rule.rhs |->
        IF j = rule.parts[1] THEN Write(rule.rhs[j], e) ELSE <<Node(rule.rhs[j], "", <<>>)>>])

\* By the first of the rules that makes e or, where none does, hands it on.
WriteBy(rules, e) ==
    LET appends == SelectSeq(rules, LAMBDA rule : rule.kind = "append")
        makers  == SelectSeq(rules, LAMBDA rule : Makes(rule, e))
        passes  == SelectSeq(rules, LAMBDA rule : /\ rule.kind = "pass" /\ ~Brackets(rule)
                                                  /\ e.kind \in KindsOf[Handed(rule)])
    IN  CASE IsList(e) /\ e.parts # <<>> /\ appends # <<>> -> WriteList(appends[1], e)
          [] makers # <<>> -> WriteNode(makers[1], e)
          [] OTHER         -> WriteHanded(passes[1], e)

Write(A, e) == WriteBy(RulesFor(A), e)
=============================================================================
