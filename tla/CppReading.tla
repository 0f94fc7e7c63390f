----------------------------- MODULE CppReading -----------------------------
(* How C++ reads what CppTransform writes: a parser of the C++ that occurs   *)
(* in it, and the tree it reads compared with the tree that was written.     *)
EXTENDS Rendering, Trees, CppGrammar, LRParser

CONSTANT Programs   \* the trees that are written

-----------------------------------------------------------------------------
\* The scanner of C++ takes the longest token: two signs in a row are one.
Glued(pieces) ==
    FoldLeft(LAMBDA read, piece :
                IF piece.kind \in {"+", "-"} /\ read # <<>> /\ Last(read).kind = piece.kind
                THEN Append(Front(read), Node(piece.kind \o piece.kind, "", <<>>))
                ELSE Append(read, piece),
             <<>>, pieces)

\* Each program, with its text.
CppText == {<<t, Glued(Accept(t))>> : t \in Programs}

-----------------------------------------------------------------------------
\* What C++ should read: the tree, with the nodes C++ has no word for replaced.

BodiesOf(e) == CASE e.kind \in {"IfStatement"} -> {2, 3}
                 [] e.kind = "ForStatement" -> {4}
                 [] e.kind = "WhileStatement" -> {2}
                 [] e.kind = "DoWhileStatement" -> {1}
                 [] OTHER -> {}

RECURSIVE Meant(_)
Meant(e) ==
    LET plain == [e EXCEPT !.parts = [j \in DOMAIN e.parts |-> Meant(e.parts[j])]]
        body(j) == LET s == plain.parts[j] IN
                   CASE s.kind = "Block" -> s
                     [] s = Null -> IF e.kind = "IfStatement" THEN Null ELSE BlockOf(<<>>)
                     [] OTHER    -> BlockOf(<<s>>)
    IN  CASE BodiesOf(e) # {} ->
                [plain EXCEPT !.parts = [j \in DOMAIN e.parts |-> IF j \in BodiesOf(e) THEN body(j) ELSE @[j]]]
          [] e.kind = "ArrayAccess" /\ e.parts[3] # Null ->
                Binary2("=", [plain EXCEPT !.parts[3] = Null], plain.parts[3])
          [] e.kind = "ClassArray" -> [plain EXCEPT !.kind = "ClassVariable"]
          [] e.kind = "SwitchStatement" /\ e.parts[2] = Null ->
                [plain EXCEPT !.parts[2] = Node("SwitchSections", "", <<>>)]
          [] e.kind = "InterfaceDeclaration" /\ e.parts[2] = Null ->
                Node("ClassDeclaration", "", <<plain.parts[1], Null, Null>>)
          [] OTHER -> plain

\* The operators of C++, the weakest first.
CppOrder == <<{"=", "+=", "*=", "?"}, {"==", "!=", "instanceof"}, {"<", ">", ">="}, {"+", "-"}, {"*", "/", "%"},
              {"unary"}, {"->"}>>
CppLevelOf(e) ==
    LET op == CASE e.kind \in {"BinaryOperator", "Assignment"} -> e.text
                [] e.kind = "TrinaryExpression" -> "?"
                [] e.kind = "InstanceOfExpression" -> "instanceof"
                [] e.kind \in {"UnaryExpression", "PrefixExpression"} -> "unary"
                [] e.kind = "ArrayAccess" /\ e.parts[3] # Null -> "="
                [] e.kind \in {"EnumTypeName", "PostfixExpression"} -> "->"
                [] OTHER -> ""
    IN  IF op = "" THEN 8 ELSE CHOOSE l \in DOMAIN CppOrder : op \in CppOrder[l]

\* An operand that C++ binds to e only with parentheses around it.
NeedsParentheses(e) ==
    LET weaker(j, level) == CppLevelOf(e.parts[j]) < level
        own == CppLevelOf(e)
    IN  CASE own = 1 /\ e.kind = "ArrayAccess" -> FALSE
          [] own = 1 /\ e.kind # "TrinaryExpression" -> weaker(1, 2)
          [] e.kind = "TrinaryExpression" -> weaker(1, 2)
          [] e.kind = "InstanceOfExpression" -> weaker(1, 7)
          [] e.kind = "UnaryExpression" -> weaker(1, 6)
          [] e.kind = "BinaryOperator" -> weaker(1, own) \/ weaker(2, own + 1)
          [] e.kind = "EnumTypeName" -> weaker(1, 7) \/ weaker(2, 8)
          [] OTHER -> FALSE

\* A sign before an operand that begins with the same one.
SignsMeet(e) == /\ e.kind \in {"UnaryExpression", "BinaryOperator"}
                /\ Accept(Last(e.parts))[1] = Piece(e.text)[1]

\* A body that is a statement without its own semicolon, outside a block.
Unclosed(e) == \E j \in BodiesOf(e) :
    e.parts[j].kind \in {"BreakStatement", "ContinueStatement", "VariableDeclaration"}

\* The first part of a for that brings a semicolon of its own.
ClosedTwice(e) == e.kind = "ForStatement" /\ e.parts[1].kind \in {"ExpressionStatement", "ArrayDeclaration"}

\* A block in a block: only those who visit a body write braces.
Unbraced(e) == e.kind = "Block" /\ \E j \in DOMAIN e.parts : e.parts[j].kind = "Block"

\* What the visits cannot write, or write as something else.
HasQualifier(e, i, qualifiers) ==
    \E j \in DOMAIN e.parts[i].parts :
        LET p == e.parts[i].parts[j] IN p.text \in qualifiers \/ p.kind = "ArrayDeclaration"
Unwritten(e) ==
    \/ e.kind = "NewExpression" /\ e.parts[1].kind # "MethodOrFunctionCall"
    \/ e.kind \in {"CollectionVariableDeclaration", "CollectionParamterDeclaration"} /\ e.text \notin {"", "List"}
    \/ e.kind = "FunctionDeclaration" /\ (HasQualifier(e, 3, {"const"}) \/ e.text # "")
    \/ e.kind = "InterfaceMethod" /\ HasQualifier(e, 3, {"ref"})
    \/ e.kind = "MethodDeclaration" /\ (HasQualifier(e, 4, {}) \/ e.text \in {"+", "-", "*", "ref []"})
    \/ e.kind = "CtorDeclaration" /\ HasQualifier(e, 3, {})
    \/ HasDeferred(e)
    \/ e.kind = "ClassVariable" /\ e.parts[2].kind = "CollectionVariableDeclaration"
    \/ e.kind \in {"ImportStatement", "ModuleStatement"}

RECURSIVE Somewhere(_, _)
Somewhere(Is(_), e) == Is(e) \/ \E j \in DOMAIN e.parts : Somewhere(Is, e.parts[j])

\* What C++ reads as something else, by the reason, and all else.
Having(Is(_))      == {t \in Programs : Somewhere(Is, t)}
NeedingParentheses == Having(NeedsParentheses)
WithSignsMeeting   == Having(SignsMeet) \ NeedingParentheses
Inexpressible      == Having(Unwritten)
Expressible ==
    Programs \ (NeedingParentheses \union WithSignsMeeting \union Having(Unclosed) \union Having(ClosedTwice)
                \union Having(Unbraced) \union Inexpressible)

ReadAsMeant(programs) ==
    label = "yyreturn" =>
        \A w \in CppText : w[2] = sentence /\ w[1] \in programs => result = "accepted" /\ programBlock = Meant(w[1])

\* C++ reads in the text the program that was written: every statement keeps its
\* bodies and its end, every operator its operands.
TextKeepsMeaning == ReadAsMeant(Expressible)
-----------------------------------------------------------------------------
(* What the grammar of the language and the examples say, and the text does  *)
(* not keep.                                                                 *)


\* Any <stmt> is a branch of an if (Grammar.tex 44) and stands in a block: a
\* <block> (27) or a var_decl ';' (19), for example.
StatementsAreKept == ReadAsMeant((Having(Unclosed) \union Having(Unbraced)) \ (Having(ClosedTwice) \union Inexpressible))
=============================================================================
