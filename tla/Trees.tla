-------------------------------- MODULE Trees --------------------------------
(* Trees of every class the grammar builds.                                  *)
EXTENDS Source

a == Identifier("a")
b == Identifier("b")
T == Identifier("T")
Leaf2(kind, text) == Node(kind, text, <<>>)
Statement(e) == Node("ExpressionStatement", "", <<e>>)
BlockOf(s)   == Node("Block", "", s)

\* Expressions: operators of all levels, and of none, in each other.
Operators == {"*", "=", "-", ".", "<"}
Shallow   == {a} \union {Binary2(op, a, b) : op \in Operators}
Nested    == Shallow \union {Binary2(op, l, r) : op \in Operators, l \in Shallow, r \in Shallow}
Others ==
    {Node("UnaryExpression", "!", <<a>>), Node("NewExpression", "", <<T>>),
     Node("NewExpression", "", <<Node("NewExpression", "", <<T>>)>>),
     Leaf2("NullExpr", ""), Leaf2("ThisExpr", ""), Leaf2("String", "s"), Leaf2("Char", "'c'"),
     Leaf2("Integer", "1"), Leaf2("Float", "1f"), Leaf2("Double", "1.0"),
     Node("Assignment", "+=", <<a, b>>), Node("PrefixExpression", "++", <<a>>),
     Node("PostfixExpression", "--", <<a>>), Node("ArrayAccess", "", <<a, b, Null>>),
     Node("ArrayAccess", "", <<a, b, b>>), Node("CastExpression", "", <<T, a>>),
     Node("InstanceOfExpression", "", <<a, T>>), Node("TrinaryExpression", "", <<a, b, a>>)}
    \union {Node("MethodOrFunctionCall", "", <<a, Node("ExpressionList", "", args)>>) :
            args \in {<<>>, <<a>>, <<a, Binary2("-", a, b)>>}}

\* Operands, those of no level and those that begin with a sign or a word among them.
Operands ==
    {a, Node("UnaryExpression", "-", <<a>>), Node("UnaryExpression", "!", <<a>>),
     Node("NewExpression", "", <<T>>), Node("TrinaryExpression", "", <<a, b, a>>),
     Node("ArrayAccess", "", <<a, b, Null>>), Node("ArrayAccess", "", <<a, b, b>>),
     Node("Assignment", "+=", <<a, b>>), Node("InstanceOfExpression", "", <<a, T>>)}
    \union {Binary2(op, a, b) : op \in {"==", "=", "%", "+", "*", ".", "<"}}
Mixed ==
    UNION {{Binary2(op, l, r), Node("Assignment", "*=", <<l, r>>)} :
           op \in {"==", "=", "+", "*", ".", ">"}, l \in Operands, r \in Operands}
    \union UNION {{Node("UnaryExpression", "-", <<e>>), Node("UnaryExpression", "!", <<e>>),
                   Node("NewExpression", "", <<e>>), Node("InstanceOfExpression", "", <<e, T>>),
                   Node("ArrayAccess", "", <<a, e, e>>),
                   Node("TrinaryExpression", "", <<e, e, e>>)} : e \in Operands}

\* Declarations.
Variable(flags, value) == Node("VariableDeclaration", flags, <<T, a, value>>)
Parameters == {Node("VariableList", "", ps) :
               ps \in {<<>>, <<Variable("", Null)>>,
                       <<Variable("ref", Null), Node("ArrayDeclaration", "", <<T, a, Null>>)>>}}
Plain    == Node("CollectionParamterDeclaration", "", <<T>>)
Declarations ==
    {Variable("", Null), Variable("", b), Variable("ref", b), Variable("const", Binary2("-", a, b)),
     Node("ArrayDeclaration", "", <<T, a, Null>>),
     Node("ArrayDeclaration", "", <<T, a, Node("ArrayCreationExpression", "", <<T, b>>)>>)}
    \union {Node("CollectionVariableDeclaration", of, <<p, a>>) :
            of \in {"List", "Array"}, p \in {Plain, Node("CollectionParamterDeclaration", "Set", <<Plain>>)}}

\* Statements: with bodies that are a block, empty, or a single statement.  Behind
\* for and while {} is no body, and with none they are written so.
Sa == Statement(a)
Bodies == {BlockOf(<<>>), BlockOf(<<Sa, Sa>>), Sa, Variable("", Null)}
Labels == {Node("SwitchLabel", "Case", <<b>>), Node("SwitchLabel", "Default", <<Null>>)}
Compound ==
    {Node("IfStatement", "", <<a, s, Null>>) : s \in Bodies}
    \union {Node("IfStatement", "", <<a, s, t>>) : s \in Bodies, t \in Bodies}
    \union {Node("IfStatement", "", <<a, Node("IfStatement", "", <<b, Sa, Sa>>), e>>) : e \in {Null, Sa}}
    \union {Node("ForStatement", "", <<i, a, Node("PostfixExpression", "++", <<a>>), s>>) :
            i \in {Sa, Variable("", b)}, s \in (Bodies \union {Null}) \ {BlockOf(<<>>)}}
    \union {Node("WhileStatement", "", <<a, Null>>)}
    \union {Node("DoWhileStatement", "", <<s, b>>) : s \in {Null, BlockOf(<<Sa>>)}}
    \union {Node("SwitchStatement", "", <<a, s>>) :
            s \in {Null} \union {Node("SwitchSections", "", <<Node("SwitchSection", "", <<l, BlockOf(<<Sa, Leaf2("BreakStatement", "")>>)>>),
                                                            Node("SwitchSection", "", <<m, BlockOf(<<Sa>>)>>)>>) :
                                 l \in Labels, m \in Labels}}
    \union {Node("FunctionDeclaration", f, <<T, a, ps, BlockOf(<<Sa>>)>>) : f \in {"", "+"}, ps \in Parameters}
Simple ==
    {Leaf2("BreakStatement", ""), Leaf2("ContinueStatement", ""), Node("ReturnStatement", "", <<Null>>),
     Node("ReturnStatement", "", <<a>>), Node("ThrowStatement", "", <<a>>),
     Node("ImportStatement", "", <<a>>), Node("ImportStatement", "", <<a, b>>), Node("ModuleStatement", "", <<a>>),
     Node("EnumerationDeclaration", "", <<a, Node("EnumerationBody", "", <<a, b>>)>>),
     Node("InterfaceDeclaration", "", <<a, Null>>)}
    \union {Node("InterfaceDeclaration", "", <<a, Node("InterfaceBody", "", <<Node("InterfaceMethod", f, <<T, a, ps>>)>>)>>) :
            f \in {"", "const"}, ps \in Parameters}

\* Classes with every kind of member, before one of two others.
Public == Leaf2("AccessModifier", "public")
Noargs == Node("VariableList", "", <<>>)
Members ==
    {Node("MethodDeclaration", f, <<Public, T, a, Noargs, BlockOf(<<Sa>>)>>) :
        f \in {"virtual", "ref", "ref []", "+", "-", "*", "", "static", "override", "const override", "const"}}
    \union {Node("CtorDeclaration", "", <<Public, a, ps, BlockOf(<<>>), Null>>) : ps \in Parameters}
    \union {Node("CtorDeclaration", "", <<Public, a, Noargs, BlockOf(<<Sa>>), Node("ExpressionList", "", <<a>>)>>)}
    \union {Node("ClassVariable", f, <<Public, Variable("", v)>>) : f \in {"", "static"}, v \in {Null, b}}
    \union {Node("ClassVariable", "static", <<Public, Node("CollectionVariableDeclaration", "List", <<Plain, a>>)>>)}
    \union {Node("ClassArray", "", <<Public, Node("ArrayDeclaration", "", <<T, a, Null>>)>>)}
Seconds == {Node("MethodDeclaration", "ref", <<Public, T, a, Noargs, BlockOf(<<Sa>>)>>),
            Node("ClassVariable", "", <<Public, Variable("", Null)>>)}
ClassPrograms ==
    {Node("ClassDeclaration", "", <<a, base, body>>) :
        base \in {Null, b},
        body \in {Null} \union {Node("ClassBody", "", <<m, n>>) : m \in Members, n \in Seconds}}

AllPrograms ==
    {BlockOf(<<Statement(e)>>) : e \in Nested \union Mixed \union Others}
    \union {BlockOf(<<s, t>>) : s \in Declarations \union Compound \union Simple, t \in {Sa, Variable("", Null), BlockOf(<<Sa>>)}}
    \union {BlockOf(<<c>>) : c \in ClassPrograms}
    \union {BlockOf(<<Sa, Node("WhileStatement", "", <<a, s>>)>>) : s \in {BlockOf(<<Sa>>), BlockOf(<<Sa, Sa>>), BlockOf(<<BlockOf(<<Sa, Sa>>)>>), BlockOf(<<Variable("", Null)>>)}}
=============================================================================
