---------------------------- MODULE MCCppReading ----------------------------
(* The trees of the parser runs, written and read back.                      *)
EXTENDS CppReading

\* Expressions the trees of the parser do not have.
SignedOperands == {Node("UnaryExpression", "-", <<a>>), Node("PrefixExpression", "++", <<a>>),
                   Node("PostfixExpression", "--", <<a>>), Node("InstanceOfExpression", "", <<a, T>>),
                   Node("TrinaryExpression", "", <<a, b, a>>), Binary2("==", a, b)}
Call(f, args) == Node("MethodOrFunctionCall", "", <<Identifier(f), Node("ExpressionList", "", args)>>)
MoreExpressions ==
    {Binary2(op, l, r) : op \in {"+", "-", "=", ".", ">="}, l \in SignedOperands \union {a}, r \in SignedOperands \union {a}}
    \union {Node("UnaryExpression", op, <<e>>) : op \in {"-", "!"}, e \in SignedOperands}
    \union {Node("NewExpression", "", <<Call("T", <<a, b>>)>>), Call("write", <<Leaf2("String", "s"), a>>),
            Node("ArrayAccess", "", <<Identifier("Segments"), a, Null>>)}

CppPrograms == AllPrograms \union {BlockOf(<<Statement(e)>>) : e \in MoreExpressions}
CppTexts == {Glued(Accept(t)) : t \in CppPrograms}
=============================================================================
