------------------------------ MODULE Rendering ------------------------------
(* The text CppTransform (main.cpp) writes for the trees of the grammar, as  *)
(* the pieces it is put together from.  Its state is in the module           *)
(* CppTransform, and what depends on it is left out here: how a type is      *)
(* written, which of -> and :: an access takes, definitions that wait for    *)
(* the end of their class, and the parameters of main.                       *)
EXTENDS Grammar, NodeClasses, Folds, Functions

Piece(text) == <<Node(text, "", <<>>)>>
Pieces(texts) == [j \in DOMAIN texts |-> Node(texts[j], "", <<>>)]
Name(text) == <<Node("TIDENIFIER", text, <<>>)>>

\* expr->accept(this, out)
RECURSIVE Accept(_)

Separated(parts) ==
    FlattenSeq([j \in DOMAIN parts |->
        (IF j = 1 THEN <<>> ELSE Piece(",")) \o Accept(parts[j])])
If(condition, pieces) == IF condition THEN pieces ELSE <<>>
Given(e) == e # Null

-----------------------------------------------------------------------------
\* Expressions.

VisitIdentifier(e) == IF e.text = "operator" THEN Piece("operator") ELSE Name(e.text)

Literals == {"Integer", "Float", "Double", "Char"}
VisitLiteral(e) == <<Node(e.kind, e.text, <<>>)>>
VisitString(e)  == Piece("IfcPLString(") \o <<Node("String", e.text, <<>>)>> \o Piece(")")

\* Signs are written as they are, without blanks around them.
VisitUnaryExpression(e)  == Piece(e.text) \o Accept(e.parts[1])
Doubled(sign) == Piece(sign) \o Piece(sign)
Signs(e) == IF e.text = "++" THEN Doubled("+") ELSE Doubled("-")
VisitPrefixExpression(e)  == Signs(e) \o Accept(e.parts[1])
VisitPostfixExpression(e) == Accept(e.parts[1]) \o Signs(e)

\* BinaryOperator and Assignment: the operator between its operands, no parentheses.
VisitOperator(e) == Accept(e.parts[1]) \o Piece(e.text) \o Accept(e.parts[2])

VisitTrinaryExpression(e) ==
    Accept(e.parts[1]) \o Piece("?") \o Accept(e.parts[2]) \o Piece(":") \o Accept(e.parts[3])

VisitEnumTypeName(e) == Accept(e.parts[1]) \o Piece("->") \o Accept(e.parts[2])

VisitInstanceOfExpression(e) ==
    Piece("IfcPLString(") \o Accept(e.parts[1])
    \o Pieces(<<"->classname()", ")", "==", "IfcPLString(">>)
    \o <<Node("String", e.parts[2].text, <<>>)>> \o Piece(")")

VisitCastExpression(e) ==
    Piece("dynamic_pointer_cast<") \o Accept(e.parts[1]) \o Pieces(<<">", "(">>)
    \o Accept(e.parts[2]) \o Piece(")")

\* getValue and write do not visit their arguments.
VisitMethodOrFunctionCall(e) ==
    LET name == e.parts[1].text
        args == e.parts[2].parts
    IN  CASE name = "getValue" -> Name("m_value")
          [] name = "write" /\ Len(args) = 2 ->
                Name("write") \o Piece("(") \o <<Node("String", args[1].text, <<>>)>> \o Piece(",")
                \o Name(args[2].text) \o Piece(")")
          [] OTHER ->
                Name(IF name = "max" /\ Len(args) = 2 THEN "std::max" ELSE name)
                \o Piece("(") \o Separated(args) \o Piece(")")

\* A new says of itself that it is a call, and is read as one behind another new:
\* what that writes is undefined.  Of anything else an assertion fails.
VisitNewExpression(e) ==
    LET made == e.parts[1] IN
    CASE GetType(made) # "MethodCall" -> Piece("assert(false)")
      [] made.kind = "NewExpression"  -> Piece("undefined")
      [] OTHER ->
            Piece("make_shared<") \o Accept(made.parts[1]) \o Pieces(<<">", "(">>)
            \o Separated(made.parts[2].parts) \o Piece(")")

DirectlyIndexed == {"HasProperties", "Segments", "ListValues"}
VisitArrayAccess(e) ==
    Accept(e.parts[1])
    \o (IF e.parts[1].text \in DirectlyIndexed
        THEN Piece("[") \o Accept(e.parts[2]) \o Piece("]")
        ELSE Pieces(<<"->operator[]", "(">>) \o Accept(e.parts[2]) \o Piece(")"))
    \o If(Given(e.parts[3]), Piece("=") \o Accept(e.parts[3]))

-----------------------------------------------------------------------------
\* Declarations of variables.

VisitVariableDeclaration(e) ==
    If(e.text = "const", Piece("const")) \o Accept(e.parts[1]) \o If(e.text = "ref", Piece("&"))
    \o Accept(e.parts[2]) \o If(Given(e.parts[3]), Piece("=") \o Accept(e.parts[3]))

VisitArrayCreationExpression(e) ==
    Piece("make_shared<IfcPLArray<") \o Accept(e.parts[1]) \o Pieces(<<">>", "(">>)
    \o Accept(e.parts[2]) \o Piece(")")

\* ArrayDeclaration and ClassArray bring their own semicolon.
VisitArrayDeclaration(e) ==
    Piece("shared_ptr<IfcPLArray<") \o Accept(e.parts[1]) \o Piece(">>") \o Accept(e.parts[2])
    \o If(Given(e.parts[3]), Piece("=") \o Accept(e.parts[3])) \o Piece(";")

\* Of the four collections only List is written.
VisitCollectionParamterDeclaration(e) ==
    If(e.text = "List", Piece("vector<")) \o Accept(e.parts[1]) \o If(e.text = "List", Piece(">"))
VisitCollectionVariableDeclaration(e) ==
    Piece("vector<") \o Accept(e.parts[1]) \o Piece(">") \o Accept(e.parts[2])

-----------------------------------------------------------------------------
\* Statements.

VisitExpressionStatement(e) == Accept(e.parts[1]) \o Piece(";")
VisitReturnStatement(e) == Piece("return") \o If(Given(e.parts[1]), Accept(e.parts[1])) \o Piece(";")
VisitThrowStatement(e)  == Piece("throw") \o Accept(e.parts[1]) \o Piece(";")
VisitBreakStatement     == Piece("break")
VisitContinueStatement  == Piece("continue")

\* Every statement is followed by a semicolon, whether it brought one or not.
\* There are no braces: those who visit a body write them.
VisitBlock(e) == FlattenSeq([j \in DOMAIN e.parts |-> Accept(e.parts[j]) \o Piece(";")])

Body(e) == Piece("{") \o If(Given(e), Accept(e)) \o Piece("}")

\* Seeded fault: the branches go without braces.
VisitIfStatementBare(e) ==
    Pieces(<<"if", "(">>) \o Accept(e.parts[1]) \o Piece(")") \o Accept(e.parts[2])
    \o If(Given(e.parts[3]), Piece("else") \o Accept(e.parts[3]))

VisitIfStatement(e) ==
    Pieces(<<"if", "(">>) \o Accept(e.parts[1]) \o Piece(")") \o Body(e.parts[2])
    \o If(Given(e.parts[3]), Piece("else") \o Body(e.parts[3]))

VisitForStatement(e) ==
    Pieces(<<"for", "(">>) \o Accept(e.parts[1]) \o Piece(";") \o Accept(e.parts[2]) \o Piece(";")
    \o Accept(e.parts[3]) \o Piece(")") \o Body(e.parts[4])

VisitWhileStatement(e) ==
    Pieces(<<"while", "(">>) \o Accept(e.parts[1]) \o Piece(")") \o Body(e.parts[2])

VisitDoWhileStatement(e) ==
    Piece("do") \o Body(e.parts[1]) \o Pieces(<<"while", "(">>) \o Accept(e.parts[2]) \o Pieces(<<")", ";">>)

VisitSwitchSection(section) ==
    (IF section.parts[1].text = "Case"
     THEN Piece("case") \o Accept(section.parts[1].parts[1]) \o Piece(":")
     ELSE Pieces(<<"default", ":">>))
    \o Accept(section.parts[2])
VisitSwitchStatement(e) ==
    Pieces(<<"switch", "(">>) \o Accept(e.parts[1]) \o Pieces(<<")", "{">>)
    \o FlattenSeq([j \in DOMAIN e.parts[2].parts |-> VisitSwitchSection(e.parts[2].parts[j])])
    \o Pieces(<<"}", ";">>)

-----------------------------------------------------------------------------
\* Functions, classes, interfaces and enumerations.

\* Three visits write parameters themselves, and each knows other qualifiers;
\* an array is written as one element.
WriteParameter(p, qualifiers) ==
    If(p.text = "const" /\ "const" \in qualifiers, Piece("const")) \o Accept(p.parts[1])
    \o If(p.text = "ref" /\ "ref" \in qualifiers, Piece("&")) \o Accept(p.parts[2])
WriteParameters(list, qualifiers) ==
    Piece("(") \o FlattenSeq([j \in DOMAIN list.parts |->
        (IF j = 1 THEN <<>> ELSE Piece(",")) \o WriteParameter(list.parts[j], qualifiers)]) \o Piece(")")

VisitFunctionDeclaration(e) ==
    Accept(e.parts[1]) \o Accept(e.parts[2]) \o If(e.text = "+", Piece("+"))
    \o WriteParameters(e.parts[3], {"ref"}) \o Body(e.parts[4])

Access(e) == Pieces(<<e.text, ":">>)

\* [] and + are the operators that can be written; of the others an assertion
\* fails (CppTransform).
VisitMethodDeclaration(e) ==
    Access(e.parts[1]) \o If(e.text = "virtual", Piece("virtual")) \o If(e.text = "static", Piece("static"))
    \o Accept(e.parts[2]) \o If(e.text \in {"ref", "ref []"}, Piece("&"))
    \o Accept(e.parts[3]) \o If(e.text = "+", Piece("+")) \o If(e.text = "ref []", Pieces(<<"[", "]">>))
    \o WriteParameters(e.parts[4], {"const", "ref"})
    \o If(e.text \in {"const", "const override"}, Piece("const"))
    \o If(e.text \in {"override", "const override"}, Piece("override"))
    \o Body(e.parts[5])

\* The base class is looked up by the name of the class (CppTransform).
VisitCtorDeclaration(e) ==
    Access(e.parts[1]) \o Accept(e.parts[2]) \o Piece("(") \o Separated(e.parts[3].parts) \o Piece(")")
    \o If(Given(e.parts[5]), Pieces(<<":", "base", "(">>) \o Separated(e.parts[5].parts) \o Piece(")"))
    \o Body(e.parts[4])

\* A collection is declared with its name for its type, and has no value (node.h).
TypeOf(variable)  == variable.parts[IF variable.kind = "CollectionVariableDeclaration" THEN 2 ELSE 1]
ValueOfVariable(variable) ==
    IF variable.kind = "CollectionVariableDeclaration" THEN Null ELSE variable.parts[3]

\* The value of a static field is written behind the class.
HasDeferred(e) == e.kind = "ClassVariable" /\ e.text = "static" /\ Given(ValueOfVariable(e.parts[2]))
Deferred(class, e) ==
    Accept(TypeOf(e.parts[2])) \o Accept(class) \o Piece("::") \o Accept(e.parts[2].parts[2]) \o Piece("=")
    \o Accept(ValueOfVariable(e.parts[2])) \o Piece(";")
VisitClassVariable(e) ==
    LET value == ValueOfVariable(e.parts[2]) IN
    Access(e.parts[1]) \o If(e.text = "static", Piece("static")) \o Accept(TypeOf(e.parts[2]))
    \o Accept(e.parts[2].parts[2]) \o If(Given(value) /\ ~HasDeferred(e), Piece("=") \o Accept(value)) \o Piece(";")
VisitClassArray(e) == Access(e.parts[1]) \o Accept(e.parts[2])

VisitInterfaceMethod(e) ==
    Pieces(<<"public", ":", "virtual">>) \o Accept(e.parts[1]) \o Accept(e.parts[2])
    \o WriteParameters(e.parts[3], {"const"})
    \o If(e.text = "const", Piece("const")) \o Pieces(<<"=", "0", ";">>)

WriteMembers(body) == Piece("{") \o FlattenSeq([j \in DOMAIN body.parts |-> Accept(body.parts[j])]) \o Pieces(<<"}", ";">>)
VisitClassDeclaration(e) ==
    Piece("class") \o Accept(e.parts[1])
    \o If(Given(e.parts[2]), Pieces(<<":", "public">>) \o Accept(e.parts[2])) \o WriteMembers(e.parts[3])
    \o FlattenSeq([j \in DOMAIN e.parts[3].parts |->
            If(HasDeferred(e.parts[3].parts[j]), Deferred(e.parts[1], e.parts[3].parts[j]))])
VisitInterfaceDeclaration(e) == Piece("class") \o Accept(e.parts[1]) \o WriteMembers(e.parts[2])

VisitEnumerationDeclaration(e) ==
    Piece("enum class") \o Accept(e.parts[1]) \o Piece("{") \o Separated(e.parts[2].parts) \o Pieces(<<"}", ";">>)

Accept(e) ==
    CASE e.kind = "Identifier"               -> VisitIdentifier(e)
      [] e.kind \in Literals                 -> VisitLiteral(e)
      [] e.kind = "String"                   -> VisitString(e)
      [] e.kind = "NullExpr"                 -> Piece("nullptr")
      [] e.kind = "ThisExpr"                 -> Piece("this")
      [] e.kind = "UnaryExpression"          -> VisitUnaryExpression(e)
      [] e.kind = "PrefixExpression"         -> VisitPrefixExpression(e)
      [] e.kind = "PostfixExpression"        -> VisitPostfixExpression(e)
      [] e.kind \in {"BinaryOperator", "Assignment"} -> VisitOperator(e)
      [] e.kind = "TrinaryExpression"        -> VisitTrinaryExpression(e)
      [] e.kind = "EnumTypeName"             -> VisitEnumTypeName(e)
      [] e.kind = "InstanceOfExpression"     -> VisitInstanceOfExpression(e)
      [] e.kind = "CastExpression"           -> VisitCastExpression(e)
      [] e.kind = "MethodOrFunctionCall"     -> VisitMethodOrFunctionCall(e)
      [] e.kind = "NewExpression"            -> VisitNewExpression(e)
      [] e.kind = "ArrayAccess"              -> VisitArrayAccess(e)
      [] e.kind = "VariableDeclaration"      -> VisitVariableDeclaration(e)
      [] e.kind = "ArrayCreationExpression"  -> VisitArrayCreationExpression(e)
      [] e.kind = "ArrayDeclaration"         -> VisitArrayDeclaration(e)
      [] e.kind = "CollectionParamterDeclaration" -> VisitCollectionParamterDeclaration(e)
      [] e.kind = "CollectionVariableDeclaration" -> VisitCollectionVariableDeclaration(e)
      [] e.kind = "ExpressionStatement"      -> VisitExpressionStatement(e)
      [] e.kind = "ReturnStatement"          -> VisitReturnStatement(e)
      [] e.kind = "ThrowStatement"           -> VisitThrowStatement(e)
      [] e.kind = "BreakStatement"           -> VisitBreakStatement
      [] e.kind = "ContinueStatement"        -> VisitContinueStatement
      [] e.kind = "Block"                    -> VisitBlock(e)
      [] e.kind = "IfStatement"              -> VisitIfStatement(e)
      [] e.kind = "ForStatement"             -> VisitForStatement(e)
      [] e.kind = "WhileStatement"           -> VisitWhileStatement(e)
      [] e.kind = "DoWhileStatement"         -> VisitDoWhileStatement(e)
      [] e.kind = "SwitchStatement"          -> VisitSwitchStatement(e)
      [] e.kind = "FunctionDeclaration"      -> VisitFunctionDeclaration(e)
      [] e.kind = "MethodDeclaration"        -> VisitMethodDeclaration(e)
      [] e.kind = "CtorDeclaration"          -> VisitCtorDeclaration(e)
      [] e.kind = "ClassVariable"            -> VisitClassVariable(e)
      [] e.kind = "ClassArray"               -> VisitClassArray(e)
      [] e.kind = "ClassDeclaration"         -> VisitClassDeclaration(e)
      [] e.kind = "InterfaceMethod"          -> VisitInterfaceMethod(e)
      [] e.kind = "InterfaceDeclaration"     -> VisitInterfaceDeclaration(e)
      [] e.kind = "EnumerationDeclaration"   -> VisitEnumerationDeclaration(e)
      [] OTHER                               -> <<>>   \* preprocessor lines and comments
=============================================================================
