----------------------------- MODULE CppGrammar -----------------------------
(* C++, as far as it occurs in what CppTransform writes: the rules of its    *)
(* statements and expressions, with the nodes of node.h as values.  It is    *)
(* the measure for the text, and no code of the repository.                  *)
EXTENDS Grammar

CppLevel(level, tighter, operators) ==
    <<Pass(level, <<tighter>>)>>
    \o [j \in DOMAIN operators |->
            Rule(level, <<level, operators[j], tighter>>, "BinaryOperator", operators[j], <<1, 3>>)]

CppExpressions ==
    <<Pass("expr", <<"equality">>),
      Rule("expr", <<"equality", "=", "expr">>, "BinaryOperator", "=", <<1, 3>>),
      Rule("expr", <<"equality", "+=", "expr">>, "Assignment", "+=", <<1, 3>>),
      Rule("expr", <<"equality", "*=", "expr">>, "Assignment", "*=", <<1, 3>>),
      Rule("expr", <<"equality", "?", "expr", ":", "expr">>, "TrinaryExpression", "", <<1, 3, 5>>)>>
    \o CppLevel("equality", "relation", <<"==", "!=">>)
    \o CppLevel("relation", "sum", <<"<", ">", ">=">>)
    \o CppLevel("sum", "product", <<"+", "-">>)
    \o CppLevel("product", "unary", <<"*", "/", "%">>) \o
    <<Rule("equality", <<"IfcPLString(", "postfix", "->classname()", ")", "==", "IfcPLString(", "type_name", ")">>,
           "InstanceOfExpression", "", <<2, 7>>),
      Leaf("type_name", "String", "Identifier"),
      Pass("unary", <<"postfix">>),
      Rule("unary", <<"-", "unary">>, "UnaryExpression", "-", <<2>>),
      Rule("unary", <<"!", "unary">>, "UnaryExpression", "!", <<2>>),
      Rule("unary", <<"++", "unary">>, "PrefixExpression", "++", <<2>>),
      Rule("unary", <<"--", "unary">>, "PrefixExpression", "--", <<2>>),
      Rule("postfix", <<"postfix", "++">>, "PostfixExpression", "++", <<1>>),
      Rule("postfix", <<"postfix", "--">>, "PostfixExpression", "--", <<1>>),
      Rule("postfix", <<"postfix", "->", "member">>, "EnumTypeName", "", <<1, 3>>)>>
    \o Choice("postfix", <<"member", "Integer", "Float", "Double", "Char", "String">>)
    \o Choice("member", <<"ident", "call">>) \o
    <<Rule("member", <<"ident", "->operator[]", "(", "expr", ")">>, "ArrayAccess", "", <<1, 4, 0>>),
      Rule("member", <<"ident", "[", "expr", "]">>, "ArrayAccess", "", <<1, 3, 0>>),
      Rule("call", <<"ident", "(", "arguments", ")">>, "MethodOrFunctionCall", "", <<1, 3>>),
      Rule("postfix", <<"IfcPLString(", "String", ")">>, "pass", "", <<2>>),
      Rule("postfix", <<"(", "expr", ")">>, "pass", "", <<2>>),
      Rule("postfix", <<"nullptr">>, "NullExpr", "", <<>>),
      Rule("postfix", <<"this">>, "ThisExpr", "", <<>>),
      Rule("postfix", <<"dynamic_pointer_cast<", "ident", ">", "(", "expr", ")">>,
           "CastExpression", "", <<2, 5>>),
      Rule("postfix", <<"make_shared<", "made">>, "NewExpression", "", <<2>>),
      Rule("made", <<"ident", ">", "(", "arguments", ")">>, "MethodOrFunctionCall", "", <<1, 4>>),
      Leaf("ident", "TIDENIFIER", "Identifier"),
      Rule("arguments", <<>>, "ExpressionList", "", <<>>),
      Rule("arguments", <<"expr">>, "ExpressionList", "", <<1>>),
      Rule("arguments", <<"arguments", ",", "expr">>, "append", "", <<3>>)>>

CppStatements == <<
    Rule("stmts", <<>>, "Block", "", <<>>),
    Rule("stmts", <<"stmts", "stmt">>, "append", "", <<2>>),
    Pass("stmts", <<"stmts", ";">>),
    Pass("stmt", <<"simple">>),
    Pass("stmt", <<"block">>),
    Rule("block", <<"{", "stmts", "}">>, "pass", "", <<2>>),
    Pass("body", <<"block">>),
    Rule("body", <<"simple">>, "Block", "", <<1>>),
    Rule("body", <<";">>, "Block", "", <<>>),
    Rule("simple", <<"expr", ";">>, "ExpressionStatement", "", <<1>>),
    Rule("simple", <<"return", ";">>, "ReturnStatement", "", <<0>>),
    Rule("simple", <<"return", "expr", ";">>, "ReturnStatement", "", <<2>>),
    Rule("simple", <<"throw", "expr", ";">>, "ThrowStatement", "", <<2>>),
    Rule("simple", <<"break", ";">>, "BreakStatement", "", <<>>),
    Rule("simple", <<"continue", ";">>, "ContinueStatement", "", <<>>),
    Pass("simple", <<"variable", ";">>),
    Rule("simple", <<"if", "(", "expr", ")", "body">>, "IfStatement", "", <<3, 5, 0>>),
    Rule("simple", <<"if", "(", "expr", ")", "body", "else", "body">>, "IfStatement", "", <<3, 5, 7>>),
    Rule("simple", <<"for", "(", "first", ";", "expr", ";", "expr", ")", "body">>, "ForStatement", "", <<3, 5, 7, 9>>),
    Pass("first", <<"variable">>),
    Rule("first", <<"expr">>, "ExpressionStatement", "", <<1>>),
    Rule("simple", <<"while", "(", "expr", ")", "body">>, "WhileStatement", "", <<3, 5>>),
    Rule("simple", <<"do", "body", "while", "(", "expr", ")", ";">>, "DoWhileStatement", "", <<2, 5>>),
    Rule("simple", <<"switch", "(", "expr", ")", "{", "sections", "}">>, "SwitchStatement", "", <<3, 6>>),
    Rule("sections", <<>>, "SwitchSections", "", <<>>),
    Rule("sections", <<"sections", "section">>, "append", "", <<2>>),
    Rule("section", <<"label", "stmts">>, "SwitchSection", "", <<1, 2>>),
    Rule("label", <<"case", "expr", ":">>, "SwitchLabel", "Case", <<2>>),
    Rule("label", <<"default", ":">>, "SwitchLabel", "Default", <<0>>)>>

Variables(lhs) == <<
    Rule(lhs, <<"ident", "ident">>, "VariableDeclaration", "", <<1, 2, 0>>),
    Rule(lhs, <<"const", "ident", "ident">>, "VariableDeclaration", "const", <<2, 3, 0>>),
    Rule(lhs, <<"ident", "&", "ident">>, "VariableDeclaration", "ref", <<1, 3, 0>>)>>
Method2(after, text) ==
    Rule("class_member", <<"access", ":", "ident", "ident", "(", "parameters", ")">> \o after \o <<"block">>,
         "MethodDeclaration", text, <<1, 3, 4, 6, 8 + Len(after)>>)

CppDeclarations ==
    Variables("variable") \o Variables("parameter") \o
    <<Rule("variable", <<"ident", "ident", "=", "expr">>, "VariableDeclaration", "", <<1, 2, 4>>),
      Rule("variable", <<"const", "ident", "ident", "=", "expr">>, "VariableDeclaration", "const", <<2, 3, 5>>),
      Rule("variable", <<"ident", "&", "ident", "=", "expr">>, "VariableDeclaration", "ref", <<1, 3, 5>>),
      Rule("variable", <<"shared_ptr<IfcPLArray<", "ident", ">>", "ident">>, "ArrayDeclaration", "", <<2, 4, 0>>),
      Rule("variable", <<"shared_ptr<IfcPLArray<", "ident", ">>", "ident", "=", "array">>,
           "ArrayDeclaration", "", <<2, 4, 6>>),
      Rule("array", <<"make_shared<IfcPLArray<", "ident", ">>", "(", "expr", ")">>,
           "ArrayCreationExpression", "", <<2, 5>>),
      Rule("variable", <<"vector<", "element", ">", "ident">>, "CollectionVariableDeclaration", "List", <<2, 4>>),
      Rule("element", <<"ident">>, "CollectionParamterDeclaration", "", <<1>>),
      Rule("element", <<"vector<", "element", ">">>, "CollectionParamterDeclaration", "List", <<2>>),
      Rule("parameters", <<>>, "VariableList", "", <<>>),
      Rule("parameters", <<"parameter">>, "VariableList", "", <<1>>),
      Rule("parameters", <<"parameters", ",", "parameter">>, "append", "", <<3>>),
      Rule("simple", <<"ident", "ident", "(", "parameters", ")", "block">>, "FunctionDeclaration", "", <<1, 2, 4, 6>>),
      Rule("simple", <<"class", "ident", "{", "}">>, "ClassDeclaration", "", <<2, 0, 0>>),
      Rule("simple", <<"class", "ident", "{", "class_body", "}">>, "ClassDeclaration", "", <<2, 0, 4>>),
      Rule("simple", <<"class", "ident", ":", "public", "ident", "{", "}">>, "ClassDeclaration", "", <<2, 5, 0>>),
      Rule("simple", <<"class", "ident", ":", "public", "ident", "{", "class_body", "}">>,
           "ClassDeclaration", "", <<2, 5, 7>>),
      Rule("simple", <<"class", "ident", "{", "interface_body", "}">>, "InterfaceDeclaration", "", <<2, 4>>),
      Rule("interface_method", <<"access", ":", "virtual", "ident", "ident", "(", "parameters", ")", "=", "0", ";">>,
           "InterfaceMethod", "", <<4, 5, 7>>),
      Rule("interface_method",
           <<"access", ":", "virtual", "ident", "ident", "(", "parameters", ")", "const", "=", "0", ";">>,
           "InterfaceMethod", "const", <<4, 5, 7>>),
      Rule("access", <<"public">>, "AccessModifier", "public", <<>>)>>
    \o List("class_body", "class_member", "ClassBody")
    \o List("interface_body", "interface_method", "InterfaceBody") \o
    <<Method2(<<>>, ""), Method2(<<"const">>, "const"), Method2(<<"override">>, "override"),
      Method2(<<"const", "override">>, "const override"),
      Rule("class_member", <<"access", ":", "virtual", "ident", "ident", "(", "parameters", ")", "block">>,
           "MethodDeclaration", "virtual", <<1, 4, 5, 7, 9>>),
      Rule("class_member", <<"access", ":", "static", "ident", "ident", "(", "parameters", ")", "block">>,
           "MethodDeclaration", "static", <<1, 4, 5, 7, 9>>),
      Rule("class_member", <<"access", ":", "ident", "&", "ident", "(", "parameters", ")", "block">>,
           "MethodDeclaration", "ref", <<1, 3, 5, 7, 9>>),
      Rule("class_member", <<"access", ":", "ident", "(", "parameters", ")", "block">>,
           "CtorDeclaration", "", <<1, 3, 5, 7, 0>>),
      Rule("class_member", <<"access", ":", "ident", "(", "parameters", ")", ":", "base", "(", "arguments", ")", "block">>,
           "CtorDeclaration", "", <<1, 3, 5, 12, 10>>),
      Rule("class_member", <<"access", ":", "static", "variable", ";">>, "ClassVariable", "static", <<1, 4>>),
      Rule("class_member", <<"access", ":", "variable", ";">>, "ClassVariable", "", <<1, 3>>),
      Rule("simple", <<"enum class", "ident", "{", "enumerators", "}">>, "EnumerationDeclaration", "", <<2, 4>>),
      Rule("enumerators", <<"ident">>, "EnumerationBody", "", <<1>>),
      Rule("enumerators", <<"enumerators", ",", "ident">>, "append", "", <<3>>)>>

CppRules == CppStatements \o CppExpressions \o CppDeclarations
NoLevels == <<>>
CppStart == "stmts"
\* Tokens no rule here uses.
CppOtherTokens == {"assert(false)", "undefined", "operator", "::"}
CppSemantic(n, values) == ValueOf(CppRules, n, values)
CppAsserts(n, values) == FALSE
CppBuilds(text) == {TRUE}
=============================================================================
