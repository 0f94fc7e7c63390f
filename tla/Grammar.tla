------------------------------- MODULE Grammar -------------------------------
(* The rules of parser.y, in the order of the file, with the node the action *)
(* of each rule builds.  A node names its class, its enumerators and flags   *)
(* (text), and its children; a missing child is Null.                        *)
EXTENDS Naturals, Sequences, SequencesExt

Node(kind, text, parts) == [kind |-> kind, text |-> text, parts |-> parts]
Null == Node("nullptr", "", <<>>)

\* kind, text and parts say what the action does: make a node of the symbols
\* of rhs that parts names (0 is a null pointer).  "pass" hands on the value of
\* parts[1], as the default action does with $1; "append" adds to the list $1.
Rule(lhs, rhs, kind, text, parts) ==
    [lhs |-> lhs, rhs |-> rhs, kind |-> kind, text |-> text, parts |-> parts]

Pass(lhs, rhs)         == Rule(lhs, rhs, "pass", "", <<1>>)
Choice(lhs, symbols)   == [j \in DOMAIN symbols |-> Pass(lhs, <<symbols[j]>>)]
List(lhs, item, kind)  == <<Rule(lhs, <<item>>, kind, "", <<1>>),
                            Rule(lhs, <<lhs, item>>, "append", "", <<2>>)>>
Leaf(lhs, token, kind) == Rule(lhs, <<token>>, kind, "$1", <<>>)

TypeRules == <<
    Leaf("char_literal", "CHRLIT", "Char"),
    Rule("interface_decl", <<"INTERFACE", "ident", "{", "}">>,
         "InterfaceDeclaration", "", <<2, 0>>),
    Rule("interface_decl", <<"INTERFACE", "ident", "{", "interface_body", "}">>,
         "InterfaceDeclaration", "", <<2, 4>>),
    Rule("class_decl", <<"CLASS", "ident", "{", "}">>, "ClassDeclaration", "", <<2, 0, 0>>),
    Rule("class_decl", <<"CLASS", "ident", "{", "class_body", "}">>,
         "ClassDeclaration", "", <<2, 0, 4>>),
    Rule("class_decl", <<"CLASS", "ident", ":", "ident", "{", "}">>,
         "ClassDeclaration", "", <<2, 4, 0>>),
    Rule("class_decl", <<"CLASS", "ident", ":", "ident", "{", "class_body", "}">>,
         "ClassDeclaration", "", <<2, 4, 6>>)>>

StatementRules ==
    <<Rule("throw_stmt", <<"THROW", "TNEW", "expr">>, "ThrowStatement", "", <<3>>),
      Pass("stmt", <<"array_decl", ";">>),
      Rule("stmt", <<"RETURN", "expr", ";">>, "ReturnStatement", "", <<2>>),
      Rule("stmt", <<"RETURN", ";">>, "ReturnStatement", "", <<0>>),
      Pass("stmt", <<"block">>),
      Pass("stmt", <<"break_stmt", ";">>),
      Pass("stmt", <<"class_decl">>),
      Pass("stmt", <<"interface_decl">>),
      Pass("stmt", <<"continue_stmt", ";">>),
      Pass("stmt", <<"enum_decl">>),
      Rule("stmt", <<"expr", ";">>, "ExpressionStatement", "", <<1>>),
      Pass("stmt", <<"for_stmt">>),
      Pass("stmt", <<"func_decl">>),
      Pass("stmt", <<"if_stmt">>),
      Pass("stmt", <<"import_stmt", ";">>),
      Pass("stmt", <<"var_decl", ";">>),
      Pass("stmt", <<"module_stmt", ";">>),
      Pass("stmt", <<"while_stmt">>),
      Pass("stmt", <<"do_while_stmt", ";">>),
      Pass("stmt", <<"switch_stmt">>),
      Pass("stmt", <<"throw_stmt", ";">>),
      Pass("program", <<"stmts">>)>>
    \o List("stmts", "stmt", "Block") \o
    <<Rule("module_stmt", <<"MODULE", "ident">>, "ModuleStatement", "", <<2>>),
      Rule("import_stmt", <<"IMPORT", "ident">>, "ImportStatement", "", <<2>>),
      Rule("import_stmt", <<"IMPORT", "ident", ".", "ident">>, "ImportStatement", "", <<2, 4>>),
      Rule("cast_expr", <<"CAST", "<", "ident", ">", "(", "expr", ")">>,
           "CastExpression", "", <<3, 6>>),
      Rule("instanceof_expr", <<"expr", "INSTANCEOF", "ident">>,
           "InstanceOfExpression", "", <<1, 3>>),
      Rule("break_stmt", <<"BREAK">>, "BreakStatement", "", <<>>),
      Rule("continue_stmt", <<"CONTINUE">>, "ContinueStatement", "", <<>>),
      Rule("prefix_expr", <<"PLUSPLUS", "ident">>, "PrefixExpression", "++", <<2>>),
      Rule("postfix_expr", <<"ident", "PLUSPLUS">>, "PostfixExpression", "++", <<1>>),
      Rule("postfix_expr", <<"ident", "MINUSMINUS">>, "PostfixExpression", "--", <<1>>)>>

MemberRules ==
    List("class_body", "class_member", "ClassBody")
    \o List("interface_body", "interface_method", "InterfaceBody") \o
    <<Rule("interface_method", <<"ident", "ident", "(", "args_decl", ")", ";">>,
           "InterfaceMethod", "", <<1, 2, 4>>),
      Rule("interface_method", <<"ident", "ident", "(", "args_decl", ")", "CONST", ";">>,
           "InterfaceMethod", "const", <<1, 2, 4>>),
      Pass("class_member", <<"meth_decl">>),
      Rule("class_member", <<"access_modifier", "ident", "(", "args_decl", ")", "block">>,
           "CtorDeclaration", "", <<1, 2, 4, 6, 0>>),
      Rule("class_member", <<"access_modifier", "ident", "(", "args_decl", ")",
                             ":", "BASE", "(", "call_args", ")", "block">>,
           "CtorDeclaration", "", <<1, 2, 4, 11, 9>>),
      Rule("class_member", <<"access_modifier", "TSTATIC", "var_decl", ";">>,
           "ClassVariable", "static", <<1, 3>>),
      Rule("class_member", <<"access_modifier", "var_decl", ";">>, "ClassVariable", "", <<1, 2>>),
      Rule("class_member", <<"access_modifier", "array_decl", ";">>, "ClassArray", "", <<1, 2>>)>>

ControlRules ==
    Choice("for_iterator", <<"postfix_expr", "prefix_expr">>)
    \o Choice("for_init_stmt", <<"var_decl", "array_decl">>) \o
    <<Rule("for_init_stmt", <<"expr">>, "ExpressionStatement", "", <<1>>),
      Rule("for_stmt", <<"FOR", "(", "for_init_stmt", ";", "expr", ";", "for_iterator", ")", "stmt">>,
           "ForStatement", "", <<3, 5, 7, 9>>),
      Rule("for_stmt", <<"FOR", "(", "for_init_stmt", ";", "expr", ";", "for_iterator", ")", "{", "}">>,
           "ForStatement", "", <<3, 5, 7, 0>>),
      Rule("while_stmt", <<"WHILE", "(", "expr", ")", "stmts">>, "WhileStatement", "", <<3, 5>>),
      Rule("while_stmt", <<"WHILE", "(", "expr", ")", "{", "}">>, "WhileStatement", "", <<3, 0>>),
      Rule("do_while_stmt", <<"DO", "{", "}", "WHILE", "(", "expr", ")">>,
           "DoWhileStatement", "", <<0, 6>>),
      Rule("do_while_stmt", <<"DO", "{", "stmts", "}", "WHILE", "(", "expr", ")">>,
           "DoWhileStatement", "", <<3, 7>>),
      Rule("switch_stmt", <<"SWITCH", "(", "expr", ")", "{", "}">>, "SwitchStatement", "", <<3, 0>>),
      Rule("switch_stmt", <<"SWITCH", "(", "expr", ")", "{", "switch_sections", "}">>,
           "SwitchStatement", "", <<3, 6>>)>>
    \o List("switch_sections", "switch_section", "SwitchSections") \o
    <<Rule("switch_section", <<"switch_label", "stmts">>, "SwitchSection", "", <<1, 2>>),
      Rule("switch_label", <<"CASE", "expr", ":">>, "SwitchLabel", "Case", <<2>>),
      Rule("switch_label", <<"DEFAULT", ":">>, "SwitchLabel", "Default", <<0>>),
      Rule("if_stmt", <<"IF", "(", "expr", ")", "stmt", "ELSE", "stmt">>,
           "IfStatement", "", <<3, 5, 7>>),
      Rule("if_stmt", <<"IF", "(", "expr", ")", "stmt">>, "IfStatement", "", <<3, 5, 0>>),
      Rule("block", <<"{", "stmts", "}">>, "pass", "", <<2>>),
      Rule("block", <<"{", "}">>, "Block", "", <<>>)>>

\* A collection variable: the type behind new is parsed and forgotten.
CollectionVariable(token, type) ==
    Rule("var_decl", <<token, "<", "collection_parameter_decl", ">", "ident", "=", "TNEW",
                       token, "<", "collection_parameter_decl", ">", "(", ")">>,
         "CollectionVariableDeclaration", type, <<3, 5>>)
CollectionParameter(token, type) ==
    Rule("collection_parameter_decl", <<token, "<", "collection_parameter_decl", ">">>,
         "CollectionParamterDeclaration", type, <<3>>)

VariableRules == <<
    Rule("method_var_decl", <<"ident", "ident">>, "VariableDeclaration", "", <<1, 2, 0>>),
    Rule("method_var_decl", <<"CONST", "ident", "ident">>, "VariableDeclaration", "const", <<2, 3, 0>>),
    Rule("method_var_decl", <<"REF", "ident", "ident">>, "VariableDeclaration", "ref", <<2, 3, 0>>),
    Rule("method_var_decl", <<"ident", "[", "]", "ident">>, "ArrayDeclaration", "", <<1, 4, 0>>),
    Rule("var_decl", <<"ident", "ident">>, "VariableDeclaration", "", <<1, 2, 0>>),
    Rule("var_decl", <<"ident", "ident", "=", "expr">>, "VariableDeclaration", "", <<1, 2, 4>>),
    Rule("var_decl", <<"REF", "ident", "ident", "=", "expr">>, "VariableDeclaration", "ref", <<2, 3, 5>>),
    Rule("var_decl", <<"CONST", "ident", "ident", "=", "expr">>, "VariableDeclaration", "const", <<2, 3, 5>>),
    CollectionVariable("LIST", "List"), CollectionVariable("BAG", "Bag"),
    CollectionVariable("SET", "Set"), CollectionVariable("ARRAY", "Array"),
    Rule("collection_parameter_decl", <<"ident">>, "CollectionParamterDeclaration", "", <<1>>),
    CollectionParameter("LIST", "List"), CollectionParameter("BAG", "Bag"),
    CollectionParameter("SET", "Set"), CollectionParameter("ARRAY", "Array"),
    Rule("array_decl", <<"ident", "[", "]", "ident">>, "ArrayDeclaration", "", <<1, 4, 0>>),
    Rule("array_decl", <<"ident", "[", "]", "ident", "=", "array_creation_expr">>,
         "ArrayDeclaration", "", <<1, 4, 6>>),
    Rule("array_creation_expr", <<"TNEW", "ident", "[", "expr", "]">>,
         "ArrayCreationExpression", "", <<2, 4>>),
    Rule("array_access_expr", <<"ident", "[", "expr", "]", "=", "expr">>, "ArrayAccess", "", <<1, 3, 6>>),
    Rule("array_access_expr", <<"ident", "[", "expr", "]">>, "ArrayAccess", "", <<1, 3, 0>>)>>

\* A method: access modifier, return type, name, parameters and body, with
\* words in front of the type, behind the name, and behind the parameters.
Method(front, back, after, text) ==
    LET at == 1 + Len(front) IN
    Rule("meth_decl", <<"access_modifier">> \o front \o <<"ident", "ident">> \o back
                      \o <<"(", "args_decl", ")">> \o after \o <<"block">>,
         "MethodDeclaration", text,
         <<1, at + 1, at + 2, at + 4 + Len(back), at + 6 + Len(back) + Len(after)>>)

FunctionRules == <<
    Rule("func_decl", <<"ident", "ident", "(", "args_decl", ")", "block">>,
         "FunctionDeclaration", "", <<1, 2, 4, 6>>),
    Rule("func_decl", <<"ident", "ident", "+", "(", "args_decl", ")", "block">>,
         "FunctionDeclaration", "+", <<1, 2, 5, 7>>),
    Method(<<"VIRTUAL">>, <<>>, <<>>, "virtual"),
    Method(<<"REF">>, <<>>, <<>>, "ref"),
    Method(<<"REF">>, <<"[", "]">>, <<>>, "ref []"),
    Method(<<>>, <<"+">>, <<>>, "+"),
    Method(<<>>, <<"-">>, <<>>, "-"),
    Method(<<>>, <<"*">>, <<>>, "*"),
    Method(<<>>, <<>>, <<>>, ""),
    Method(<<"TSTATIC">>, <<>>, <<>>, "static"),
    Method(<<>>, <<>>, <<"OVERRIDE">>, "override"),
    Method(<<>>, <<>>, <<"CONST", "OVERRIDE">>, "const override"),
    Method(<<>>, <<>>, <<"CONST">>, "const"),
    Rule("args_decl", <<>>, "VariableList", "", <<>>),
    Rule("args_decl", <<"method_var_decl">>, "VariableList", "", <<1>>),
    Rule("args_decl", <<"args_decl", ",", "method_var_decl">>, "append", "", <<3>>),
    Leaf("ident", "TIDENIFIER", "Identifier"),
    Leaf("numeric_literal", "INTEGER_LITERAL", "Integer"),
    Leaf("numeric_literal", "FLOAT_LITERAL", "Float"),
    Leaf("numeric_literal", "DOUBLE_LITERAL", "Double"),
    Leaf("string_literal", "TSTRING", "String"),
    Leaf("access_modifier", "ACCESS_MODIFIER", "AccessModifier")>>

\* Tokens of binary operators, and how the operator is written.
Binary(token, text) ==
    Rule("expr", <<"expr", token, "expr">>, "BinaryOperator", text, <<1, 3>>)

ExpressionRules ==
    <<Rule("unary_expr", <<"-", "expr">>, "UnaryExpression", "-", <<2>>),
      Rule("unary_expr", <<"!", "expr">>, "UnaryExpression", "!", <<2>>),
      Rule("expr", <<"TNEW", "expr">>, "NewExpression", "", <<2>>),
      Rule("expr", <<"TNULL">>, "NullExpr", "", <<>>),
      Rule("expr", <<"THIS">>, "ThisExpr", "", <<>>),
      Rule("expr", <<"expr", ".", "expr">>, "EnumTypeName", "", <<1, 3>>),
      Rule("expr", <<"expr", "ADDEQ", "expr">>, "Assignment", "+=", <<1, 3>>),
      Rule("expr", <<"expr", "MULEQ", "expr">>, "Assignment", "*=", <<1, 3>>),
      Rule("expr", <<"ident", "(", "call_args", ")">>, "MethodOrFunctionCall", "", <<1, 3>>)>>
    \o Choice("expr", <<"ident", "numeric_literal", "string_literal", "char_literal">>) \o
    <<Binary("%", "%"), Binary("=", "="), Binary("*", "*"), Binary("/", "/"),
      Binary("+", "+"), Binary("-", "-"), Binary("EQ", "=="), Binary("NOTEQ", "!="),
      Binary("GE", ">="), Binary("<", "<"), Binary(">", ">"),
      Rule("expr", <<"(", "expr", ")">>, "pass", "", <<2>>)>>
    \o Choice("expr", <<"ternary_conditional_exp", "unary_expr", "postfix_expr", "prefix_expr",
                        "array_access_expr", "cast_expr", "instanceof_expr">>) \o
    <<Rule("ternary_conditional_exp", <<"expr", "?", "expr", ":", "expr">>,
           "TrinaryExpression", "", <<1, 3, 5>>),
      Rule("call_args", <<>>, "ExpressionList", "", <<>>),
      Rule("call_args", <<"expr">>, "ExpressionList", "", <<1>>),
      Rule("call_args", <<"call_args", ",", "expr">>, "append", "", <<3>>),
      Rule("enum_decl", <<"ENUM", "ident", "{", "enum_body", "}">>,
           "EnumerationDeclaration", "", <<2, 4>>),
      Rule("enum_body", <<"ident">>, "EnumerationBody", "", <<1>>),
      Rule("enum_body", <<"enum_body", ",", "ident">>, "append", "", <<3>>)>>

ParserRules == TypeRules \o StatementRules \o MemberRules \o ControlRules
         \o VariableRules \o FunctionRules \o ExpressionRules

\* The %left declarations, the weakest first.
ParserLevels == <<{"EQ"}, {"="}, {"%"}, {"+", "-"}, {"*", "/"}, {"INSTANCEOF"}, {"."}>>

ParserStart == "program"

\* Tokens the scanner returns and no rule uses.
ParserOtherTokens == {"LE", "SUBEQ", "DIVEQ", "MODEQ"}

-----------------------------------------------------------------------------
\* The value of a reduction by the n-th of rules; a token is a node as well.
ValueOf(rules, n, values) ==
    LET rule == rules[n]
        part(j) == IF j = 0 THEN Null ELSE values[j]
    IN  CASE rule.kind = "pass"   -> values[rule.parts[1]]
          [] rule.kind = "append" -> [values[1] EXCEPT !.parts = Append(@, values[rule.parts[1]])]
          [] OTHER -> Node(rule.kind, IF rule.text = "$1" THEN values[1].text ELSE rule.text,
                           [j \in DOMAIN rule.parts |-> part(rule.parts[j])])

\* Of the characters written with a backslash, two are known; on the others the
\* action of char_literal asserts, and does nothing else.
EscapesRefused == {"\\n", "\\t"}
AssertionFails(n, values) == ParserRules[n].kind = "Char" /\ values[1].text \in EscapesRefused

\* Without assertions it leaves bison's default, the value of the token, where a
\* node belongs.
WhereActionSays(n, values, value) == IF AssertionFails(n, values) THEN values[1] ELSE value

\* Seeded fault: the element of a list is put first.
SemanticActionPrepends(n, values) ==
    IF ParserRules[n].kind = "append"
    THEN [values[1] EXCEPT !.parts = <<values[ParserRules[n].parts[1]]>> \o @]
    ELSE WhereActionSays(n, values, ValueOf(ParserRules, n, values))

\* Seeded fault: a rule that hands on a symbol has no action, and bison's default
\* hands on the first.
SemanticActionForgotten(n, values) ==
    IF ParserRules[n].kind = "pass" THEN values[1]
    ELSE WhereActionSays(n, values, ValueOf(ParserRules, n, values))

SemanticAction(n, values) == WhereActionSays(n, values, ValueOf(ParserRules, n, values))
=============================================================================
