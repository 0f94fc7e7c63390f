----------------------------- MODULE NodeClasses -----------------------------
(* The classes of node.h: what each derives from, and as which class it      *)
(* reads each of the nodes it is constructed with.  bison hands the nodes on *)
(* in a union without tags (parser.y 14-49), so that no compiler sees        *)
(* whether a node is of the class it is read as.                             *)
EXTENDS Naturals, Sequences, TLC

\* A part is read as a reference, or through a pointer that may be null, as
\* those may be that the visits of CppTransform test.
Ref(class) == [class |-> class, optional |-> FALSE]
Opt(class) == [class |-> class, optional |-> TRUE]

Derived(base, parts) == [base |-> base, parts |-> parts, each |-> FALSE]
\* A list, with any number of parts of one class.
ListOf(base, part) == [base |-> base, parts |-> <<part>>, each |-> TRUE]

Bases == [kind \in {"Expression", "Statement", "ClassMember"} |-> Derived("Node", <<>>)]

\* Nodes without parts.
LiteralClasses    == [kind \in {"Char", "Integer", "Double", "Float"} |-> Derived("Expression", <<>>)]
StringsAndNames   == [String         |-> Derived("Expression", <<>>),
                      AccessModifier |-> Derived("Node", <<>>),
                      Identifier     |-> Derived("Expression", <<>>)]
JumpStatements    == [kind \in {"BreakStatement", "ContinueStatement"} |-> Derived("Statement", <<>>)]
ThisAndNull       == [kind \in {"ThisExpr", "NullExpr"} |-> Derived("Expression", <<>>)]

TwoExpressions == Derived("Expression", <<Ref("Expression"), Ref("Expression")>>)
UnaryAndTrinary ==
    [UnaryExpression   |-> Derived("Expression", <<Ref("Expression")>>),
     TrinaryExpression |-> Derived("Expression", <<Ref("Expression"), Ref("Expression"), Ref("Expression")>>)]
CallsAndOperators ==
    [MethodOrFunctionCall |-> Derived("Expression", <<Ref("Identifier"), Ref("ExpressionList")>>),
     BinaryOperator       |-> TwoExpressions]
AssignmentsAndAccesses == [kind \in {"Assignment", "EnumTypeName"} |-> TwoExpressions]

SimpleStatements ==
    [Block               |-> ListOf("Statement", Ref("Statement")),
     ThrowStatement      |-> Derived("Statement", <<Ref("Expression")>>),
     NewExpression       |-> Derived("Expression", <<Ref("Expression")>>),
     ExpressionStatement |-> Derived("Statement", <<Ref("Expression")>>),
     ReturnStatement     |-> Derived("Statement", <<Opt("Expression")>>)]

ArraysAndVariables ==
    [ArrayCreationExpression |-> Derived("Statement", <<Ref("Identifier"), Ref("Expression")>>),
     ArrayAccess         |-> Derived("Expression", <<Ref("Identifier"), Ref("Expression"), Opt("Expression")>>),
     VariableDeclaration |-> Derived("Statement", <<Ref("Identifier"), Ref("Identifier"), Opt("Expression")>>),
     ArrayDeclaration    |-> Derived("VariableDeclaration",
                                <<Ref("Identifier"), Ref("Identifier"), Opt("ArrayCreationExpression")>>)]

\* The innermost collection has an Identifier, every other one a collection,
\* for which Statement is enough.
Collections(text) ==
    [CollectionParamterDeclaration |->
        Derived("Statement", IF text = "" THEN <<Ref("Identifier")>> ELSE <<Ref("Statement")>>),
     CollectionVariableDeclaration |-> Derived("VariableDeclaration", <<Ref("Statement"), Ref("Identifier")>>)]

ControlStatements ==
    [IfStatement      |-> Derived("Statement", <<Ref("Expression"), Ref("Statement"), Opt("Statement")>>),
     ForStatement     |-> Derived("Statement",
                            <<Opt("Statement"), Opt("Expression"), Opt("Statement"), Opt("Statement")>>),
     WhileStatement   |-> Derived("Statement", <<Opt("Expression"), Opt("Block")>>),
     DoWhileStatement |-> Derived("Statement", <<Opt("Block"), Opt("Expression")>>)]

\* The visit follows the expression of a case, and not that of default.
Switches(text) ==
    [SwitchLabel     |-> Derived("Node", <<IF text = "Case" THEN Ref("Expression") ELSE Opt("Expression")>>),
     SwitchSection   |-> Derived("Node", <<Ref("SwitchLabel"), Opt("Block")>>),
     SwitchSections  |-> ListOf("Node", Ref("SwitchSection")),
     SwitchStatement |-> Derived("Statement", <<Opt("Expression"), Opt("SwitchSections")>>)]

FunctionsAndCasts ==
    [FunctionDeclaration  |-> Derived("Statement",
                                <<Ref("Identifier"), Ref("Identifier"), Ref("VariableList"), Ref("Block")>>),
     InstanceOfExpression |-> Derived("Expression", <<Ref("Expression"), Ref("Identifier")>>),
     CastExpression       |-> Derived("Expression", <<Ref("Identifier"), Ref("Expression")>>)]

\* An import keeps the names of one or two identifiers.
ImportsAndSigns ==
    [ImportStatement |-> ListOf("Statement", Ref("Identifier")),
     ModuleStatement |-> Derived("Statement", <<Ref("Identifier")>>)]
    @@ [kind \in {"PrefixExpression", "PostfixExpression"} |-> Derived("Expression", <<Ref("Identifier")>>)]

ClassMembers ==
    [InterfaceMethod   |-> Derived("Node", <<Ref("Identifier"), Ref("Identifier"), Ref("VariableList")>>),
     MethodDeclaration |-> Derived("ClassMember",
        <<Ref("AccessModifier"), Ref("Identifier"), Ref("Identifier"), Ref("VariableList"), Ref("Block")>>),
     CtorDeclaration   |-> Derived("ClassMember",
        <<Ref("AccessModifier"), Ref("Identifier"), Ref("VariableList"), Ref("Block"), Opt("ExpressionList")>>),
     ClassVariable     |-> Derived("ClassMember", <<Ref("AccessModifier"), Ref("VariableDeclaration")>>),
     ClassArray        |-> Derived("ClassMember", <<Ref("AccessModifier"), Ref("ArrayDeclaration")>>)]

ClassesAndEnumerations ==
    [ClassBody              |-> ListOf("Node", Ref("ClassMember")),
     InterfaceBody          |-> ListOf("Node", Ref("InterfaceMethod")),
     ClassDeclaration       |-> Derived("Node", <<Ref("Identifier"), Opt("Identifier"), Opt("ClassBody")>>),
     InterfaceDeclaration   |-> Derived("Node", <<Ref("Identifier"), Opt("InterfaceBody")>>),
     EnumerationBody        |-> ListOf("Node", Ref("Identifier")),
     EnumerationDeclaration |-> Derived("Node", <<Ref("Identifier"), Ref("EnumerationBody")>>)]

\* The vectors of node.h are no nodes.
Lists ==
    [VariableList   |-> ListOf("", Ref("VariableDeclaration")),
     ExpressionList |-> ListOf("", Ref("Expression"))]

Classes ==
    Bases @@ LiteralClasses @@ StringsAndNames @@ JumpStatements @@ ThisAndNull @@ UnaryAndTrinary
    @@ CallsAndOperators @@ AssignmentsAndAccesses @@ SimpleStatements @@ ArraysAndVariables
    @@ ControlStatements @@ FunctionsAndCasts @@ ImportsAndSigns @@ ClassMembers @@ ClassesAndEnumerations
    @@ Lists

\* A token is no node.
ClassOf(e) ==
    IF e.kind \in DOMAIN Classes              THEN Classes[e.kind]
    ELSE IF e.kind \in DOMAIN Collections("") THEN Collections(e.text)[e.kind]
    ELSE IF e.kind \in DOMAIN Switches("")    THEN Switches(e.text)[e.kind]
    ELSE Derived("", <<>>)

\* The class itself and those it derives from; no class is three below Node.
Chain(e) ==
    LET base == ClassOf(e).base IN
    {e.kind, base} \union (IF base \in DOMAIN Classes THEN {Classes[base].base} ELSE {})

\* What a node says of itself (getType); a new calls itself a call.
GetType(e) ==
    CASE e.kind \in {"MethodOrFunctionCall", "NewExpression"}    -> "MethodCall"
      [] e.kind \in {"Identifier", "ThisExpr", "EnumTypeName"} -> e.kind
      [] OTHER -> "Unknown"

-----------------------------------------------------------------------------
\* How the parts of a tree are read.

PartOf(e, j) == LET class == ClassOf(e) IN class.parts[IF class.each THEN 1 ELSE j]
Constructed(e) == ClassOf(e).each \/ Len(e.parts) = Len(ClassOf(e).parts)

\* Every node has the members of these, for they have none of their own.
Memberless == {"Node", "Expression", "Statement", "ClassMember"}
IsNode(e) == ClassOf(e).base # ""

IsA(e, class)  == class \in Chain(e)
Fits(e, class) == IsA(e, class) \/ (class \in Memberless /\ IsNode(e))

IsNull(e) == e.kind = "nullptr"
=============================================================================
