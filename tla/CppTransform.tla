---------------------------- MODULE CppTransform ----------------------------
(* class CppTransform (main.cpp): one depth-first walk over the syntax tree  *)
(* that writes C++ while it collects the names the rendering depends on.     *)
(* Every action is the visit of one node; the module Transpiler runs the     *)
(* walk twice and adds main().                                               *)
EXTENDS Integers, Sequences, SequencesExt, SyntaxTree, SymbolTable

CONSTANTS
    Programs,        \* syntax trees the parser may deliver
    IfcNames,        \* the type names that start with "Ifc"
    IFCNames,        \* the type names that start with "IFC"
    ifcNames,        \* the variable names that start with "ifc"
    ExpressSchemas   \* the import names that end in ".exp"

\* The grammar: a tree is a sequence of nodes, and its bodies are bracketed.
ASSUME ProgramsAssumption == \A p \in Programs : p \in Seq(Node) /\ Bracketed(p)
\* The identifiers the transform supplies; "" is the identifier that is missing.
ASSUME NameAssumption == {"", "main", "args", "string"} \subseteq Name

VARIABLES
    phase,           \* where main() is; "pass1" and "pass2" are the two walks
    program,         \* programBlock, as the sequence of its nodes
    sourceDirectory, \* g_SourceDirectory # ""
    assertions,      \* the build keeps assert() (NDEBUG is not defined)
    next,            \* the node the walk visits next
    out,             \* what the current walk has written, as C++ fragments
    moduleName,
    classNames,      \* a vector: seeded before pass 2, appended to by visits
    enumNames,
    baseClasses,     \* Map<string, string>: class to base class
    symbolTable,
    deferredOutput,  \* static initialisers waiting for the end of the class
    bFoundMainFunction,
    bUseIfcPLMath,
    bIArbitraryTransitionCurveImport,
    g_schemaName,    \* global: survives from one walk to the next
    oipExpressRuns,  \* the schemas oipExpress was run for, in order
    generated        \* those it has generated: a run of it may fail

input   == <<program, sourceDirectory, assertions>>
flags   == <<bFoundMainFunction, bUseIfcPLMath, bIArbitraryTransitionCurveImport>>
tables  == <<classNames, enumNames, baseClasses, symbolTable, deferredOutput>>
globals == <<g_schemaName, oipExpressRuns, generated>>
transformVars == <<phase, input, next, out, moduleName, tables, flags, globals>>

-----------------------------------------------------------------------------
(* The C++ fragments the properties tell apart.                              *)

Part == {"forward", "include", "enum", "begin", "end", "result", "parameter", "field",
         "variable", "functionResult", "array", "definition", "base", "access", "nested",
         "element", "new", "factory"}
\* How a type, an operator or a body is written.
Form == {"schema", "library", "class", "interface", "function",
         "IfcPLString", "PropertySet", "shared_ptr", "reference", "plain", "make_shared",
         "->", "->m_", "::", ".push_back", ".size", "->m_value",
         "[]", "->operator[]", "*->operator[].get"}
Use == {"call", "member", "add", "count", "getValue", "MethodCall", "Identifier", "Other"}

Fragment == [part : Part, name : Name, type : Name \union Use, as : Name \union Form]

fragment(part, name, type, as) ==
    [part |-> part, name |-> name, type |-> type, as |-> as]

Visiting(node) ==
    /\ phase \in {"pass1", "pass2"}
    /\ next \in 1..Len(program)
    /\ program[next].node = node
    /\ next' = next + 1
    /\ UNCHANGED <<phase, input>>

Visited == program[next]

Emit(fragments) == out' = out \o fragments

-----------------------------------------------------------------------------
(* Types.                                                                    *)

ValueTypes == {"char", "int", "float", "double"}
LibraryTypes == {"IVector2D", "Vector2d", "Vector3d", "Vector4d", "Matrix44d"}

isReferenceTypeIn(type, classes) ==
    /\ type \notin ValueTypes
    /\ type \in IfcNames \union IFCNames \union LibraryTypes \union classes

isReferenceType(type) == isReferenceTypeIn(type, Range(classNames))

\* Results of methods and of interface methods.
ResultType(type) ==
    IF type = "string" THEN "IfcPLString"
    ELSE IF isReferenceType(type) THEN "shared_ptr" ELSE "plain"

\* Fields: the two questions are asked the other way round.
FieldType(type) ==
    IF isReferenceType(type) THEN "shared_ptr"
    ELSE IF type = "string" THEN "IfcPLString" ELSE "plain"

\* Local variables, and the parameters of constructors (visited as such).
VariableType(v) ==
    IF v.type = "XIfcPropertySet" THEN "PropertySet"
    ELSE IF v.type = "string" THEN "IfcPLString"
    ELSE IF isReferenceType(v.type) THEN "shared_ptr"
    ELSE IF v.isReferenceType THEN "reference" ELSE "plain"

\* Parameters of methods.
MethodParameterType(p) ==
    IF isReferenceType(p.type) THEN "shared_ptr"
    ELSE IF p.isReferenceType THEN "reference"
    ELSE IF p.type = "string" THEN "IfcPLString" ELSE "plain"

\* Parameters of interface methods: there is no by-reference case.
InterfaceParameterType(p) ==
    IF isReferenceType(p.type) THEN "shared_ptr"
    ELSE IF p.type = "string" THEN "IfcPLString" ELSE "plain"

\* Parameters of functions: there is no string case.
FunctionParameterType(p) ==
    IF p.isReferenceType THEN "reference"
    ELSE IF isReferenceType(p.type) THEN "shared_ptr" ELSE "plain"

\* The result of a function is written as it stands, except for operator+.
FunctionResultType(f) ==
    IF f.OperationType = "Plus" /\ isReferenceType(f.type) THEN "shared_ptr" ELSE "plain"

ParameterType(n, p) ==
    CASE n.node = "InterfaceMethod" -> InterfaceParameterType(p)
      [] n.node = "MethodDeclaration" -> MethodParameterType(p)
      [] n.node = "CtorDeclaration" -> IF p.isArray THEN "plain" ELSE VariableType(p)
      [] n.node = "FunctionDeclaration" -> FunctionParameterType(p)

\* The parameter list of n.  Only a constructor knows its array parameters;
\* anywhere else an array parameter is written as one element.
ParameterPart(n, p) ==
    IF n.node = "CtorDeclaration" /\ p.isArray THEN "array" ELSE "parameter"
Parameters(n) ==
    [i \in 1..Len(n.arguments) |->
        fragment(ParameterPart(n, n.arguments[i]), n.arguments[i].id, n.arguments[i].type,
                 ParameterType(n, n.arguments[i]))]

-----------------------------------------------------------------------------
(* What a declaration adds to the symbol table.                              *)

ExpressSymbol(id, type) == symbolDescription(id, type, TRUE, FALSE)
ArraySymbol(id, type) == symbolDescription(id, type, FALSE, TRUE)

\* Seeded fault: the entry is added, but isExpressType keeps its default.
VariableSymbolsUnmarked(v) ==
    IF v.type \in IfcNames THEN {symbolDescription(v.id, v.type, FALSE, FALSE)} ELSE {}

\* The entry of one declared variable or field: only EXPRESS types are entered.
VariableSymbols(v) ==
    IF v.type \in IfcNames THEN {ExpressSymbol(v.id, v.type)} ELSE {}

\* A method parameter named ifc... is entered with the type of the METHOD.
MethodSymbols(m) ==
    {ExpressSymbol(p.id, m.type) : p \in {q \in Range(m.arguments) : q.id \in ifcNames}}
    \union UNION {VariableSymbols(p) : p \in Range(m.arguments)}

\* The parameters of main are replaced before they are looked at.
FunctionSymbols(f) ==
    IF f.id = "main" THEN {} ELSE UNION {VariableSymbols(p) : p \in Range(f.arguments)}

CtorSymbols(c) ==
    UNION {IF p.isArray THEN {ArraySymbol(p.id, p.type)} ELSE VariableSymbols(p) :
              p \in Range(c.arguments)}

-----------------------------------------------------------------------------
(* Access to members and elements.                                           *)

EmbeddedEnums == {"IfcBooleanOperator", "IfcProfileTypeEnum"}
isEnum(name) == name \in Range(enumNames) \union EmbeddedEnums

\* The operator written between id and its member.
AccessOperator(id, isMethodCall) ==
    IF isMethodCall THEN "->"
    ELSE IF isExpressType(symbolTable, id) THEN "->m_"
    ELSE IF isEnum(id) THEN "::" ELSE "->"

\* EXPRESS aggregates that a nested access treats itself.
Aggregates == {"DirectionRatios", "Coordinates", "Points", "ListValues",
               "HasProperties", "Segments"}
CountedAggregates == {"HasProperties", "Segments"}

\* What follows id.member in id.member.rhs, for an EXPRESS id.  On an aggregate
\* every rhs but add (and count, on two of them) is dropped.
NestedOperator(n) ==
    IF n.member \in Aggregates
    THEN IF n.rhs = "add" THEN ".push_back"
         ELSE IF n.rhs = "count" /\ n.member \in CountedAggregates THEN ".size" ELSE ""
    ELSE IF n.member = "Name"
    THEN IF n.rhs \in {"Identifier", "getValue"} THEN "->m_value" ELSE ""
    ELSE "->"

\* How an element of id is addressed.
ElementOperator(id) ==
    IF id \in {"HasProperties", "Segments", "ListValues"} THEN "[]"
    ELSE IF isStringArrayType(symbolTable, id) THEN "*->operator[].get" ELSE "->operator[]"

-----------------------------------------------------------------------------
(* Nodes the walk cannot translate; bases is the domain of baseClasses_.     *)

\* assert(false) or a failing assert in the visit of n.
AssertionFails(n, bases, symbols) ==
    \/ n.node = "MethodDeclaration" /\ n.OperatorType \in {"Minus", "Multiplication"}
    \/ n.node = "NewExpression" /\ ~n.isMethodCall
    \/ n.node = "CtorDeclaration" /\ n.hasBaseClassCtor /\ n.id \notin bases
    \/ /\ n.node = "NestedAccess" /\ n.member = "Name" /\ n.rhs = "Other"
       /\ isExpressType(symbols, n.id)

\* throw std::runtime_error("base class not found").
Throws(n, bases) ==
    n.node = "CtorDeclaration" /\ n.hasBaseClassCtor /\ n.id \notin bases

Untranslatable(n, bases, symbols) ==
    (assertions /\ AssertionFails(n, bases, symbols)) \/ Throws(n, bases)

\* The visit of the next node neither aborts the process nor throws.
Translatable == ~Untranslatable(Visited, DOMAIN baseClasses, symbolTable)

-----------------------------------------------------------------------------
(* The walk.                                                                 *)

\* Seeded fault: the forward declarations are not written.
NoForwardDeclarations(classes) == <<>>

writeClassForwardDeclarations(classes) ==
    [i \in 1..Len(classes) |-> fragment("forward", classes[i], "", "")]

\* A fresh CppTransform: the prolog writes no fragment a property looks at.
\* classes and enums are what setClassNames and setEnumNames seed it with, and
\* one forward declaration is written for every seeded class.
Construct(classes, enums) ==
    /\ next' = 1
    /\ out' = writeClassForwardDeclarations(classes)
    /\ moduleName' = "main"
    /\ classNames' = classes
    /\ enumNames' = enums
    /\ baseClasses' = <<>>
    /\ symbolTable' = {}
    /\ deferredOutput' = <<>>
    /\ bFoundMainFunction' = FALSE
    /\ bUseIfcPLMath' = FALSE
    /\ bIArbitraryTransitionCurveImport' = FALSE

VisitModuleStatement ==
    /\ Visiting("ModuleStatement")
    /\ moduleName' = Visited.name
    /\ UNCHANGED <<out, tables, flags, globals>>

\* What oipExpress leaves: the schema, or nothing.  The status of system() is not
\* looked at.
RunOipExpress(schema) ==
    /\ oipExpressRuns' = Append(oipExpressRuns, schema)
    /\ generated' \in {generated, generated \union {schema}}

\* Seeded fault: the schema is noted also when oipExpress is not run.
VisitSchemaImportEager ==
    /\ Visiting("ImportStatement")
    /\ Visited.name \in ExpressSchemas
    /\ g_schemaName' = Visited.name
    /\ IF sourceDirectory
       THEN /\ RunOipExpress(Visited.name)
            /\ Emit(<<fragment("include", Visited.name, "", "schema")>>)
       ELSE UNCHANGED <<oipExpressRuns, generated, out>>
    /\ UNCHANGED <<moduleName, tables, flags>>

\* An EXPRESS schema is ignored when the source file was named without a
\* directory; otherwise oipExpress is run, in either walk, after the schema was
\* noted and the include lines were written.
VisitSchemaImport ==
    /\ Visiting("ImportStatement")
    /\ Visited.name \in ExpressSchemas
    /\ IF sourceDirectory
       THEN /\ g_schemaName' = Visited.name
            /\ RunOipExpress(Visited.name)
            /\ Emit(<<fragment("include", Visited.name, "", "schema")>>)
       ELSE UNCHANGED <<globals, out>>
    /\ UNCHANGED <<moduleName, tables, flags>>

VisitLibraryImport ==
    /\ Visiting("ImportStatement")
    /\ Visited.name \notin ExpressSchemas
    /\ bIArbitraryTransitionCurveImport' =
           (bIArbitraryTransitionCurveImport \/ Visited.name = "ArbitraryTransitionCurve")
    /\ bUseIfcPLMath' = (bUseIfcPLMath \/ Visited.name = "Math")
    /\ Emit(<<fragment("include", Visited.name, "", "library")>>)
    /\ UNCHANGED <<moduleName, tables, bFoundMainFunction, globals>>

VisitEnumerationDeclaration ==
    /\ Visiting("EnumerationDeclaration")
    /\ enumNames' = Append(enumNames, Visited.id)
    /\ Emit(<<fragment("enum", Visited.id, "", "")>>)
    /\ UNCHANGED <<moduleName, classNames, baseClasses, symbolTable, deferredOutput,
                   flags, globals>>

\* Interfaces are not entered in classNames_.
VisitInterfaceDeclaration ==
    /\ Visiting("InterfaceDeclaration")
    /\ Emit(<<fragment("begin", Visited.id, "", "interface")>>)
    /\ UNCHANGED <<moduleName, tables, flags, globals>>

VisitInterfaceMethod ==
    /\ Visiting("InterfaceMethod")
    /\ Emit(<<fragment("result", Visited.id, Visited.type, ResultType(Visited.type))>>
              \o Parameters(Visited))
    /\ UNCHANGED <<moduleName, tables, flags, globals>>

\* Seeded fault: a class that is already known is not registered again.
VisitClassDeclarationOnce ==
    /\ Visiting("ClassDeclaration")
    /\ classNames' = Append(classNames, Visited.id)
    /\ baseClasses' = IF Visited.hasBaseClass /\ Visited.id \notin Range(classNames)
                       THEN [c \in DOMAIN baseClasses \union {Visited.id} |->
                               IF c = Visited.id THEN Visited.baseClass ELSE baseClasses[c]]
                       ELSE baseClasses
    /\ Emit(<<fragment("begin", Visited.id,
                       IF Visited.hasBaseClass THEN Visited.baseClass ELSE "", "class")>>)
    /\ UNCHANGED <<moduleName, enumNames, symbolTable, deferredOutput, flags, globals>>

VisitClassDeclaration ==
    /\ Visiting("ClassDeclaration")
    /\ classNames' = Append(classNames, Visited.id)
    /\ baseClasses' = IF Visited.hasBaseClass
                       THEN [c \in DOMAIN baseClasses \union {Visited.id} |->
                               IF c = Visited.id THEN Visited.baseClass ELSE baseClasses[c]]
                       ELSE baseClasses
    /\ Emit(<<fragment("begin", Visited.id,
                       IF Visited.hasBaseClass THEN Visited.baseClass ELSE "", "class")>>)
    /\ UNCHANGED <<moduleName, enumNames, symbolTable, deferredOutput, flags, globals>>

\* Seeded fault: the deferred output is not cleared.
EndClassDeclarationKeeps ==
    /\ Visiting("EndClass")
    /\ Emit(<<fragment("end", "", "", "class")>> \o deferredOutput)
    /\ UNCHANGED deferredOutput
    /\ UNCHANGED <<moduleName, classNames, enumNames, baseClasses, symbolTable,
                   flags, globals>>

\* "};", then everything deferred so far.
EndClassDeclaration ==
    /\ Visiting("EndClass")
    /\ Emit(<<fragment("end", "", "", "class")>> \o deferredOutput)
    /\ deferredOutput' = <<>>
    /\ UNCHANGED <<moduleName, classNames, enumNames, baseClasses, symbolTable,
                   flags, globals>>

\* The initialiser of a static field is deferred, qualified by the class that
\* was entered last.  The field is entered in the symbol table at the end.
VisitClassVariable ==
    /\ Visiting("ClassVariable")
    /\ Emit(<<fragment("field", Visited.id, Visited.type, FieldType(Visited.type))>>)
    /\ deferredOutput' =
           IF Visited.isInitialised /\ Visited.isStatic
           THEN Append(deferredOutput,
                       fragment("definition", Visited.id, Visited.type,
                                classNames[Len(classNames)]))
           ELSE deferredOutput
    /\ symbolTable' = symbolTable \union VariableSymbols(Visited)
    /\ UNCHANGED <<moduleName, classNames, enumNames, baseClasses, flags, globals>>

\* An array field is not entered in the symbol table.
VisitClassArray ==
    /\ Visiting("ClassArray")
    /\ Emit(<<fragment("array", Visited.id, Visited.type, "plain")>>)
    /\ UNCHANGED <<moduleName, tables, flags, globals>>

VisitMethodDeclaration ==
    /\ Visiting("MethodDeclaration")
    /\ Translatable
    /\ symbolTable' = symbolTable \union MethodSymbols(Visited)
    /\ Emit(<<fragment("result", Visited.id, Visited.type, ResultType(Visited.type))>>
              \o Parameters(Visited)
              \o <<fragment("begin", Visited.id, "", "function")>>)
    /\ UNCHANGED <<moduleName, classNames, enumNames, baseClasses, deferredOutput,
                   flags, globals>>

VisitCtorDeclaration ==
    /\ Visiting("CtorDeclaration")
    /\ Translatable
    /\ symbolTable' = symbolTable \union CtorSymbols(Visited)
    /\ Emit(Parameters(Visited)
              \o (IF Visited.hasBaseClassCtor
                  THEN <<fragment("base", baseClasses[Visited.id], "", "")>> ELSE <<>>)
              \o <<fragment("begin", Visited.id, "", "function")>>)
    /\ UNCHANGED <<moduleName, classNames, enumNames, baseClasses, deferredOutput,
                   flags, globals>>

\* The parameters of main become argc and argv; with exactly one parameter the
\* body starts by copying them to the string array args.
VisitFunctionDeclaration ==
    /\ Visiting("FunctionDeclaration")
    /\ bFoundMainFunction' = (bFoundMainFunction \/ Visited.id = "main")
    /\ symbolTable' = symbolTable \union FunctionSymbols(Visited)
    /\ Emit(<<fragment("functionResult", Visited.id, Visited.type,
                       FunctionResultType(Visited))>>
              \o (IF Visited.id = "main" THEN <<>>
                  ELSE Parameters(Visited))
              \o <<fragment("begin", Visited.id, "", "function")>>
              \o (IF Visited.id = "main" /\ Len(Visited.arguments) = 1
                  THEN <<fragment("array", "args", "string", "IfcPLString")>> ELSE <<>>))
    /\ UNCHANGED <<moduleName, classNames, enumNames, baseClasses, deferredOutput,
                   bUseIfcPLMath, bIArbitraryTransitionCurveImport, globals>>

EndBody ==
    /\ \/ Visiting("EndFunction") /\ Emit(<<fragment("end", "", "", "function")>>)
       \/ Visiting("EndInterface") /\ Emit(<<fragment("end", "", "", "interface")>>)
    /\ UNCHANGED <<moduleName, tables, flags, globals>>

\* The variable is entered before its initialiser is visited.
VisitVariableDeclaration ==
    /\ Visiting("VariableDeclaration")
    /\ symbolTable' = symbolTable \union VariableSymbols(Visited)
    /\ Emit(<<fragment("variable", Visited.id, Visited.type, VariableType(Visited))>>)
    /\ UNCHANGED <<moduleName, classNames, enumNames, baseClasses, deferredOutput,
                   flags, globals>>

VisitArrayDeclaration ==
    /\ Visiting("ArrayDeclaration")
    /\ symbolTable' = symbolTable \union {ArraySymbol(Visited.id, Visited.type)}
    /\ Emit(<<fragment("array", Visited.id, Visited.type, "plain")>>)
    /\ UNCHANGED <<moduleName, classNames, enumNames, baseClasses, deferredOutput,
                   flags, globals>>

VisitMemberAccess ==
    /\ Visiting("MemberAccess")
    /\ Emit(<<fragment("access", Visited.id,
                       IF Visited.isMethodCall THEN "call" ELSE "member",
                       AccessOperator(Visited.id, Visited.isMethodCall))>>)
    /\ UNCHANGED <<moduleName, tables, flags, globals>>

VisitNestedAccess ==
    /\ Visiting("NestedAccess")
    /\ Translatable
    /\ Emit(<<fragment("access", Visited.id, "member", AccessOperator(Visited.id, FALSE)),
              fragment("nested", Visited.member, Visited.rhs,
                       IF isExpressType(symbolTable, Visited.id)
                       THEN NestedOperator(Visited) ELSE "->")>>)
    /\ UNCHANGED <<moduleName, tables, flags, globals>>

VisitArrayAccess ==
    /\ Visiting("ArrayAccess")
    /\ Emit(<<fragment("element", Visited.id, "", ElementOperator(Visited.id))>>)
    /\ UNCHANGED <<moduleName, tables, flags, globals>>

VisitNewExpression ==
    /\ Visiting("NewExpression")
    /\ Translatable
    /\ Emit(<<fragment("new", Visited.id, "",
                       IF Visited.isMethodCall THEN "make_shared" ELSE "plain")>>)
    /\ UNCHANGED <<moduleName, tables, flags, globals>>

\* assert aborts the process in a build that keeps it; where it is compiled
\* out, a missing base class is an exception that main() catches.
Fail ==
    /\ phase \in {"pass1", "pass2"}
    /\ next \in 1..Len(program)
    /\ ~Translatable
    /\ phase' = IF assertions THEN "aborted" ELSE "caught"
    /\ UNCHANGED <<input, next, out, moduleName, tables, flags, globals>>

Visit ==
    \/ VisitModuleStatement
    \/ VisitSchemaImport
    \/ VisitLibraryImport
    \/ VisitEnumerationDeclaration
    \/ VisitInterfaceDeclaration
    \/ VisitInterfaceMethod
    \/ VisitClassDeclaration
    \/ EndClassDeclaration
    \/ VisitClassVariable
    \/ VisitClassArray
    \/ VisitMethodDeclaration
    \/ VisitCtorDeclaration
    \/ VisitFunctionDeclaration
    \/ EndBody
    \/ VisitVariableDeclaration
    \/ VisitArrayDeclaration
    \/ VisitMemberAccess
    \/ VisitNestedAccess
    \/ VisitArrayAccess
    \/ VisitNewExpression

\* Seeded fault: the file is opened anew for the epilog.
writeEpilogTruncating ==
    out' = IF bIArbitraryTransitionCurveImport
           THEN <<fragment("factory", moduleName, "", "")>> ELSE out

\* After the walk: the factory function of an arbitrary transition curve, which
\* takes the module's name for the name of the class.
writeEpilog ==
    Emit(IF bIArbitraryTransitionCurveImport
         THEN <<fragment("factory", moduleName, "", "")>> ELSE <<>>)
=============================================================================
