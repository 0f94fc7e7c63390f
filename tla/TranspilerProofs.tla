--------------------------- MODULE TranspilerProofs ---------------------------
(* For every set of programs: the variables keep their types, and a tree that *)
(* pass 1 got through does not fail in pass 2.  The argument: Knowledge says  *)
(* that the tables a node is met with are a function of the nodes before it,  *)
(* the same in both walks but for the seeds, on which failing does not        *)
(* depend; so pass 2 meets every node as pass 1 did, and pass 1 let it pass.  *)
EXTENDS TranspilerProperties, TLAPS

\* A node is of the class its tag names (the static_casts after a type test).
LEMMA NodeShapes ==
    ASSUME NEW n \in Node
    PROVE  /\ n.node = "ModuleStatement" => n \in ModuleStatement
           /\ n.node = "ImportStatement" => n \in ImportStatement
           /\ n.node = "EnumerationDeclaration" => n \in EnumerationDeclaration
           /\ n.node = "InterfaceDeclaration" => n \in InterfaceDeclaration
           /\ n.node = "InterfaceMethod" => n \in InterfaceMethod
           /\ n.node = "ClassDeclaration" => n \in ClassDeclaration
           /\ n.node = "ClassVariable" => n \in ClassVariable
           /\ n.node = "ClassArray" => n \in ClassArray
           /\ n.node = "MethodDeclaration" => n \in MethodDeclaration
           /\ n.node = "CtorDeclaration" => n \in CtorDeclaration
           /\ n.node = "FunctionDeclaration" => n \in FunctionDeclaration
           /\ n.node = "VariableDeclaration" => n \in VariableDeclaration
           /\ n.node = "ArrayDeclaration" => n \in ArrayDeclaration
           /\ n.node = "MemberAccess" => n \in MemberAccess
           /\ n.node = "NestedAccess" => n \in NestedAccess
           /\ n.node = "ArrayAccess" => n \in ArrayAccess
           /\ n.node = "NewExpression" => n \in NewExpression
  BY DEF Node, ModuleStatement, ImportStatement, EnumerationDeclaration, InterfaceDeclaration,
         InterfaceMethod, ClassDeclaration, ClassVariable, ClassArray, MethodDeclaration,
         CtorDeclaration, FunctionDeclaration, VariableDeclaration, ArrayDeclaration,
         MemberAccess, NestedAccess, ArrayAccess, NewExpression, End

\* A written parameter list is a sequence of fragments.
LEMMA ParametersType ==
    ASSUME NEW n, n.arguments \in Seq(Parameter),
           n.node \in {"InterfaceMethod", "MethodDeclaration", "CtorDeclaration",
                      "FunctionDeclaration"}
    PROVE  Parameters(n) \in Seq(Fragment)
  <1>1. ASSUME NEW p \in Parameter
        PROVE  ParameterType(n, p) \in Form
    <2>1. InterfaceParameterType(p) \in Form
      BY DEF InterfaceParameterType, Form
    <2>2. MethodParameterType(p) \in Form
      BY DEF MethodParameterType, Form
    <2>3. VariableType(p) \in Form
      BY DEF VariableType, Form
    <2>4. FunctionParameterType(p) \in Form
      BY DEF FunctionParameterType, Form
    <2>5. "plain" \in Form
      BY DEF Form
    <2>. QED BY <2>1, <2>2, <2>3, <2>4, <2>5 DEF ParameterType
  <1>2. \A i \in 1..Len(n.arguments) : n.arguments[i] \in Parameter
    OBVIOUS
  <1>3. \A i \in 1..Len(n.arguments) :
           fragment(ParameterPart(n, n.arguments[i]), n.arguments[i].id,
                    n.arguments[i].type, ParameterType(n, n.arguments[i])) \in Fragment
    BY <1>1, <1>2 DEF fragment, Fragment, Parameter, ParameterPart, Part
  <1>4. Len(n.arguments) \in Nat
    OBVIOUS
  <1>. QED BY <1>3, <1>4 DEF Parameters

-----------------------------------------------------------------------------
(* What a prefix of the program declares grows by what the next node declares. *)

\* The class, the derived class and the enum a node declares.
ClassOf(n) == IF n.node = "ClassDeclaration" THEN {n.id} ELSE {}
DerivedOf(n) == IF n.node = "ClassDeclaration" /\ n.hasBaseClass THEN {n.id} ELSE {}
EnumOf(n) == IF n.node = "EnumerationDeclaration" THEN {n.id} ELSE {}

\* One node more declares what that node declares, and nothing else.
LEMMA PrefixStep ==
    ASSUME NEW n \in Nat
    PROVE  /\ ClassesIn(n + 1) = ClassesIn(n) \union ClassOf(program[n + 1])
           /\ DerivedIn(n + 1) = DerivedIn(n) \union DerivedOf(program[n + 1])
           /\ EnumsIn(n + 1) = EnumsIn(n) \union EnumOf(program[n + 1])
           /\ SymbolsIn(n + 1) = SymbolsIn(n) \union SymbolsOf(program[n + 1])
  <1>1. 1..(n + 1) = 1..n \union {n + 1}
    OBVIOUS
  <1>2. ClassesIn(n + 1) = ClassesIn(n) \union ClassOf(program[n + 1])
    BY <1>1 DEF ClassesIn, Nodes, ClassOf
  <1>3. DerivedIn(n + 1) = DerivedIn(n) \union DerivedOf(program[n + 1])
    BY <1>1 DEF DerivedIn, Nodes, DerivedOf
  <1>4. EnumsIn(n + 1) = EnumsIn(n) \union EnumOf(program[n + 1])
    BY <1>1 DEF EnumsIn, Nodes, EnumOf
  <1>5. SymbolsIn(n + 1) = SymbolsIn(n) \union SymbolsOf(program[n + 1])
    BY <1>1 DEF SymbolsIn
  <1>. QED BY <1>2, <1>3, <1>4, <1>5

\* No node, no declaration.
LEMMA PrefixEmpty ==
    ClassesIn(0) = {} /\ DerivedIn(0) = {} /\ EnumsIn(0) = {} /\ SymbolsIn(0) = {}
  BY DEF ClassesIn, DerivedIn, EnumsIn, SymbolsIn, Nodes

\* What a node declares, the program declares.
LEMMA PrefixMember ==
    ASSUME NEW i \in 1..Len(program), Len(program) \in Nat
    PROVE  ClassOf(program[i]) \subseteq Classes /\ EnumOf(program[i]) \subseteq Enums
  BY DEF Classes, ClassesIn, Enums, EnumsIn, Nodes, ClassOf, EnumOf

\* push_back adds one member to the set of names in a vector.
LEMMA RangeAppend ==
    ASSUME NEW S, NEW s \in Seq(S), NEW e \in S
    PROVE  Range(Append(s, e)) = Range(s) \union {e}
  <1>1. /\ Len(s) \in Nat /\ DOMAIN s = 1..Len(s)
        /\ DOMAIN Append(s, e) = 1..(Len(s) + 1)
        /\ \A i \in 1..Len(s) : Append(s, e)[i] = s[i]
        /\ Append(s, e)[Len(s) + 1] = e
    OBVIOUS
  <1>. QED BY <1>1 DEF Range

-----------------------------------------------------------------------------
(* The tables after the visit of one node.                                    *)

\* What every visit does to the tables, whatever node it visits.
Learns(n) ==
    /\ DOMAIN (baseClasses') = DOMAIN baseClasses \union DerivedOf(n)
    /\ symbolTable' = symbolTable \union SymbolsOf(n)
    /\ Range(classNames') = Range(classNames) \union ClassOf(n)
    /\ Range(enumNames') = Range(enumNames) \union EnumOf(n)

\* The visit of a node that can be translated keeps the tables those of the prefix.
LEMMA KnowledgeStep ==
    ASSUME TypeOK, Knowledge, Len(program) \in Nat,
           phase \in {"pass1", "pass2"}, next \in 1..Len(program),
           next' = next + 1, UNCHANGED <<phase, input, files>>,
           Translatable, Learns(Visited)
    PROVE  Knowledge'
  <1>. DEFINE n == next - 1
  <1>1. n \in Nat /\ n + 1 = next /\ next' - 1 = n + 1
    OBVIOUS
  <1>2. /\ ClassesIn(n + 1) = ClassesIn(n) \union ClassOf(Visited)
        /\ DerivedIn(n + 1) = DerivedIn(n) \union DerivedOf(Visited)
        /\ EnumsIn(n + 1) = EnumsIn(n) \union EnumOf(Visited)
        /\ SymbolsIn(n + 1) = SymbolsIn(n) \union SymbolsOf(Visited)
    BY <1>1, PrefixStep DEF Visited
  <1>3. ClassOf(Visited) \subseteq Classes /\ EnumOf(Visited) \subseteq Enums
    BY PrefixMember DEF Visited
  <1>4. /\ Classes' = Classes /\ Enums' = Enums /\ InPass2' = InPass2
        /\ \A k : /\ ClassesIn(k)' = ClassesIn(k) /\ DerivedIn(k)' = DerivedIn(k)
                 /\ EnumsIn(k)' = EnumsIn(k) /\ SymbolsIn(k)' = SymbolsIn(k)
        /\ \A k : Sound(k)' = Sound(k)
    <2>1. program' = program /\ assertions' = assertions /\ cppFile' = cppFile
      BY DEF input, files
    <2>2. \A k : /\ ClassesIn(k)' = ClassesIn(k) /\ DerivedIn(k)' = DerivedIn(k)
                /\ EnumsIn(k)' = EnumsIn(k) /\ SymbolsIn(k)' = SymbolsIn(k)
      BY <2>1 DEF ClassesIn, DerivedIn, EnumsIn, SymbolsIn, Nodes
    <2>. QED BY <2>1, <2>2 DEF Classes, Enums, InPass2, Sound, Untranslatable
  <1>5. TablesArePrefixes'
    BY <1>1, <1>2, <1>3, <1>4 DEF Knowledge, TablesArePrefixes, Learns
  <1>6. PhasesAgree'
    BY <1>4 DEF Knowledge, PhasesAgree
  <1>7. Validated'
    <2>1. Sound(next)
      BY <1>1 DEF Knowledge, TablesArePrefixes, Translatable, Sound, Visited
    <2>. QED BY <1>1, <1>4, <2>1 DEF Knowledge, Validated, input
  <1>8. NoTornOutput'
    BY <1>4 DEF Knowledge, NoTornOutput
  <1>. QED BY <1>5, <1>6, <1>7, <1>8 DEF Knowledge

-----------------------------------------------------------------------------
(* The invariant, and the visit of each node.                                 *)

\* The types, and why the second walk cannot fail.
Inv == TypeOK /\ Knowledge

\* The program is a sequence of nodes.
LEMMA ProgramShape ==
    ASSUME TypeOK
    PROVE  /\ program \in Seq(Node) /\ Len(program) \in Nat
           /\ \A i \in 1..Len(program) : program[i] \in Node
  <1>1. program \in Seq(Node)
    BY ProgramsAssumption DEF TypeOK
  <1>. QED BY <1>1

\* What all visits have in common.
LEMMA VisitingNode ==
    ASSUME TypeOK, NEW kind, Visiting(kind)
    PROVE  /\ Visited \in Node /\ Visited.node = kind
           /\ phase \in {"pass1", "pass2"} /\ next \in 1..Len(program)
           /\ next' = next + 1 /\ next' \in 1..(Len(program) + 1)
           /\ UNCHANGED <<phase, input>>
  BY ProgramShape DEF Visiting, Visited

\* The nodes every build translates.
LEMMA AlwaysTranslatable ==
    ASSUME Visited.node \notin {"MethodDeclaration", "NewExpression", "CtorDeclaration",
                              "NestedAccess"}
    PROVE  Translatable
  BY DEF Translatable, Untranslatable, AssertionFails, Throws

\* What a visit that touches no table has to show.
LEMMA NothingLearnt ==
    ASSUME Visited.node \notin {"ClassDeclaration", "EnumerationDeclaration",
                              "VariableDeclaration", "ClassVariable", "ArrayDeclaration",
                              "MethodDeclaration", "CtorDeclaration", "FunctionDeclaration"},
           UNCHANGED <<classNames, enumNames, baseClasses, symbolTable>>
    PROVE  Learns(Visited)
  BY DEF Learns, ClassOf, DerivedOf, EnumOf, SymbolsOf

\* Writing fragments keeps the type of the output.
LEMMA Emitting ==
    ASSUME TypeOK, NEW f \in Seq(Fragment), Emit(f)
    PROVE  out' \in Seq(Fragment)
  <1>1. out \in Seq(Fragment) /\ out' = out \o f
    BY DEF Emit, TypeOK
  <1>. QED BY <1>1

\* Sequences of fragments are closed under concatenation, ...
LEMMA Concatenation ==
    ASSUME NEW S, NEW s \in Seq(S), NEW t \in Seq(S)
    PROVE  s \o t \in Seq(S)
  OBVIOUS

\* ... under appending a fragment, ...
LEMMA Appending ==
    ASSUME NEW S, NEW s \in Seq(S), NEW e \in S
    PROVE  Append(s, e) \in Seq(S)
  OBVIOUS

\* ... and one fragment ...
LEMMA Singleton ==
    ASSUME NEW S, NEW e \in S
    PROVE  <<e>> \in Seq(S)
  OBVIOUS

\* ... or two make one.
LEMMA Pair ==
    ASSUME NEW S, NEW d \in S, NEW e \in S
    PROVE  <<d, e>> \in Seq(S)
  OBVIOUS

\* A fragment built from its four parts has the type of a fragment.
LEMMA FragmentType ==
    ASSUME NEW part \in Part, NEW name \in Name, NEW type \in Name \union Use,
           NEW as \in Name \union Form
    PROVE  /\ fragment(part, name, type, as) \in Fragment
           /\ <<fragment(part, name, type, as)>> \in Seq(Fragment)
  <1>1. fragment(part, name, type, as) \in Fragment
    BY DEF fragment, Fragment
  <1>. QED BY <1>1, Singleton

\* Types and operators are written in one of the known forms.
LEMMA FormTypes ==
    ASSUME NEW t, NEW v, NEW m, NEW f, NEW id, NEW call
    PROVE  /\ ResultType(t) \in Form /\ FieldType(t) \in Form /\ VariableType(v) \in Form
           /\ FunctionResultType(f) \in Form
           /\ AccessOperator(id, call) \in Form /\ ElementOperator(id) \in Form
           /\ NestedOperator(m) \in Form \union {""}
  <1>1. ResultType(t) \in Form /\ FieldType(t) \in Form
    BY DEF ResultType, FieldType, Form
  <1>2. VariableType(v) \in Form
    BY DEF VariableType, Form
  <1>3. FunctionResultType(f) \in Form
    BY DEF FunctionResultType, Form
  <1>4. AccessOperator(id, call) \in Form
    BY DEF AccessOperator, Form
  <1>5. ElementOperator(id) \in Form
    BY DEF ElementOperator, Form
  <1>6. NestedOperator(m) \in Form \union {""}
    BY DEF NestedOperator, Form
  <1>. QED BY <1>1, <1>2, <1>3, <1>4, <1>5, <1>6

-----------------------------------------------------------------------------
(* Visits that leave the tables alone.                                        *)

\* module Name; is visited.
LEMMA ModuleVisit ==
    ASSUME Inv, VisitModuleStatement, UNCHANGED files
    PROVE  Inv'
  <1>1. /\ Visiting("ModuleStatement") /\ Visited \in Node
        /\ Visited.node = "ModuleStatement"
    BY VisitingNode DEF VisitModuleStatement, Inv
  <1>2. Visited.name \in Name
    BY <1>1, NodeShapes DEF ModuleStatement
  <1>3. TypeOK'
    BY <1>1, <1>2, VisitingNode
       DEF VisitModuleStatement, Inv, TypeOK, tables, flags, globals, files, input
  <1>4. Learns(Visited) /\ Translatable
    BY <1>1, NothingLearnt, AlwaysTranslatable DEF VisitModuleStatement, tables
  <1>. QED BY <1>1, <1>3, <1>4, KnowledgeStep, VisitingNode, ProgramShape DEF Inv

\* import Name.exp; is visited, and oipExpress perhaps run.
LEMMA SchemaImportVisit ==
    ASSUME Inv, VisitSchemaImport, UNCHANGED files
    PROVE  Inv'
  <1>1. /\ Visiting("ImportStatement") /\ Visited \in Node
        /\ Visited.node = "ImportStatement"
    BY VisitingNode DEF VisitSchemaImport, Inv
  <1>2. Visited.name \in Name
    BY <1>1, NodeShapes DEF ImportStatement
  <1>3. <<fragment("include", Visited.name, "", "schema")>> \in Seq(Fragment)
    BY <1>2, FragmentType, NameAssumption DEF Part, Form
  <1>4. out' \in Seq(Fragment)
    BY <1>3, Emitting DEF VisitSchemaImport, Inv, TypeOK
  <1>5. g_schemaName' \in Name /\ oipExpressRuns' \in Seq(Name) /\ generated' \subseteq Name
    <2>1. g_schemaName \in Name /\ oipExpressRuns \in Seq(Name) /\ generated \subseteq Name
      BY DEF Inv, TypeOK
    <2>2. Append(oipExpressRuns, Visited.name) \in Seq(Name)
      BY <1>2, <2>1, Appending
    <2>. QED BY <1>2, <2>1, <2>2 DEF VisitSchemaImport, RunOipExpress, globals
  <1>6. TypeOK'
    BY <1>1, <1>4, <1>5, VisitingNode
       DEF VisitSchemaImport, Inv, TypeOK, tables, flags, files, input
  <1>7. Learns(Visited) /\ Translatable
    BY <1>1, NothingLearnt, AlwaysTranslatable DEF VisitSchemaImport, tables
  <1>. QED BY <1>1, <1>6, <1>7, KnowledgeStep, VisitingNode, ProgramShape DEF Inv

\* import Name; is visited.
LEMMA LibraryImportVisit ==
    ASSUME Inv, VisitLibraryImport, UNCHANGED files
    PROVE  Inv'
  <1>1. /\ Visiting("ImportStatement") /\ Visited \in Node
        /\ Visited.node = "ImportStatement"
    BY VisitingNode DEF VisitLibraryImport, Inv
  <1>2. Visited.name \in Name
    BY <1>1, NodeShapes DEF ImportStatement
  <1>3. <<fragment("include", Visited.name, "", "library")>> \in Seq(Fragment)
    BY <1>2, FragmentType, NameAssumption DEF Part, Form
  <1>4. out' \in Seq(Fragment)
    BY <1>3, Emitting DEF VisitLibraryImport, Inv
  <1>5. /\ bIArbitraryTransitionCurveImport' \in BOOLEAN /\ bUseIfcPLMath' \in BOOLEAN
    BY DEF VisitLibraryImport, Inv, TypeOK
  <1>6. TypeOK'
    BY <1>1, <1>4, <1>5, VisitingNode
       DEF VisitLibraryImport, Inv, TypeOK, tables, globals, files, input
  <1>7. Learns(Visited) /\ Translatable
    BY <1>1, NothingLearnt, AlwaysTranslatable DEF VisitLibraryImport, tables
  <1>. QED BY <1>1, <1>6, <1>7, KnowledgeStep, VisitingNode, ProgramShape DEF Inv

-----------------------------------------------------------------------------
(* Visits that write, and enter at most some symbols.                         *)

\* The entries of one EXPRESS variable and of one array.
LEMMA SymbolType ==
    ASSUME NEW id \in Name, NEW type \in Name
    PROVE  ExpressSymbol(id, type) \in Symbol(Name) /\ ArraySymbol(id, type) \in Symbol(Name)
  BY DEF ExpressSymbol, ArraySymbol, symbolDescription, Symbol

\* The parameters of a list are named and typed.
LEMMA ArgumentTypes ==
    ASSUME NEW s \in Seq(Parameter), NEW p \in Range(s)
    PROVE  p.id \in Name /\ p.type \in Name
  <1>1. PICK i \in DOMAIN s : p = s[i]
    BY DEF Range
  <1>2. p \in Parameter
    BY <1>1
  <1>. QED BY <1>2 DEF Parameter

\* What a declaration enters in the symbol table are entries of the table.
LEMMA SymbolsType ==
    ASSUME NEW n \in Node
    PROVE  SymbolsOf(n) \subseteq Symbol(Name)
  <1>1. ASSUME NEW v, v.id \in Name, v.type \in Name
        PROVE  /\ VariableSymbols(v) \subseteq Symbol(Name)
               /\ ArraySymbol(v.id, v.type) \in Symbol(Name)
    BY <1>1, SymbolType DEF VariableSymbols
  <1>2. ASSUME n.arguments \in Seq(Parameter)
        PROVE  \A p \in Range(n.arguments) : p.id \in Name /\ p.type \in Name
    BY <1>2, ArgumentTypes
  <1>3. CASE n.node \in {"VariableDeclaration", "ClassVariable"}
    BY <1>1, <1>3, NodeShapes DEF SymbolsOf, VariableDeclaration, ClassVariable
  <1>4. CASE n.node = "ArrayDeclaration"
    BY <1>1, <1>4, NodeShapes DEF SymbolsOf, ArrayDeclaration
  <1>5. CASE n.node = "MethodDeclaration"
    <2>1. n.arguments \in Seq(Parameter) /\ n.type \in Name
      BY <1>5, NodeShapes DEF MethodDeclaration
    <2>2. \A p \in Range(n.arguments) : ExpressSymbol(p.id, n.type) \in Symbol(Name)
      BY <1>2, <2>1, SymbolType
    <2>3. \A p \in Range(n.arguments) : VariableSymbols(p) \subseteq Symbol(Name)
      BY <1>1, <1>2, <2>1
    <2>4. MethodSymbols(n) \subseteq Symbol(Name)
      BY <2>2, <2>3 DEF MethodSymbols
    <2>. QED BY <1>5, <2>4 DEF SymbolsOf
  <1>6. CASE n.node = "CtorDeclaration"
    <2>1. n.arguments \in Seq(Parameter)
      BY <1>6, NodeShapes DEF CtorDeclaration
    <2>2. \A p \in Range(n.arguments) :
             /\ VariableSymbols(p) \subseteq Symbol(Name)
             /\ ArraySymbol(p.id, p.type) \in Symbol(Name)
      BY <1>1, <1>2, <2>1
    <2>3. CtorSymbols(n) \subseteq Symbol(Name)
      BY <2>2 DEF CtorSymbols
    <2>. QED BY <1>6, <2>3 DEF SymbolsOf
  <1>7. CASE n.node = "FunctionDeclaration"
    <2>1. n.arguments \in Seq(Parameter)
      BY <1>7, NodeShapes DEF FunctionDeclaration
    <2>2. \A p \in Range(n.arguments) : VariableSymbols(p) \subseteq Symbol(Name)
      BY <1>1, <1>2, <2>1
    <2>3. FunctionSymbols(n) \subseteq Symbol(Name)
      BY <2>2 DEF FunctionSymbols
    <2>. QED BY <1>7, <2>3 DEF SymbolsOf
  <1>8. CASE n.node \notin {"VariableDeclaration", "ClassVariable", "ArrayDeclaration",
                          "MethodDeclaration", "CtorDeclaration", "FunctionDeclaration"}
    BY <1>8 DEF SymbolsOf
  <1>. QED BY <1>3, <1>4, <1>5, <1>6, <1>7, <1>8

\* A visit that declares no class and no enum and writes well-typed fragments
\* keeps the invariant, whatever it does to flags and deferred output.
LEMMA WritingVisit ==
    ASSUME Inv, NEW kind, Visiting(kind), Translatable,
           kind \notin {"ClassDeclaration", "EnumerationDeclaration"},
           NEW f \in Seq(Fragment), Emit(f),
           symbolTable' = symbolTable \union SymbolsOf(Visited),
           deferredOutput' \in Seq(Fragment),
           bFoundMainFunction' \in BOOLEAN, bUseIfcPLMath' \in BOOLEAN,
           bIArbitraryTransitionCurveImport' \in BOOLEAN,
           UNCHANGED <<moduleName, classNames, enumNames, baseClasses, globals, files>>
    PROVE  Inv'
  <1>1. Visited \in Node /\ Visited.node = kind
    BY VisitingNode DEF Inv
  <1>2. out' \in Seq(Fragment)
    BY Emitting DEF Inv
  <1>3. symbolTable' \subseteq Symbol(Name)
    BY <1>1, SymbolsType DEF Inv, TypeOK
  <1>4. TypeOK'
    BY <1>2, <1>3, VisitingNode DEF Inv, TypeOK, globals, files, input
  <1>5. Learns(Visited)
    BY <1>1 DEF Learns, ClassOf, DerivedOf, EnumOf
  <1>. QED BY <1>4, <1>5, KnowledgeStep, VisitingNode, ProgramShape DEF Inv

\* The same for a visit that does nothing but write.
LEMMA QuietVisit ==
    ASSUME Inv, NEW kind, Visiting(kind), Translatable,
           kind \notin {"ClassDeclaration", "EnumerationDeclaration",
                       "VariableDeclaration", "ClassVariable", "ArrayDeclaration",
                       "MethodDeclaration", "CtorDeclaration", "FunctionDeclaration"},
           NEW f \in Seq(Fragment), Emit(f),
           UNCHANGED <<moduleName, tables, flags, globals, files>>
    PROVE  Inv'
  <1>1. SymbolsOf(Visited) = {}
    BY VisitingNode DEF SymbolsOf, Inv
  <1>2. /\ symbolTable' = symbolTable \union SymbolsOf(Visited)
        /\ deferredOutput' \in Seq(Fragment)
        /\ bFoundMainFunction' \in BOOLEAN /\ bUseIfcPLMath' \in BOOLEAN
        /\ bIArbitraryTransitionCurveImport' \in BOOLEAN
        /\ UNCHANGED <<moduleName, classNames, enumNames, baseClasses, globals, files>>
    BY <1>1 DEF tables, flags, Inv, TypeOK
  <1>. QED BY <1>2, WritingVisit

\* An interface is entered.
LEMMA InterfaceVisit ==
    ASSUME Inv, VisitInterfaceDeclaration, UNCHANGED files
    PROVE  Inv'
  <1>1. /\ Visiting("InterfaceDeclaration") /\ Visited \in Node
        /\ Visited.node = "InterfaceDeclaration"
    BY VisitingNode DEF VisitInterfaceDeclaration, Inv
  <1>2. Visited.id \in Name
    BY <1>1, NodeShapes DEF InterfaceDeclaration
  <1>3. <<fragment("begin", Visited.id, "", "interface")>> \in Seq(Fragment)
    BY <1>2, FragmentType, NameAssumption DEF Part, Form
  <1>. QED BY <1>1, <1>3, QuietVisit, AlwaysTranslatable DEF VisitInterfaceDeclaration

\* The written result and parameters of a method, of a class or an interface.
LEMMA SignatureType ==
    ASSUME NEW n, n.id \in Name, n.type \in Name, n.arguments \in Seq(Parameter),
           n.node \in {"InterfaceMethod", "MethodDeclaration"}
    PROVE  <<fragment("result", n.id, n.type, ResultType(n.type))>> \o Parameters(n)
              \in Seq(Fragment)
  <1>1. <<fragment("result", n.id, n.type, ResultType(n.type))>> \in Seq(Fragment)
    BY FragmentType, FormTypes DEF Part
  <1>2. Parameters(n) \in Seq(Fragment)
    BY ParametersType
  <1>. QED BY <1>1, <1>2, Concatenation

\* A method of an interface is visited.
LEMMA InterfaceMethodVisit ==
    ASSUME Inv, VisitInterfaceMethod, UNCHANGED files
    PROVE  Inv'
  <1>1. /\ Visiting("InterfaceMethod") /\ Visited \in Node
        /\ Visited.node = "InterfaceMethod"
    BY VisitingNode DEF VisitInterfaceMethod, Inv
  <1>2. Visited.id \in Name /\ Visited.type \in Name /\ Visited.arguments \in Seq(Parameter)
    BY <1>1, NodeShapes DEF InterfaceMethod
  <1>3. <<fragment("result", Visited.id, Visited.type, ResultType(Visited.type))>>
           \o Parameters(Visited) \in Seq(Fragment)
    BY <1>1, <1>2, SignatureType
  <1>. QED BY <1>1, <1>3, QuietVisit, AlwaysTranslatable DEF VisitInterfaceMethod

\* An array field is visited.
LEMMA ClassArrayVisit ==
    ASSUME Inv, VisitClassArray, UNCHANGED files
    PROVE  Inv'
  <1>1. /\ Visiting("ClassArray") /\ Visited \in Node /\ Visited.node = "ClassArray"
    BY VisitingNode DEF VisitClassArray, Inv
  <1>2. Visited.id \in Name /\ Visited.type \in Name
    BY <1>1, NodeShapes DEF ClassArray
  <1>3. <<fragment("array", Visited.id, Visited.type, "plain")>> \in Seq(Fragment)
    BY <1>2, FragmentType DEF Part, Form
  <1>. QED BY <1>1, <1>3, QuietVisit, AlwaysTranslatable DEF VisitClassArray

\* The body of an interface, method, constructor or function is left.
LEMMA BodyEnd ==
    ASSUME Inv, EndBody, UNCHANGED files
    PROVE  Inv'
  <1>1. \A form \in {"function", "interface"} :
           <<fragment("end", "", "", form)>> \in Seq(Fragment)
    BY FragmentType, NameAssumption DEF Part, Form
  <1>2. CASE Visiting("EndFunction") /\ Emit(<<fragment("end", "", "", "function")>>)
    <2>1. Visited.node = "EndFunction"
      BY <1>2, VisitingNode DEF Inv
    <2>2. Translatable
      BY <2>1, AlwaysTranslatable
    <2>. QED BY <1>1, <1>2, <2>2, QuietVisit DEF EndBody
  <1>3. CASE Visiting("EndInterface") /\ Emit(<<fragment("end", "", "", "interface")>>)
    <2>1. Visited.node = "EndInterface"
      BY <1>3, VisitingNode DEF Inv
    <2>2. Translatable
      BY <2>1, AlwaysTranslatable
    <2>. QED BY <1>1, <1>3, <2>2, QuietVisit DEF EndBody
  <1>. QED BY <1>2, <1>3 DEF EndBody

\* id.member is visited.
LEMMA MemberAccessVisit ==
    ASSUME Inv, VisitMemberAccess, UNCHANGED files
    PROVE  Inv'
  <1>1. /\ Visiting("MemberAccess") /\ Visited \in Node /\ Visited.node = "MemberAccess"
    BY VisitingNode DEF VisitMemberAccess, Inv
  <1>. DEFINE use == IF Visited.isMethodCall THEN "call" ELSE "member"
              op == AccessOperator(Visited.id, Visited.isMethodCall)
  <1>2. Visited.id \in Name
    BY <1>1, NodeShapes DEF MemberAccess
  <1>3. <<fragment("access", Visited.id, use, op)>> \in Seq(Fragment)
    <2>1. "access" \in Part /\ use \in Use /\ op \in Form
      BY FormTypes DEF Part, Use
    <2>. QED BY <1>2, <2>1, FragmentType
  <1>4. /\ Emit(<<fragment("access", Visited.id, use, op)>>)
        /\ UNCHANGED <<moduleName, tables, flags, globals>>
    BY DEF VisitMemberAccess
  <1>. QED BY <1>1, <1>3, <1>4, QuietVisit, AlwaysTranslatable

\* id.member.rhs is visited and can be translated.
LEMMA NestedAccessVisit ==
    ASSUME Inv, VisitNestedAccess, UNCHANGED files
    PROVE  Inv'
  <1>1. /\ Visiting("NestedAccess") /\ Visited \in Node /\ Visited.node = "NestedAccess"
    BY VisitingNode DEF VisitNestedAccess, Inv
  <1>. DEFINE op == AccessOperator(Visited.id, FALSE)
              rest == IF isExpressType(symbolTable, Visited.id)
                      THEN NestedOperator(Visited) ELSE "->"
              f == fragment("access", Visited.id, "member", op)
              g == fragment("nested", Visited.member, Visited.rhs, rest)
  <1>2. Visited.id \in Name /\ Visited.member \in Name /\ Visited.rhs \in Use
    BY <1>1, NodeShapes DEF NestedAccess, Use
  <1>3. "access" \in Part /\ "nested" \in Part /\ "member" \in Use
    BY DEF Part, Use
  <1>4. op \in Form /\ rest \in Name \union Form
    <2>1. "->" \in Form
      BY DEF Form
    <2>. QED BY <2>1, FormTypes, NameAssumption
  <1>5. f \in Fragment /\ g \in Fragment
    BY <1>2, <1>3, <1>4, FragmentType
  <1>6. <<f, g>> \in Seq(Fragment)
    BY <1>5, Pair
  <1>7. Emit(<<f, g>>) /\ Translatable /\ UNCHANGED <<moduleName, tables, flags, globals>>
    BY DEF VisitNestedAccess
  <1>. QED BY <1>1, <1>6, <1>7, QuietVisit

\* id[..] is visited.
LEMMA ArrayAccessVisit ==
    ASSUME Inv, VisitArrayAccess, UNCHANGED files
    PROVE  Inv'
  <1>1. /\ Visiting("ArrayAccess") /\ Visited \in Node /\ Visited.node = "ArrayAccess"
    BY VisitingNode DEF VisitArrayAccess, Inv
  <1>2. Visited.id \in Name
    BY <1>1, NodeShapes DEF ArrayAccess
  <1>3. <<fragment("element", Visited.id, "", ElementOperator(Visited.id))>> \in Seq(Fragment)
    <2>1. "element" \in Part /\ "" \in Name /\ ElementOperator(Visited.id) \in Form
      BY FormTypes, NameAssumption DEF Part
    <2>. QED BY <1>2, <2>1, FragmentType
  <1>. QED BY <1>1, <1>3, QuietVisit, AlwaysTranslatable DEF VisitArrayAccess

\* new is visited and can be translated.
LEMMA NewVisit ==
    ASSUME Inv, VisitNewExpression, UNCHANGED files
    PROVE  Inv'
  <1>1. /\ Visiting("NewExpression") /\ Visited \in Node /\ Visited.node = "NewExpression"
    BY VisitingNode DEF VisitNewExpression, Inv
  <1>. DEFINE how == IF Visited.isMethodCall THEN "make_shared" ELSE "plain"
  <1>2. Visited.id \in Name
    BY <1>1, NodeShapes DEF NewExpression
  <1>3. <<fragment("new", Visited.id, "", how)>> \in Seq(Fragment)
    <2>1. "new" \in Part /\ "" \in Name /\ how \in Form
      BY NameAssumption DEF Part, Form
    <2>. QED BY <1>2, <2>1, FragmentType
  <1>4. /\ Emit(<<fragment("new", Visited.id, "", how)>>) /\ Translatable
        /\ UNCHANGED <<moduleName, tables, flags, globals>>
    BY DEF VisitNewExpression
  <1>. QED BY <1>1, <1>3, <1>4, QuietVisit

-----------------------------------------------------------------------------
(* Visits that change the tables.                                             *)

\* A local variable is visited and enters the symbol table.
LEMMA VariableVisit ==
    ASSUME Inv, VisitVariableDeclaration, UNCHANGED files
    PROVE  Inv'
  <1>1. /\ Visiting("VariableDeclaration") /\ Visited \in Node
        /\ Visited.node = "VariableDeclaration"
    BY VisitingNode DEF VisitVariableDeclaration, Inv
  <1>. DEFINE f == fragment("variable", Visited.id, Visited.type, VariableType(Visited))
  <1>2. Visited.id \in Name /\ Visited.type \in Name
    BY <1>1, NodeShapes DEF VariableDeclaration
  <1>3. <<f>> \in Seq(Fragment)
    BY <1>2, FragmentType, FormTypes DEF Part
  <1>4. symbolTable' = symbolTable \union SymbolsOf(Visited)
    BY <1>1 DEF VisitVariableDeclaration, SymbolsOf
  <1>5. /\ Emit(<<f>>) /\ deferredOutput' \in Seq(Fragment)
        /\ bFoundMainFunction' \in BOOLEAN /\ bUseIfcPLMath' \in BOOLEAN
        /\ bIArbitraryTransitionCurveImport' \in BOOLEAN
        /\ UNCHANGED <<moduleName, classNames, enumNames, baseClasses, globals>>
    BY DEF VisitVariableDeclaration, flags, Inv, TypeOK
  <1>. QED BY <1>1, <1>3, <1>4, <1>5, WritingVisit, AlwaysTranslatable

\* A local array is visited and enters the symbol table.
LEMMA ArrayVisit ==
    ASSUME Inv, VisitArrayDeclaration, UNCHANGED files
    PROVE  Inv'
  <1>1. /\ Visiting("ArrayDeclaration") /\ Visited \in Node
        /\ Visited.node = "ArrayDeclaration"
    BY VisitingNode DEF VisitArrayDeclaration, Inv
  <1>. DEFINE f == fragment("array", Visited.id, Visited.type, "plain")
  <1>2. Visited.id \in Name /\ Visited.type \in Name
    BY <1>1, NodeShapes DEF ArrayDeclaration
  <1>3. <<f>> \in Seq(Fragment)
    BY <1>2, FragmentType DEF Part, Form
  <1>4. symbolTable' = symbolTable \union SymbolsOf(Visited)
    BY <1>1 DEF VisitArrayDeclaration, SymbolsOf
  <1>5. /\ Emit(<<f>>) /\ deferredOutput' \in Seq(Fragment)
        /\ bFoundMainFunction' \in BOOLEAN /\ bUseIfcPLMath' \in BOOLEAN
        /\ bIArbitraryTransitionCurveImport' \in BOOLEAN
        /\ UNCHANGED <<moduleName, classNames, enumNames, baseClasses, globals>>
    BY DEF VisitArrayDeclaration, flags, Inv, TypeOK
  <1>. QED BY <1>1, <1>3, <1>4, <1>5, WritingVisit, AlwaysTranslatable

\* A method is entered; its parameters enter the symbol table.
LEMMA MethodVisit ==
    ASSUME Inv, VisitMethodDeclaration, UNCHANGED files
    PROVE  Inv'
  <1>1. /\ Visiting("MethodDeclaration") /\ Visited \in Node
        /\ Visited.node = "MethodDeclaration"
    BY VisitingNode DEF VisitMethodDeclaration, Inv
  <1>. DEFINE signature == <<fragment("result", Visited.id, Visited.type,
                                      ResultType(Visited.type))>> \o Parameters(Visited)
              begin == <<fragment("begin", Visited.id, "", "function")>>
  <1>2. Visited.id \in Name /\ Visited.type \in Name /\ Visited.arguments \in Seq(Parameter)
    BY <1>1, NodeShapes DEF MethodDeclaration
  <1>3. signature \in Seq(Fragment)
    BY <1>1, <1>2, SignatureType
  <1>4. begin \in Seq(Fragment)
    BY <1>2, FragmentType, NameAssumption DEF Part, Form
  <1>5. signature \o begin \in Seq(Fragment)
    <2>. HIDE DEF signature, begin
    <2>. QED BY <1>3, <1>4, Concatenation
  <1>6. symbolTable' = symbolTable \union SymbolsOf(Visited)
    BY <1>1 DEF VisitMethodDeclaration, SymbolsOf
  <1>7. /\ Emit(signature \o begin) /\ Translatable /\ deferredOutput' \in Seq(Fragment)
        /\ bFoundMainFunction' \in BOOLEAN /\ bUseIfcPLMath' \in BOOLEAN
        /\ bIArbitraryTransitionCurveImport' \in BOOLEAN
        /\ UNCHANGED <<moduleName, classNames, enumNames, baseClasses, globals>>
    BY DEF VisitMethodDeclaration, flags, Inv, TypeOK
  <1>. HIDE DEF signature, begin
  <1>. QED BY <1>1, <1>5, <1>6, <1>7, WritingVisit

\* A constructor is entered; a base class it calls is there to be called.
LEMMA CtorVisit ==
    ASSUME Inv, VisitCtorDeclaration, UNCHANGED files
    PROVE  Inv'
  <1>1. /\ Visiting("CtorDeclaration") /\ Visited \in Node
        /\ Visited.node = "CtorDeclaration"
    BY VisitingNode DEF VisitCtorDeclaration, Inv
  <1>. DEFINE parameters == Parameters(Visited)
              base == IF Visited.hasBaseClassCtor
                      THEN <<fragment("base", baseClasses[Visited.id], "", "")>> ELSE <<>>
              begin == <<fragment("begin", Visited.id, "", "function")>>
  <1>2. Visited.id \in Name /\ Visited.arguments \in Seq(Parameter)
    BY <1>1, NodeShapes DEF CtorDeclaration
  <1>3. parameters \in Seq(Fragment)
    BY <1>1, <1>2, ParametersType
  <1>4. base \in Seq(Fragment)
    <2>1. CASE Visited.hasBaseClassCtor
      <3>1. Visited.id \in DOMAIN baseClasses
        BY <1>1, <2>1 DEF VisitCtorDeclaration, Translatable, Untranslatable, Throws
      <3>2. baseClasses[Visited.id] \in Name /\ "base" \in Part /\ "" \in Name
        BY <3>1, NameAssumption DEF Inv, TypeOK, Part
      <3>. QED BY <2>1, <3>2, FragmentType
    <2>2. CASE ~Visited.hasBaseClassCtor
      BY <2>2
    <2>. QED BY <2>1, <2>2
  <1>5. begin \in Seq(Fragment)
    BY <1>2, FragmentType, NameAssumption DEF Part, Form
  <1>6. symbolTable' = symbolTable \union SymbolsOf(Visited)
    BY <1>1 DEF VisitCtorDeclaration, SymbolsOf
  <1>7. /\ Emit(parameters \o base \o begin) /\ Translatable
        /\ deferredOutput' \in Seq(Fragment)
        /\ bFoundMainFunction' \in BOOLEAN /\ bUseIfcPLMath' \in BOOLEAN
        /\ bIArbitraryTransitionCurveImport' \in BOOLEAN
        /\ UNCHANGED <<moduleName, classNames, enumNames, baseClasses, globals>>
    BY DEF VisitCtorDeclaration, flags, Inv, TypeOK
  <1>. HIDE DEF parameters, base, begin
  <1>8. parameters \o base \in Seq(Fragment)
    BY <1>3, <1>4, Concatenation
  <1>9. parameters \o base \o begin \in Seq(Fragment)
    BY <1>5, <1>8, Concatenation
  <1>. QED BY <1>1, <1>6, <1>7, <1>9, WritingVisit

\* A function is entered; main has its parameters replaced.
LEMMA FunctionVisit ==
    ASSUME Inv, VisitFunctionDeclaration, UNCHANGED files
    PROVE  Inv'
  <1>1. /\ Visiting("FunctionDeclaration") /\ Visited \in Node
        /\ Visited.node = "FunctionDeclaration"
    BY VisitingNode DEF VisitFunctionDeclaration, Inv
  <1>. DEFINE result == <<fragment("functionResult", Visited.id, Visited.type,
                                   FunctionResultType(Visited))>>
              parameters == IF Visited.id = "main" THEN <<>> ELSE Parameters(Visited)
              begin == <<fragment("begin", Visited.id, "", "function")>>
              copied == IF Visited.id = "main" /\ Len(Visited.arguments) = 1
                        THEN <<fragment("array", "args", "string", "IfcPLString")>> ELSE <<>>
  <1>2. Visited.id \in Name /\ Visited.type \in Name /\ Visited.arguments \in Seq(Parameter)
    BY <1>1, NodeShapes DEF FunctionDeclaration
  <1>3. result \in Seq(Fragment)
    <2>1. "functionResult" \in Part /\ FunctionResultType(Visited) \in Form
      BY FormTypes DEF Part
    <2>. QED BY <1>2, <2>1, FragmentType
  <1>4. parameters \in Seq(Fragment)
    <2>1. Parameters(Visited) \in Seq(Fragment)
      BY <1>1, <1>2, ParametersType
    <2>. QED BY <2>1
  <1>5. begin \in Seq(Fragment)
    BY <1>2, FragmentType, NameAssumption DEF Part, Form
  <1>6. copied \in Seq(Fragment)
    <2>1. <<fragment("array", "args", "string", "IfcPLString")>> \in Seq(Fragment)
      BY FragmentType, NameAssumption DEF Part, Form
    <2>. QED BY <2>1
  <1>7. symbolTable' = symbolTable \union SymbolsOf(Visited)
    BY <1>1 DEF VisitFunctionDeclaration, SymbolsOf
  <1>8. /\ Emit(result \o parameters \o begin \o copied)
        /\ deferredOutput' \in Seq(Fragment)
        /\ bFoundMainFunction' \in BOOLEAN /\ bUseIfcPLMath' \in BOOLEAN
        /\ bIArbitraryTransitionCurveImport' \in BOOLEAN
        /\ UNCHANGED <<moduleName, classNames, enumNames, baseClasses, globals>>
    BY DEF VisitFunctionDeclaration, flags, Inv, TypeOK
  <1>. HIDE DEF result, parameters, begin, copied
  <1>9. result \o parameters \in Seq(Fragment)
    BY <1>3, <1>4, Concatenation
  <1>10. result \o parameters \o begin \in Seq(Fragment)
    BY <1>5, <1>9, Concatenation
  <1>11. result \o parameters \o begin \o copied \in Seq(Fragment)
    BY <1>6, <1>10, Concatenation
  <1>. QED BY <1>1, <1>7, <1>8, <1>11, WritingVisit, AlwaysTranslatable

\* A class is left, and what it deferred is written.
LEMMA ClassEnd ==
    ASSUME Inv, EndClassDeclaration, UNCHANGED files
    PROVE  Inv'
  <1>1. Visiting("EndClass") /\ Visited.node = "EndClass"
    BY VisitingNode DEF EndClassDeclaration, Inv
  <1>2. <<fragment("end", "", "", "class")>> \in Seq(Fragment)
    BY FragmentType, NameAssumption DEF Part, Form
  <1>3. <<fragment("end", "", "", "class")>> \o deferredOutput \in Seq(Fragment)
    BY <1>2, Concatenation DEF Inv, TypeOK
  <1>4. symbolTable' = symbolTable \union SymbolsOf(Visited)
    BY <1>1 DEF EndClassDeclaration, SymbolsOf
  <1>5. deferredOutput' \in Seq(Fragment)
    <2>1. deferredOutput' = <<>>
      BY DEF EndClassDeclaration
    <2>. QED BY <2>1
  <1>6. /\ Emit(<<fragment("end", "", "", "class")>> \o deferredOutput)
        /\ bFoundMainFunction' \in BOOLEAN /\ bUseIfcPLMath' \in BOOLEAN
        /\ bIArbitraryTransitionCurveImport' \in BOOLEAN
        /\ UNCHANGED <<moduleName, classNames, enumNames, baseClasses, globals>>
    BY DEF EndClassDeclaration, flags, Inv, TypeOK
  <1>. QED BY <1>1, <1>3, <1>4, <1>5, <1>6, WritingVisit, AlwaysTranslatable

\* When a field is visited, a class has been entered: classNames_.back() exists.
LEMMA FieldInClass ==
    ASSUME Inv, Visiting("ClassVariable")
    PROVE  classNames[Len(classNames)] \in Name
  <1>1. Visited.node = "ClassVariable" /\ next \in 1..Len(program) /\ Len(program) \in Nat
    BY VisitingNode, ProgramShape DEF Inv
  <1>2. PICK j \in 1..(next - 1) : program[j].node = "ClassDeclaration"
    <2>1. Bracketed(program)
      BY ProgramsAssumption DEF Inv, TypeOK
    <2>2. /\ program[next].node \in DOMAIN Around
          /\ Around[program[next].node] = {"ClassDeclaration"}
      BY <1>1 DEF Visited, Around
    <2>3. \E b \in 1..(next - 1) : program[b].node \in Around[program[next].node]
      BY <1>1, <2>1, <2>2 DEF Bracketed
    <2>. QED BY <2>2, <2>3
  <1>3. program[j].id \in ClassesIn(next - 1) /\ program[j].id \in Classes
    BY <1>1, <1>2 DEF ClassesIn, Classes, Nodes
  <1>4. program[j].id \in Range(classNames)
    BY <1>3 DEF Inv, Knowledge, TablesArePrefixes
  <1>5. classNames \in Seq(Name)
    BY DEF Inv, TypeOK
  <1>6. Len(classNames) \in Nat /\ DOMAIN classNames = 1..Len(classNames)
    BY <1>5
  <1>7. Len(classNames) \in DOMAIN classNames
    BY <1>4, <1>6 DEF Range
  <1>. QED BY <1>5, <1>7

\* A field is visited, and its initialiser perhaps deferred.
LEMMA ClassVariableVisit ==
    ASSUME Inv, VisitClassVariable, UNCHANGED files
    PROVE  Inv'
  <1>1. /\ Visiting("ClassVariable") /\ Visited \in Node
        /\ Visited.node = "ClassVariable"
    BY VisitingNode DEF VisitClassVariable, Inv
  <1>. DEFINE f == fragment("field", Visited.id, Visited.type, FieldType(Visited.type))
              d == fragment("definition", Visited.id, Visited.type,
                            classNames[Len(classNames)])
  <1>2. Visited.id \in Name /\ Visited.type \in Name
    BY <1>1, NodeShapes DEF ClassVariable
  <1>3. <<f>> \in Seq(Fragment)
    BY <1>2, FragmentType, FormTypes DEF Part
  <1>4. d \in Fragment
    <2>1. "definition" \in Part /\ classNames[Len(classNames)] \in Name
      BY <1>1, FieldInClass DEF Part
    <2>. QED BY <1>2, <2>1, FragmentType
  <1>5. symbolTable' = symbolTable \union SymbolsOf(Visited)
    BY <1>1 DEF VisitClassVariable, SymbolsOf
  <1>6. deferredOutput' \in Seq(Fragment)
    <2>1. deferredOutput \in Seq(Fragment)
      BY DEF Inv, TypeOK
    <2>2. Append(deferredOutput, d) \in Seq(Fragment)
      <3>. HIDE DEF d
      <3>. QED BY <1>4, <2>1, Appending
    <2>. QED BY <2>1, <2>2 DEF VisitClassVariable
  <1>7. /\ Emit(<<f>>)
        /\ bFoundMainFunction' \in BOOLEAN /\ bUseIfcPLMath' \in BOOLEAN
        /\ bIArbitraryTransitionCurveImport' \in BOOLEAN
        /\ UNCHANGED <<moduleName, classNames, enumNames, baseClasses, globals>>
    BY DEF VisitClassVariable, flags, Inv, TypeOK
  <1>. QED BY <1>1, <1>3, <1>5, <1>6, <1>7, WritingVisit, AlwaysTranslatable

\* An enumeration is visited and enters enumNames_.
LEMMA EnumerationVisit ==
    ASSUME Inv, VisitEnumerationDeclaration, UNCHANGED files
    PROVE  Inv'
  <1>1. /\ Visiting("EnumerationDeclaration") /\ Visited \in Node
        /\ Visited.node = "EnumerationDeclaration"
    BY VisitingNode DEF VisitEnumerationDeclaration, Inv
  <1>2. Visited.id \in Name
    BY <1>1, NodeShapes DEF EnumerationDeclaration
  <1>3. <<fragment("enum", Visited.id, "", "")>> \in Seq(Fragment)
    BY <1>2, FragmentType, NameAssumption DEF Part
  <1>4. out' \in Seq(Fragment)
    BY <1>3, Emitting DEF VisitEnumerationDeclaration, Inv
  <1>5. enumNames \in Seq(Name) /\ enumNames' = Append(enumNames, Visited.id)
    BY DEF VisitEnumerationDeclaration, Inv, TypeOK
  <1>6. enumNames' \in Seq(Name) /\ Range(enumNames') = Range(enumNames) \union {Visited.id}
    BY <1>2, <1>5, Appending, RangeAppend
  <1>7. TypeOK'
    BY <1>1, <1>4, <1>6, VisitingNode
       DEF VisitEnumerationDeclaration, Inv, TypeOK, flags, globals, files, input
  <1>8. Learns(Visited)
    BY <1>1, <1>6
       DEF VisitEnumerationDeclaration, Learns, ClassOf, DerivedOf, EnumOf, SymbolsOf
  <1>. QED BY <1>1, <1>7, <1>8, AlwaysTranslatable, KnowledgeStep, VisitingNode, ProgramShape
           DEF Inv, VisitEnumerationDeclaration

\* A class is entered, in classNames_ and perhaps in baseClasses_.
LEMMA ClassVisit ==
    ASSUME Inv, VisitClassDeclaration, UNCHANGED files
    PROVE  Inv'
  <1>1. /\ Visiting("ClassDeclaration") /\ Visited \in Node
        /\ Visited.node = "ClassDeclaration"
    BY VisitingNode DEF VisitClassDeclaration, Inv
  <1>. DEFINE base == IF Visited.hasBaseClass THEN Visited.baseClass ELSE ""
  <1>2. Visited.id \in Name /\ Visited.baseClass \in Name /\ base \in Name
    BY <1>1, NodeShapes, NameAssumption DEF ClassDeclaration
  <1>3. <<fragment("begin", Visited.id, base, "class")>> \in Seq(Fragment)
    <2>1. "begin" \in Part /\ "class" \in Form
      BY DEF Part, Form
    <2>. QED BY <1>2, <2>1, FragmentType
  <1>4. out' \in Seq(Fragment)
    BY <1>3, Emitting DEF VisitClassDeclaration, Inv
  <1>5. classNames \in Seq(Name) /\ classNames' = Append(classNames, Visited.id)
    BY DEF VisitClassDeclaration, Inv, TypeOK
  <1>6. classNames' \in Seq(Name) /\ Range(classNames') = Range(classNames) \union {Visited.id}
    <2>. HIDE DEF base
    <2>1. Visited.id \in Name
      BY <1>2
    <2>. QED BY <1>5, <2>1, Appending, RangeAppend
  <1>7. /\ DOMAIN (baseClasses') = DOMAIN baseClasses \union DerivedOf(Visited)
        /\ DOMAIN (baseClasses') \subseteq Name
        /\ \A c \in DOMAIN (baseClasses') : baseClasses'[c] \in Name
    <2>1. DOMAIN baseClasses \subseteq Name /\ \A c \in DOMAIN baseClasses : baseClasses[c] \in Name
      BY DEF Inv, TypeOK
    <2>2. CASE Visited.hasBaseClass
      <3>1. baseClasses' = [c \in DOMAIN baseClasses \union {Visited.id} |->
                               IF c = Visited.id THEN Visited.baseClass ELSE baseClasses[c]]
        BY <2>2 DEF VisitClassDeclaration
      <3>2. DerivedOf(Visited) = {Visited.id}
        BY <1>1, <2>2 DEF DerivedOf
      <3>. QED BY <1>2, <2>1, <3>1, <3>2
    <2>3. CASE ~Visited.hasBaseClass
      BY <2>1, <2>3 DEF VisitClassDeclaration, DerivedOf
    <2>. QED BY <2>2, <2>3
  <1>8. TypeOK'
    BY <1>1, <1>4, <1>6, <1>7, VisitingNode
       DEF VisitClassDeclaration, Inv, TypeOK, flags, globals, files, input
  <1>9. Learns(Visited)
    BY <1>1, <1>6, <1>7 DEF VisitClassDeclaration, Learns, ClassOf, EnumOf, SymbolsOf
  <1>. QED BY <1>1, <1>8, <1>9, AlwaysTranslatable, KnowledgeStep, VisitingNode, ProgramShape
           DEF Inv, VisitClassDeclaration

-----------------------------------------------------------------------------
(* main().                                                                    *)

\* Every visit keeps the invariant.
LEMMA VisitStep ==
    ASSUME Inv, Visit, UNCHANGED files
    PROVE  Inv'
  <1>. QED BY ModuleVisit, SchemaImportVisit, LibraryImportVisit, EnumerationVisit,
              InterfaceVisit, InterfaceMethodVisit, ClassVisit, ClassEnd, ClassVariableVisit,
              ClassArrayVisit, MethodVisit, CtorVisit, FunctionVisit, BodyEnd, VariableVisit,
              ArrayVisit, MemberAccessVisit, NestedAccessVisit, ArrayAccessVisit, NewVisit
           DEF Visit

\* The phase moves on and the tables stay.
LEMMA PhaseStep ==
    ASSUME Inv, TypeOK', UNCHANGED <<input, next, tables>>,
           InPass2' = InPass2, PhasesAgree', NoTornOutput'
    PROVE  Inv'
  <1>1. /\ UNCHANGED <<program, assertions, next, classNames, enumNames,
                       baseClasses, symbolTable>>
    BY DEF input, tables
  <1>2. /\ Classes' = Classes /\ Enums' = Enums
        /\ \A k : /\ ClassesIn(k)' = ClassesIn(k) /\ DerivedIn(k)' = DerivedIn(k)
                 /\ EnumsIn(k)' = EnumsIn(k) /\ SymbolsIn(k)' = SymbolsIn(k)
    BY <1>1 DEF ClassesIn, DerivedIn, EnumsIn, SymbolsIn, Nodes, Classes, Enums
  <1>3. \A k : Sound(k)' = Sound(k)
    BY <1>1, <1>2 DEF Sound, Untranslatable
  <1>4. TablesArePrefixes' /\ Validated'
    BY <1>1, <1>2, <1>3 DEF Inv, Knowledge, TablesArePrefixes, Validated
  <1>. QED BY <1>4 DEF Inv, Knowledge

\* In pass 2 no node fails: pass 1 met it with the same tables.
LEMMA FailStep ==
    ASSUME Inv, Fail, UNCHANGED files
    PROVE  Inv'
  <1>1. /\ phase \in {"pass1", "pass2"} /\ next \in 1..Len(program) /\ ~Translatable
        /\ Len(program) \in Nat
    BY ProgramShape DEF Fail, Inv
  <1>2. ~InPass2
    <2>1. SUFFICES ASSUME InPass2 PROVE FALSE
      OBVIOUS
    <2>2. Sound(next)
      BY <1>1, <2>1 DEF Inv, Knowledge, Validated
    <2>. QED BY <1>1, <2>2 DEF Sound, Translatable, Visited, Inv, Knowledge, TablesArePrefixes
  <1>3. phase' \in {"aborted", "caught"}
    BY DEF Fail
  <1>4. TypeOK'
    BY <1>3 DEF Fail, Inv, TypeOK, Terminal, tables, flags, globals, files, input
  <1>5. UNCHANGED <<input, next, tables>> /\ InPass2' = InPass2
    BY DEF Fail, files, InPass2
  <1>6. PhasesAgree' /\ NoTornOutput'
    BY <1>2, <1>3, <1>5 DEF PhasesAgree, NoTornOutput
  <1>. QED BY <1>4, <1>5, <1>6, PhaseStep

\* The run ends before the parser delivers a tree.
LEMMA RefuseStep ==
    ASSUME Inv, NEW status \in {"success", "failure"}, Refuse(status)
    PROVE  Inv'
  <1>1. TypeOK'
    BY DEF Refuse, Inv, TypeOK, Terminal, tables, flags, globals, input
  <1>2. phase' = "exited" /\ cppFile' = cppFile
    BY DEF Refuse
  <1>3. PhasesAgree' /\ NoTornOutput' /\ InPass2' = InPass2
    BY <1>2 DEF PhasesAgree, NoTornOutput, InPass2
  <1>. QED BY <1>1, <1>3, PhaseStep DEF Refuse

\* The parser aborts the process.
LEMMA CharLiteralStep ==
    ASSUME Inv, RefuseCharLiteral
    PROVE  Inv'
  <1>1. phase = "start" /\ phase' = "aborted" /\ UNCHANGED <<input, next, tables, files>>
    BY DEF RefuseCharLiteral
  <1>2. TypeOK'
    BY DEF RefuseCharLiteral, Inv, TypeOK, Terminal, tables, flags, globals, input, files
  <1>3. ~InPass2 /\ ~InPass2' /\ InPass2' = InPass2
    BY <1>1 DEF Inv, Knowledge, PhasesAgree, InPass2, files
  <1>4. PhasesAgree' /\ NoTornOutput'
    BY <1>1, <1>3 DEF PhasesAgree, NoTornOutput
  <1>. QED BY <1>1, <1>2, <1>3, <1>4, PhaseStep

\* A new walk starts with typed output and tables, if it is seeded with names.
LEMMA ConstructType ==
    ASSUME TypeOK, NEW classes \in Seq(Name), NEW enums \in Seq(Name),
           Construct(classes, enums)
    PROVE  /\ next' = 1 /\ out' \in Seq(Fragment) /\ moduleName' \in Name
           /\ classNames' = classes /\ enumNames' = enums
           /\ DOMAIN (baseClasses') = {} /\ symbolTable' = {}
           /\ deferredOutput' \in Seq(Fragment)
           /\ bFoundMainFunction' \in BOOLEAN /\ bUseIfcPLMath' \in BOOLEAN
           /\ bIArbitraryTransitionCurveImport' \in BOOLEAN
  <1>1. out' \in Seq(Fragment)
    <2>1. \A i \in 1..Len(classes) : classes[i] \in Name
      OBVIOUS
    <2>2. \A i \in 1..Len(classes) : fragment("forward", classes[i], "", "") \in Fragment
      BY <2>1, FragmentType, NameAssumption DEF Part
    <2>3. Len(classes) \in Nat
      OBVIOUS
    <2>4. writeClassForwardDeclarations(classes) \in [1..Len(classes) -> Fragment]
      BY <2>2 DEF writeClassForwardDeclarations
    <2>5. writeClassForwardDeclarations(classes) \in Seq(Fragment)
      BY <2>3, <2>4
    <2>. QED BY <2>5 DEF Construct
  <1>2. deferredOutput' \in Seq(Fragment)
    <2>1. deferredOutput' = <<>>
      BY DEF Construct
    <2>. QED BY <2>1
  <1>3. DOMAIN (baseClasses') = {}
    <2>1. baseClasses' = <<>>
      BY DEF Construct
    <2>. QED BY <2>1
  <1>4. moduleName' \in Name
    BY NameAssumption DEF Construct
  <1>. QED BY <1>1, <1>2, <1>3, <1>4 DEF Construct

\* Before the first node nothing has been collected but the seeds.
LEMMA ConstructedTables ==
    ASSUME TypeOK, NEW classes \in Seq(Name), NEW enums \in Seq(Name),
           Construct(classes, enums), program' = program,
           Range(classes) = IF InPass2' THEN Classes ELSE {},
           Range(enums) = IF InPass2' THEN Enums ELSE {}
    PROVE  TablesArePrefixes'
  <1>1. /\ next' = 1 /\ DOMAIN (baseClasses') = {} /\ symbolTable' = {}
        /\ classNames' = classes /\ enumNames' = enums
    BY ConstructType
  <1>2. /\ Classes' = Classes /\ Enums' = Enums
        /\ \A k : /\ ClassesIn(k)' = ClassesIn(k) /\ DerivedIn(k)' = DerivedIn(k)
                 /\ EnumsIn(k)' = EnumsIn(k) /\ SymbolsIn(k)' = SymbolsIn(k)
    BY DEF ClassesIn, DerivedIn, EnumsIn, SymbolsIn, Nodes, Classes, Enums
  <1>3. next' - 1 = 0
    BY <1>1
  <1>4. DOMAIN (baseClasses') = DerivedIn(next' - 1) /\ symbolTable' = SymbolsIn(next' - 1)
    BY <1>1, <1>3, PrefixEmpty
  <1>5. /\ Range(classNames') = IF InPass2' THEN Classes ELSE ClassesIn(next' - 1)
        /\ Range(enumNames') = IF InPass2' THEN Enums ELSE EnumsIn(next' - 1)
    BY <1>1, <1>3, PrefixEmpty
  <1>. QED BY <1>2, <1>4, <1>5 DEF TablesArePrefixes

\* Pass 1 starts with empty tables.
LEMMA StartPass1Step ==
    ASSUME Inv, StartPass1
    PROVE  Inv'
  <1>1. TypeOK /\ <<>> \in Seq(Name) /\ Construct(<<>>, <<>>)
    BY DEF Inv, StartPass1
  <1>2. phase = "start" /\ phase' = "pass1" /\ cppFile' = cppFile /\ program' = program
    BY DEF StartPass1, files, input
  <1>3. ~InPass2 /\ ~InPass2'
    BY <1>2 DEF InPass2, Inv, Knowledge, PhasesAgree
  <1>4. Range(<<>>) = {}
    BY DEF Range
  <1>5. TablesArePrefixes'
    BY <1>1, <1>2, <1>3, <1>4, ConstructedTables
  <1>6. next' = 1
    BY <1>1, ConstructType
  <1>7. TypeOK'
    <2>1. next' \in 1..(Len(program) + 1)
      BY <1>6, ProgramShape DEF Inv
    <2>2. classNames' \in Seq(Name) /\ enumNames' \in Seq(Name)
      BY <1>1, ConstructType
    <2>. QED BY <1>1, <1>2, <2>1, <2>2, ConstructType
             DEF TypeOK, StartPass1, input, globals, files
  <1>8. PhasesAgree' /\ NoTornOutput' /\ Validated'
    BY <1>2, <1>3, <1>6 DEF PhasesAgree, NoTornOutput, Validated
  <1>. QED BY <1>5, <1>7, <1>8 DEF Inv, Knowledge

\* Pass 2 starts with the classes and enums of the whole program.
LEMMA StartPass2Step ==
    ASSUME Inv, StartPass2
    PROVE  Inv'
  <1>1. /\ TypeOK /\ classNames \in Seq(Name) /\ enumNames \in Seq(Name)
        /\ Construct(classNames, enumNames)
    BY DEF Inv, TypeOK, StartPass2
  <1>2. /\ phase = "pass1 done" /\ phase' = "pass2" /\ UNCHANGED <<program, assertions>>
    BY DEF StartPass2, input
  <1>3. cppFile' \in CppFile /\ InPass2'
    <2>1. PICK state \in {"open", "lost"} : cppFile' = [name |-> moduleName, state |-> state]
      BY DEF StartPass2
    <2>. QED BY <2>1 DEF CppFile, InPass2, Inv, TypeOK
  <1>4. ~InPass2 /\ next - 1 = Len(program)
    <2>1. next = Len(program) + 1 /\ Len(program) \in Nat
      BY <1>2, ProgramShape DEF Inv, Knowledge, PhasesAgree
    <2>2. next - 1 = Len(program)
      BY <2>1
    <2>3. ~InPass2
      BY <1>2 DEF Inv, Knowledge, PhasesAgree
    <2>. QED BY <2>2, <2>3
  <1>5. Range(classNames) = Classes /\ Range(enumNames) = Enums
    BY <1>4 DEF Inv, Knowledge, TablesArePrefixes, Classes, Enums
  <1>6. TablesArePrefixes'
    BY <1>1, <1>2, <1>3, <1>5, ConstructedTables
  <1>7. next' = 1
    BY <1>1, ConstructType
  <1>8. TypeOK'
    <2>1. next' \in 1..(Len(program) + 1)
      BY <1>7, ProgramShape DEF Inv
    <2>2. classNames' \in Seq(Name) /\ enumNames' \in Seq(Name)
      BY <1>1, ConstructType
    <2>. QED BY <1>1, <1>2, <1>3, <2>1, <2>2, ConstructType
             DEF TypeOK, StartPass2, input, globals
  <1>9. Validated'
    <2>1. \A k : Sound(k)' = Sound(k)
      <3>1. \A k : DerivedIn(k)' = DerivedIn(k) /\ SymbolsIn(k)' = SymbolsIn(k)
        BY <1>2 DEF DerivedIn, SymbolsIn, Nodes
      <3>. QED BY <1>2, <3>1 DEF Sound, Untranslatable
    <2>. QED BY <1>2, <1>3, <1>4, <2>1 DEF Inv, Knowledge, Validated
  <1>10. PhasesAgree' /\ NoTornOutput'
    BY <1>2, <1>3 DEF PhasesAgree, NoTornOutput
  <1>. QED BY <1>6, <1>8, <1>9, <1>10 DEF Inv, Knowledge

\* The epilog keeps the type of the output.
LEMMA EpilogType ==
    ASSUME TypeOK, writeEpilog
    PROVE  out' \in Seq(Fragment)
  <1>. DEFINE factory == <<fragment("factory", moduleName, "", "")>>
              written == IF bIArbitraryTransitionCurveImport THEN factory ELSE <<>>
  <1>1. factory \in Seq(Fragment)
    BY FragmentType, NameAssumption DEF TypeOK, Part
  <1>2. written \in Seq(Fragment)
    <2>. HIDE DEF factory
    <2>1. <<>> \in Seq(Fragment)
      OBVIOUS
    <2>. QED BY <1>1, <2>1
  <1>3. Emit(written)
    BY DEF writeEpilog
  <1>. HIDE DEF written
  <1>. QED BY <1>2, <1>3, Emitting

\* A pass ends with the epilog.
LEMMA EndPassStep ==
    ASSUME Inv, EndPass1 \/ EndPass2
    PROVE  Inv'
  <1>1. /\ phase \in {"pass1", "pass2"} /\ next > Len(program)
        /\ phase' = (IF phase = "pass1" THEN "pass1 done" ELSE "pass2 done")
        /\ writeEpilog
        /\ UNCHANGED <<input, next, moduleName, tables, flags, globals, files>>
    BY DEF EndPass1, EndPass2
  <1>2. out' \in Seq(Fragment)
    BY <1>1, EpilogType DEF Inv
  <1>3. TypeOK'
    BY <1>1, <1>2 DEF Inv, TypeOK, input, tables, flags, globals, files
  <1>4. next = Len(program) + 1
    <2>1. next \in 1..(Len(program) + 1) /\ next > Len(program)
      BY <1>1 DEF Inv, TypeOK
    <2>2. Len(program) \in Nat
      BY ProgramShape DEF Inv
    <2>. QED BY <2>1, <2>2
  <1>5. InPass2' = InPass2 /\ program' = program /\ next' = next
    BY <1>1 DEF InPass2, files, input
  <1>6. PhasesAgree' /\ NoTornOutput'
    BY <1>1, <1>4, <1>5 DEF Inv, Knowledge, PhasesAgree, NoTornOutput
  <1>. QED BY <1>1, <1>3, <1>5, <1>6, PhaseStep

\* CMakeLists.txt is written and the process returns.
LEMMA ProjectStep ==
    ASSUME Inv, generateCMakeListsFile
    PROVE  Inv'
  <1>1. /\ phase = "pass2 done" /\ phase' = "exited" /\ exitStatus' = "success"
        /\ UNCHANGED <<input, next, out, moduleName, tables, flags, globals>>
    BY DEF generateCMakeListsFile
  <1>2. cppFile \in CppFile /\ cppFile' = [cppFile EXCEPT !.state =
                                             IF @ = "open" THEN "closed" ELSE @]
    BY DEF generateCMakeListsFile, Inv, TypeOK
  <1>3. cppFile' \in CppFile /\ InPass2' = InPass2
    BY <1>2 DEF CppFile, InPass2
  <1>4. cmakeLists' \in CMakeLists
    <2>. DEFINE project == [state |-> "written", project |-> moduleName,
                            target |-> IF bFoundMainFunction THEN "executable" ELSE "library",
                            source |-> moduleName, math |-> bUseIfcPLMath,
                            schema |-> g_schemaName]
    <2>1. project \in CMakeLists
      BY DEF CMakeLists, Inv, TypeOK
    <2>2. LostCMakeLists \in CMakeLists
      BY DEF CMakeLists
    <2>3. cmakeLists' \in {LostCMakeLists, project}
      BY DEF generateCMakeListsFile
    <2>. HIDE DEF project
    <2>. QED BY <2>1, <2>2, <2>3
  <1>5. TypeOK'
    BY <1>1, <1>3, <1>4 DEF Inv, TypeOK, Terminal, input, tables, flags, globals
  <1>6. PhasesAgree' /\ NoTornOutput'
    BY <1>1, <1>3 DEF PhasesAgree, NoTornOutput
  <1>. QED BY <1>1, <1>3, <1>5, <1>6, PhaseStep

\* A caught exception is reported, and main returns 0.
LEMMA ReportStep ==
    ASSUME Inv, ReportException
    PROVE  Inv'
  <1>1. phase' = "exited" /\ UNCHANGED <<input, next, tables>>
    BY DEF ReportException
  <1>2. cppFile' \in CppFile /\ InPass2' = InPass2
    BY DEF ReportException, CppFile, InPass2, Inv, TypeOK
  <1>3. TypeOK'
    BY <1>2 DEF ReportException, Inv, TypeOK, Terminal, input, tables, flags, globals
  <1>4. PhasesAgree' /\ NoTornOutput'
    BY <1>1 DEF PhasesAgree, NoTornOutput
  <1>. QED BY <1>1, <1>2, <1>3, <1>4, PhaseStep

\* The invariant holds before the parse.
LEMMA InitialInv == Init => Inv
  <1>. SUFFICES ASSUME Init PROVE Inv
    OBVIOUS
  <1>1. /\ program \in Programs /\ program \in Seq(Node) /\ next = 1
    BY ProgramsAssumption DEF Init
  <1>2. /\ classNames = <<>> /\ enumNames = <<>> /\ baseClasses = <<>> /\ symbolTable = {}
        /\ out = <<>> /\ deferredOutput = <<>> /\ oipExpressRuns = <<>>
        /\ generated = {} /\ phase = "start" /\ cppFile = NoFile
    BY DEF Init
  <1>3. TypeOK
    <2>1. next \in 1..(Len(program) + 1)
      BY <1>1
    <2>2. cppFile \in CppFile /\ cmakeLists \in CMakeLists /\ "main" \in Name /\ "" \in Name
      BY NameAssumption DEF Init, NoFile, CppFile, CMakeLists
    <2>3. /\ out \in Seq(Fragment) /\ deferredOutput \in Seq(Fragment)
          /\ classNames \in Seq(Name) /\ enumNames \in Seq(Name)
          /\ oipExpressRuns \in Seq(Name) /\ DOMAIN baseClasses = {}
      BY <1>2
    <2>. QED BY <1>2, <2>1, <2>2, <2>3 DEF Init, TypeOK
  <1>4. ~InPass2
    BY <1>2 DEF InPass2, NoFile
  <1>5. TablesArePrefixes
    <2>1. Range(classNames) = {} /\ Range(enumNames) = {} /\ DOMAIN baseClasses = {}
      BY <1>2 DEF Range
    <2>2. next - 1 = 0
      BY <1>1
    <2>. QED BY <1>2, <1>4, <2>1, <2>2, PrefixEmpty DEF TablesArePrefixes
  <1>6. PhasesAgree /\ Validated /\ NoTornOutput
    BY <1>1, <1>2, <1>4 DEF PhasesAgree, Validated, NoTornOutput
  <1>. QED BY <1>3, <1>5, <1>6 DEF Inv, Knowledge

\* Nothing happens.
LEMMA StutteringStep ==
    ASSUME Inv, UNCHANGED vars
    PROVE  Inv'
  <1>1. /\ UNCHANGED <<phase, input, next, out, moduleName, tables, flags, globals, files>>
    BY DEF vars, transformVars
  <1>2. TypeOK' /\ InPass2' = InPass2 /\ program' = program
    BY <1>1 DEF Inv, TypeOK, InPass2, input, tables, flags, globals, files
  <1>3. PhasesAgree' /\ NoTornOutput'
    BY <1>1, <1>2 DEF Inv, Knowledge, PhasesAgree, NoTornOutput
  <1>. QED BY <1>1, <1>2, <1>3, PhaseStep

\* Every step keeps the invariant.
LEMMA NextInv == Inv /\ [Next]_vars => Inv'
  <1>. SUFFICES ASSUME Inv, [Next]_vars PROVE Inv'
    OBVIOUS
  <1>1. CASE RefuseCommandLine \/ RefuseSourceFile \/ yyerror \/ RefuseCharLiteral
    BY <1>1, RefuseStep, CharLiteralStep DEF RefuseCommandLine, RefuseSourceFile, yyerror
  <1>2. CASE StartPass1
    BY <1>2, StartPass1Step
  <1>3. CASE EndPass1 \/ EndPass2
    BY <1>3, EndPassStep
  <1>4. CASE StartPass2
    BY <1>4, StartPass2Step
  <1>5. CASE Visit /\ UNCHANGED files
    BY <1>5, VisitStep
  <1>6. CASE Fail /\ UNCHANGED files
    BY <1>6, FailStep
  <1>7. CASE generateCMakeListsFile
    BY <1>7, ProjectStep
  <1>8. CASE ReportException
    BY <1>8, ReportStep
  <1>9. CASE UNCHANGED vars
    BY <1>9, StutteringStep
  <1>. QED BY <1>1, <1>2, <1>3, <1>4, <1>5, <1>6, <1>7, <1>8, <1>9 DEF Next

-----------------------------------------------------------------------------
(* Theorems.                                                                  *)

\* At every moment of every run the tables are those of the nodes visited so
\* far (seeded, in pass 2, with the classes and enums of the whole program), and
\* every node visited so far, or every node at all in pass 2, can be translated.
THEOREM InvariantHolds == Spec => []Inv
  BY InitialInv, NextInv, PTL DEF Spec

\* The variables of the transform, of main() and of the files keep their types:
\* in particular classNames_.back() is only taken of a class that exists, and
\* baseClasses_ is only asked for a class it has.
THEOREM TypeCorrect == Spec => []TypeOK
  <1>1. Inv => TypeOK
    BY DEF Inv
  <1>. QED BY <1>1, InvariantHolds, PTL

\* Pass 2 never fails on a tree that pass 1 got through, for every program: the
\* process neither aborts nor throws once the .cpp file has been truncated.
THEOREM NoTornOutputHolds == Spec => []NoTornOutput
  <1>1. Inv => NoTornOutput
    BY DEF Inv, Knowledge
  <1>. QED BY <1>1, InvariantHolds, PTL
=============================================================================
