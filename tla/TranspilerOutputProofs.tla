------------------------ MODULE TranspilerOutputProofs ------------------------
(* For every set of programs: what the .cpp file holds.  The argument: a       *)
(* fragment is written by the visit of one node, from tables which, in pass 2, *)
(* hold every class and enum of the program (Knowledge), and from a symbol     *)
(* table that holds every declaration before the node; so each fragment is     *)
(* right when it is written, and stays right.  Then what main() makes of the   *)
(* two walks: it judges the program before it begins the translation (the      *)
(* module Translation), and what the second walk has in its tables at its end  *)
(* goes to CMakeLists.txt.                                                     *)
EXTENDS TranspilerProofs, FiniteSetTheorems

-----------------------------------------------------------------------------
(* The symbol table, as declarations before a node.                           *)

\* A vector holds what its places hold.
LEMMA VectorPlaces ==
    ASSUME NEW S, NEW s \in Seq(S), NEW x
    PROVE  x \in Range(s) <=> \E k \in 1..Len(s) : s[k] = x
  <1>1. DOMAIN s = 1..Len(s)
    OBVIOUS
  <1>. QED BY <1>1 DEF Range

\* The visit of node i enters an EXPRESS symbol for id exactly when the node
\* declares one.
LEMMA EntersExpress ==
    ASSUME NEW i, program[i] \in Node, NEW id
    PROVE  isExpressType(SymbolsOf(program[i]), id) <=> DeclaresExpress(i, id)
  <1>. DEFINE n == program[i]
  <1>1. ASSUME NEW v
        PROVE  isExpressType(VariableSymbols(v), id) <=> v.id = id /\ v.type \in IfcNames
    <2>1. ExpressSymbol(v.id, v.type).id = v.id /\ ExpressSymbol(v.id, v.type).isExpressType
      BY DEF ExpressSymbol, symbolDescription
    <2>. QED BY <2>1 DEF VariableSymbols, isExpressType
  <1>2. \A t, d : ~isExpressType({ArraySymbol(d, t)}, id)
    BY DEF isExpressType, ArraySymbol, symbolDescription
  <1>3. ASSUME n.arguments \in Seq(Parameter)
        PROVE  \A x : x \in Range(n.arguments) <=> \E k \in 1..Len(n.arguments) : n.arguments[k] = x
    <2>. HIDE DEF n
    <2>. QED BY <1>3, VectorPlaces
  <1>4. CASE n.node \in {"VariableDeclaration", "ClassVariable"}
    BY <1>1, <1>4 DEF SymbolsOf, DeclaresExpress
  <1>5. CASE n.node = "ArrayDeclaration"
    BY <1>2, <1>5 DEF SymbolsOf, DeclaresExpress
  <1>6. CASE n.node = "MethodDeclaration"
    <2>1. n.arguments \in Seq(Parameter)
      BY <1>6, NodeShapes DEF MethodDeclaration
    <2>2. isExpressType(MethodSymbols(n), id) <=>
             \E p \in Range(n.arguments) :
                p.id = id /\ (p.type \in IfcNames \/ p.id \in ifcNames)
      <3>1. isExpressType({ExpressSymbol(p.id, n.type) : p \in {q \in Range(n.arguments) : q.id \in ifcNames}}, id)
              <=> \E p \in Range(n.arguments) : p.id = id /\ p.id \in ifcNames
        <4>1. \A p : ExpressSymbol(p.id, n.type).id = p.id /\ ExpressSymbol(p.id, n.type).isExpressType
          BY DEF ExpressSymbol, symbolDescription
        <4>. QED BY <4>1 DEF isExpressType
      <3>2. isExpressType(UNION {VariableSymbols(p) : p \in Range(n.arguments)}, id)
              <=> \E p \in Range(n.arguments) : isExpressType(VariableSymbols(p), id)
        BY DEF isExpressType
      <3>3. \A S, T : isExpressType(S \union T, id)
                         <=> isExpressType(S, id) \/ isExpressType(T, id)
        BY DEF isExpressType
      <3>. QED BY <1>1, <3>1, <3>2, <3>3 DEF MethodSymbols
    <2>3. isExpressType(MethodSymbols(n), id) <=>
             \E k \in 1..Len(n.arguments) :
                /\ n.arguments[k].id = id
                /\ n.arguments[k].type \in IfcNames \/ id \in ifcNames
      <3>. HIDE DEF n
      <3>. QED BY <1>3, <2>1, <2>2
    <2>. QED BY <1>6, <2>3 DEF SymbolsOf, DeclaresExpress
  <1>7. CASE n.node = "CtorDeclaration"
    <2>1. n.arguments \in Seq(Parameter)
      BY <1>7, NodeShapes DEF CtorDeclaration
    <2>2. isExpressType(CtorSymbols(n), id) <=>
             \E p \in Range(n.arguments) : p.id = id /\ p.type \in IfcNames /\ ~p.isArray
      <3>1. isExpressType(CtorSymbols(n), id) <=>
               \E p \in Range(n.arguments) :
                  isExpressType(IF p.isArray THEN {ArraySymbol(p.id, p.type)} ELSE VariableSymbols(p), id)
        BY DEF isExpressType, CtorSymbols
      <3>. QED BY <1>1, <1>2, <3>1
    <2>3. isExpressType(CtorSymbols(n), id) <=>
             \E k \in 1..Len(n.arguments) :
                n.arguments[k].id = id /\ n.arguments[k].type \in IfcNames /\ ~n.arguments[k].isArray
      <3>. HIDE DEF n
      <3>. QED BY <1>3, <2>1, <2>2
    <2>. QED BY <1>7, <2>3 DEF SymbolsOf, DeclaresExpress
  <1>8. CASE n.node = "FunctionDeclaration"
    <2>1. n.arguments \in Seq(Parameter)
      BY <1>8, NodeShapes DEF FunctionDeclaration
    <2>2. isExpressType(FunctionSymbols(n), id) <=>
             n.id # "main" /\ \E p \in Range(n.arguments) : p.id = id /\ p.type \in IfcNames
      <3>1. CASE n.id = "main"
        BY <3>1 DEF FunctionSymbols, isExpressType
      <3>2. CASE n.id # "main"
        <4>1. isExpressType(FunctionSymbols(n), id) <=>
                 \E p \in Range(n.arguments) : isExpressType(VariableSymbols(p), id)
          BY <3>2 DEF FunctionSymbols, isExpressType
        <4>. QED BY <1>1, <3>2, <4>1
      <3>. QED BY <3>1, <3>2
    <2>3. isExpressType(FunctionSymbols(n), id) <=>
             n.id # "main" /\ \E k \in 1..Len(n.arguments) :
                                 n.arguments[k].id = id /\ n.arguments[k].type \in IfcNames
      <3>. HIDE DEF n
      <3>. QED BY <1>3, <2>1, <2>2
    <2>. QED BY <1>8, <2>3 DEF SymbolsOf, DeclaresExpress
  <1>9. CASE n.node \notin {"VariableDeclaration", "ClassVariable", "ArrayDeclaration",
                          "MethodDeclaration", "CtorDeclaration", "FunctionDeclaration"}
    BY <1>9 DEF SymbolsOf, DeclaresExpress, isExpressType
  <1>. QED BY <1>4, <1>5, <1>6, <1>7, <1>8, <1>9

\* The symbol table says EXPRESS of exactly the names declared so before the
\* node the walk has come to.
LEMMA ExpressKnown ==
    ASSUME Inv, NEW id
    PROVE  isExpressType(symbolTable, id) <=> DeclaredExpressBefore(next, id)
  <1>1. symbolTable = UNION {SymbolsOf(program[i]) : i \in 1..(next - 1)}
    BY DEF Inv, Knowledge, TablesArePrefixes, SymbolsIn
  <1>2. isExpressType(symbolTable, id) <=>
           \E i \in 1..(next - 1) : isExpressType(SymbolsOf(program[i]), id)
    BY <1>1 DEF isExpressType
  <1>3. \A i \in 1..(next - 1) : program[i] \in Node
    <2>1. next \in 1..(Len(program) + 1) /\ Len(program) \in Nat
      BY ProgramShape DEF Inv, TypeOK
    <2>2. \A i \in 1..(next - 1) : i \in 1..Len(program)
      BY <2>1
    <2>. QED BY <2>2, ProgramShape DEF Inv
  <1>. QED BY <1>2, <1>3, EntersExpress DEF DeclaredExpressBefore

-----------------------------------------------------------------------------
(* Fragments that are right.                                                  *)

\* Type t, written as as.
Resolves(t, as) ==
    /\ t \in Classes \ ReservedTypes => as \in {"shared_ptr", "reference"}
    /\ as = "shared_ptr" => t \in Classes \union IfcNames \union IFCNames \union LibraryTypes

\* What ReferencesResolved, EnumsResolved and ForwardDeclared ask of one fragment.
TypeFits(f) ==
    f.part \in {"result", "functionResult", "parameter", "field", "variable"} =>
        Resolves(f.type, f.as) \/ (f.as = "plain" /\ ByValue(f))
AccessFits(f) ==
    f.part = "access" /\ f.type = "member" /\ f.name \in Enums =>
        \/ f.as = "::"
        \/ f.as = "->m_" /\ DeclaredExpressBefore(next, f.name)
ForwardFits(f) == f.part = "forward" => f.name \in Classes
Fits(f) == TypeFits(f) /\ AccessFits(f) /\ ForwardFits(f)

AllFit(s) == \A i \in 1..Len(s) : Fits(s[i])

\* The forward declarations come first, and there is one for every class.
ForwardsFirst ==
    \A c \in Classes : \E j \in 1..Len(out) :
        out[j].name = c /\ \A l \in 1..j : out[l].part = "forward"

\* What waits for the end of a class are definitions.
DefinitionsWait == \A i \in 1..Len(deferredOutput) : deferredOutput[i].part = "definition"

Written == DefinitionsWait /\ (InPass2 => AllFit(out) /\ ForwardsFirst)

\* A fragment that declares no type, accesses no member and forwards no class.
LEMMA PlainFits ==
    ASSUME NEW f, f.part \notin {"result", "functionResult", "parameter", "field", "variable",
                                 "access", "forward"}
    PROVE  Fits(f)
  BY DEF Fits, TypeFits, AccessFits, ForwardFits

\* The parts of a fragment.
LEMMA FragmentParts ==
    ASSUME NEW part, NEW name, NEW type, NEW as
    PROVE  /\ fragment(part, name, type, as).part = part
           /\ fragment(part, name, type, as).name = name
           /\ fragment(part, name, type, as).type = type
           /\ fragment(part, name, type, as).as = as
  BY DEF fragment

\* A sequence of one fragment, ...
LEMMA OneFits ==
    ASSUME NEW f, Fits(f)
    PROVE  AllFit(<<f>>)
  BY DEF AllFit

\* ... no fragment, ...
LEMMA NoneFits == AllFit(<<>>)
  BY DEF AllFit

\* ... and two sequences, one after the other.
LEMMA ConcatenationFits ==
    ASSUME NEW s \in Seq(Fragment), NEW t \in Seq(Fragment), AllFit(s), AllFit(t)
    PROVE  AllFit(s \o t)
  <1>1. Len(s \o t) = Len(s) + Len(t) /\ Len(s) \in Nat /\ Len(t) \in Nat
    OBVIOUS
  <1>2. ASSUME NEW i \in 1..Len(s \o t)
        PROVE  Fits((s \o t)[i])
    <2>1. CASE i \in 1..Len(s)
      <3>1. (s \o t)[i] = s[i]
        BY <2>1
      <3>. QED BY <2>1, <3>1 DEF AllFit
    <2>2. CASE i \in (Len(s) + 1)..(Len(s) + Len(t))
      <3>1. (s \o t)[i] = t[i - Len(s)] /\ i - Len(s) \in 1..Len(t)
        BY <2>2, <1>1
      <3>. QED BY <3>1 DEF AllFit
    <2>. QED BY <1>1, <2>1, <2>2
  <1>. QED BY <1>2 DEF AllFit

\* What pass 2 asks: is it a class, is it an enum, of the whole program.
LEMMA Seeded ==
    ASSUME Inv, InPass2
    PROVE  Range(classNames) = Classes /\ Range(enumNames) = Enums
  BY DEF Inv, Knowledge, TablesArePrefixes

\* A reference type is written through a pointer by whoever writes it.
LEMMA TypesFit ==
    ASSUME Inv, InPass2, NEW t, NEW v
    PROVE  /\ Resolves(t, ResultType(t)) /\ Resolves(t, FieldType(t))
           /\ Resolves(v.type, VariableType(v)) /\ Resolves(v.type, MethodParameterType(v))
           /\ Resolves(v.type, InterfaceParameterType(v))
           /\ Resolves(v.type, FunctionParameterType(v))
  <1>1. \A u : /\ u \in Classes \ ReservedTypes => isReferenceType(u)
               /\ isReferenceType(u) =>
                     u \in Classes \union IfcNames \union IFCNames \union LibraryTypes
    BY Seeded DEF isReferenceType, isReferenceTypeIn, ReservedTypes
  <1>2. \A u : u \in Classes \ ReservedTypes => u # "string" /\ u # "XIfcPropertySet"
    BY DEF ReservedTypes
  <1>3. Resolves(t, ResultType(t)) /\ Resolves(t, FieldType(t))
    BY <1>1, <1>2 DEF Resolves, ResultType, FieldType
  <1>4. Resolves(v.type, VariableType(v))
    BY <1>1, <1>2 DEF Resolves, VariableType
  <1>5. Resolves(v.type, MethodParameterType(v))
    BY <1>1, <1>2 DEF Resolves, MethodParameterType
  <1>6. Resolves(v.type, InterfaceParameterType(v)) /\ Resolves(v.type, FunctionParameterType(v))
    BY <1>1, <1>2 DEF Resolves, InterfaceParameterType, FunctionParameterType
  <1>. QED BY <1>3, <1>4, <1>5, <1>6

\* A typed fragment that resolves its type is right.
LEMMA TypedFits ==
    ASSUME NEW part \in {"result", "parameter", "field", "variable"},
           NEW name, NEW type, NEW as, Resolves(type, as)
    PROVE  Fits(fragment(part, name, type, as))
  <1>. DEFINE f == fragment(part, name, type, as)
  <1>1. f.part = part /\ f.type = type /\ f.as = as
    BY DEF fragment
  <1>. HIDE DEF f
  <1>2. Fits(f)
    BY <1>1 DEF Fits, TypeFits, AccessFits, ForwardFits, Resolves
  <1>. QED BY <1>2 DEF f

\* A written parameter list is right.
LEMMA ParametersFit ==
    ASSUME Inv, InPass2, NEW n, n.arguments \in Seq(Parameter),
           n.node \in {"InterfaceMethod", "MethodDeclaration", "CtorDeclaration",
                      "FunctionDeclaration"}
    PROVE  AllFit(Parameters(n))
  <1>1. ASSUME NEW p
        PROVE  Fits(fragment(ParameterPart(n, p), p.id, p.type, ParameterType(n, p)))
    <2>1. CASE n.node = "CtorDeclaration" /\ p.isArray
      BY <2>1, PlainFits, FragmentParts DEF ParameterPart
    <2>2. CASE ~(n.node = "CtorDeclaration" /\ p.isArray)
      <3>1. ParameterPart(n, p) = "parameter"
        BY <2>2 DEF ParameterPart
      <3>2. Resolves(p.type, ParameterType(n, p))
        BY <2>2, TypesFit DEF ParameterType
      <3>. QED BY <3>1, <3>2, TypedFits
    <2>. QED BY <2>1, <2>2
  <1>2. /\ Len(Parameters(n)) = Len(n.arguments) /\ Len(n.arguments) \in Nat
        /\ \A i \in 1..Len(n.arguments) :
              Parameters(n)[i] = fragment(ParameterPart(n, n.arguments[i]), n.arguments[i].id,
                                          n.arguments[i].type, ParameterType(n, n.arguments[i]))
    BY DEF Parameters
  <1>. QED BY <1>1, <1>2 DEF AllFit

\* A member of an enum is accessed with ::, unless the enum's name is also
\* that of an EXPRESS variable.
LEMMA AccessIsFit ==
    ASSUME Inv, InPass2, NEW id, NEW isMethodCall, NEW use,
           use = "member" => ~isMethodCall,
           NEW how, how = AccessOperator(id, isMethodCall)
    PROVE  Fits(fragment("access", id, use, how))
  <1>. DEFINE f == fragment("access", id, use, how)
  <1>1. f.part = "access" /\ f.name = id /\ f.type = use /\ f.as = how
    BY FragmentParts
  <1>2. ASSUME use = "member", id \in Enums
        PROVE  how = "::" \/ (how = "->m_" /\ DeclaredExpressBefore(next, id))
    <2>1. ~isMethodCall /\ id \in Enums
      BY <1>2
    <2>2. isEnum(id)
      BY <2>1, Seeded DEF isEnum
    <2>. QED BY <2>1, <2>2, ExpressKnown DEF AccessOperator
  <1>. HIDE DEF f
  <1>3. Fits(f)
    BY <1>1, <1>2 DEF Fits, TypeFits, AccessFits, ForwardFits
  <1>. QED BY <1>3 DEF f

-----------------------------------------------------------------------------
(* What a visit writes.                                                       *)

\* Fragments that may be added to the file.
Good(s) == s \in Seq(Fragment) /\ (InPass2 => AllFit(s))

Writes == \E f : Good(f) /\ Emit(f)

\* A fragment that declares no type, accesses no member and forwards no class,
LEMMA GoodPlain ==
    ASSUME NEW part \in Part \ {"result", "functionResult", "parameter", "field", "variable",
                                "access", "forward"},
           NEW name \in Name, NEW type \in Name \union Use, NEW as \in Name \union Form
    PROVE  Good(<<fragment(part, name, type, as)>>)
  <1>1. <<fragment(part, name, type, as)>> \in Seq(Fragment)
    BY FragmentType
  <1>2. fragment(part, name, type, as).part = part
    BY DEF fragment
  <1>3. Fits(fragment(part, name, type, as))
    BY <1>2, PlainFits
  <1>. QED BY <1>1, <1>3, OneFits DEF Good

\* ... one that names a type and resolves it,
LEMMA GoodTyped ==
    ASSUME NEW part \in {"result", "parameter", "field", "variable"},
           NEW name \in Name, NEW type \in Name, NEW as \in Form, InPass2 => Resolves(type, as)
    PROVE  Good(<<fragment(part, name, type, as)>>)
  <1>1. <<fragment(part, name, type, as)>> \in Seq(Fragment)
    BY FragmentType DEF Part
  <1>2. InPass2 => Fits(fragment(part, name, type, as))
    BY TypedFits
  <1>. QED BY <1>1, <1>2, OneFits DEF Good

\* ... the result of a function, which is resolved for an operator,
LEMMA GoodResult ==
    ASSUME Inv, NEW i \in 1..Len(program), NEW n, n = program[i], n.node = "FunctionDeclaration",
           n.id \in Name, n.type \in Name
    PROVE  Good(<<fragment("functionResult", n.id, n.type, FunctionResultType(n))>>)
  <1>. DEFINE f == fragment("functionResult", n.id, n.type, FunctionResultType(n))
  <1>1. <<f>> \in Seq(Fragment)
    BY FragmentType, FormTypes DEF Part
  <1>2. f.part = "functionResult" /\ f.name = n.id /\ f.type = n.type
        /\ f.as = FunctionResultType(n)
    BY FragmentParts
  <1>. HIDE DEF f
  <1>3. ASSUME InPass2 PROVE Fits(f)
    <2>1. CASE n.OperationType = "Plus"
      <3>1. FunctionResultType(n) = IF isReferenceType(n.type) THEN "shared_ptr" ELSE "plain"
        BY <2>1 DEF FunctionResultType
      <3>2. /\ n.type \in Classes \ ReservedTypes => isReferenceType(n.type)
            /\ isReferenceType(n.type) =>
                  n.type \in Classes \union IfcNames \union IFCNames \union LibraryTypes
        BY <1>3, Seeded DEF isReferenceType, isReferenceTypeIn, ReservedTypes
      <3>3. Resolves(f.type, f.as)
        BY <1>2, <3>1, <3>2 DEF Resolves
      <3>. QED BY <1>2, <3>3 DEF Fits, TypeFits, AccessFits, ForwardFits
    <2>2. CASE n.OperationType # "Plus"
      <3>1. FunctionResultType(n) = "plain"
        BY <2>2 DEF FunctionResultType
      <3>2. i \in Nodes("FunctionDeclaration", Len(program))
        BY DEF Nodes
      <3>3. ByValue(f)
        BY <1>2, <2>2, <3>2 DEF ByValue
      <3>. QED BY <1>2, <3>1, <3>3 DEF Fits, TypeFits, AccessFits, ForwardFits
    <2>. QED BY <2>1, <2>2
  <1>4. Good(<<f>>)
    BY <1>1, <1>3, OneFits DEF Good
  <1>. QED BY <1>4 DEF f

\* ... an access to a member,
LEMMA GoodAccess ==
    ASSUME Inv, NEW id \in Name, NEW isMethodCall, NEW use \in {"call", "member"},
           use = "member" => ~isMethodCall
    PROVE  Good(<<fragment("access", id, use, AccessOperator(id, isMethodCall))>>)
  <1>1. "access" \in Part /\ use \in Use /\ AccessOperator(id, isMethodCall) \in Form
    BY FormTypes DEF Part, Use
  <1>2. <<fragment("access", id, use, AccessOperator(id, isMethodCall))>> \in Seq(Fragment)
    BY <1>1, FragmentType
  <1>3. InPass2 => Fits(fragment("access", id, use, AccessOperator(id, isMethodCall)))
    BY AccessIsFit
  <1>. QED BY <1>2, <1>3, OneFits DEF Good

\* ... a parameter list,
LEMMA GoodParameters ==
    ASSUME Inv, NEW n, n.arguments \in Seq(Parameter),
           n.node \in {"InterfaceMethod", "MethodDeclaration", "CtorDeclaration",
                      "FunctionDeclaration"}
    PROVE  Good(Parameters(n))
  BY ParametersType, ParametersFit DEF Good

\* ... nothing,
LEMMA GoodNone == Good(<<>>)
  BY NoneFits DEF Good

\* ... and two good sequences, one after the other, may be added.
LEMMA GoodConcatenation ==
    ASSUME NEW s, NEW t, Good(s), Good(t)
    PROVE  Good(s \o t)
  BY Concatenation, ConcatenationFits DEF Good

\* So may two fragments that may be added one by one.
LEMMA GoodPair ==
    ASSUME NEW d, NEW e, Good(<<d>>), Good(<<e>>)
    PROVE  Good(<<d, e>>)
  <1>1. <<d>> \in Seq(Fragment) /\ <<e>> \in Seq(Fragment)
    BY DEF Good
  <1>2. Len(<<d>>) = 1 /\ <<d>>[1] = d /\ Len(<<e>>) = 1 /\ <<e>>[1] = e
    OBVIOUS
  <1>3. d \in Fragment /\ e \in Fragment
    BY <1>1, <1>2
  <1>4. <<d, e>> \in Seq(Fragment)
    BY <1>3
  <1>5. ASSUME InPass2
        PROVE  Fits(d) /\ Fits(e)
    <2>1. AllFit(<<d>>) /\ AllFit(<<e>>)
      BY <1>5 DEF Good
    <2>2. 1 \in 1..Len(<<d>>) /\ 1 \in 1..Len(<<e>>)
      BY <1>2
    <2>3. Fits(<<d>>[1]) /\ Fits(<<e>>[1])
      BY <2>1, <2>2 DEF AllFit
    <2>. QED BY <1>2, <2>3
  <1>6. InPass2 => AllFit(<<d, e>>)
    BY <1>5 DEF AllFit
  <1>. QED BY <1>4, <1>6 DEF Good

\* A signature, as methods and interface methods have it.
LEMMA GoodSignature ==
    ASSUME Inv, NEW n, n.id \in Name, n.type \in Name, n.arguments \in Seq(Parameter),
           n.node \in {"InterfaceMethod", "MethodDeclaration"}
    PROVE  Good(<<fragment("result", n.id, n.type, ResultType(n.type))>> \o Parameters(n))
  <1>1. Good(<<fragment("result", n.id, n.type, ResultType(n.type))>>)
    <2>1. ResultType(n.type) \in Form /\ (InPass2 => Resolves(n.type, ResultType(n.type)))
      BY FormTypes, TypesFit
    <2>. QED BY <2>1, GoodTyped
  <1>2. Good(Parameters(n))
    BY GoodParameters
  <1>. QED BY <1>1, <1>2, GoodConcatenation

\* A visit that leaves the output alone has written nothing.
LEMMA WritesNothing ==
    ASSUME TypeOK, out' = out
    PROVE  Writes
  <1>1. out \in Seq(Fragment)
    BY DEF TypeOK
  <1>2. out \o <<>> = out
    BY <1>1
  <1>. QED BY <1>2, GoodNone DEF Writes, Emit

\* Every visit only adds to the output, and what it adds is right.
LEMMA VisitWrites ==
    ASSUME Inv, Written, Visit
    PROVE  Writes
  <1>1. CASE VisitModuleStatement
    BY <1>1, WritesNothing DEF VisitModuleStatement, Inv
  <1>2. CASE VisitSchemaImport
    <2>1. Good(<<fragment("include", Visited.name, "", "schema")>>)
      <3>1. Visited.name \in Name
        BY <1>2, VisitingNode, NodeShapes DEF VisitSchemaImport, ImportStatement, Inv
      <3>. QED BY <3>1, GoodPlain, NameAssumption DEF Part, Form
    <2>. QED BY <1>2, <2>1, WritesNothing DEF VisitSchemaImport, Writes, Inv
  <1>3. CASE VisitLibraryImport
    <2>1. Good(<<fragment("include", Visited.name, "", "library")>>)
      <3>1. Visited.name \in Name
        BY <1>3, VisitingNode, NodeShapes DEF VisitLibraryImport, ImportStatement, Inv
      <3>. QED BY <3>1, GoodPlain, NameAssumption DEF Part, Form
    <2>. QED BY <1>3, <2>1 DEF VisitLibraryImport, Writes
  <1>4. CASE VisitEnumerationDeclaration
    <2>1. Good(<<fragment("enum", Visited.id, "", "")>>)
      <3>1. Visited.id \in Name
        BY <1>4, VisitingNode, NodeShapes
           DEF VisitEnumerationDeclaration, EnumerationDeclaration, Inv
      <3>. QED BY <3>1, GoodPlain, NameAssumption DEF Part
    <2>. QED BY <1>4, <2>1 DEF VisitEnumerationDeclaration, Writes
  <1>5. CASE VisitInterfaceDeclaration
    <2>1. Good(<<fragment("begin", Visited.id, "", "interface")>>)
      <3>1. Visited.id \in Name
        BY <1>5, VisitingNode, NodeShapes
           DEF VisitInterfaceDeclaration, InterfaceDeclaration, Inv
      <3>. QED BY <3>1, GoodPlain, NameAssumption DEF Part, Form
    <2>. QED BY <1>5, <2>1 DEF VisitInterfaceDeclaration, Writes
  <1>6. CASE VisitInterfaceMethod
    <2>1. /\ Visited.id \in Name /\ Visited.type \in Name
          /\ Visited.arguments \in Seq(Parameter) /\ Visited.node = "InterfaceMethod"
      BY <1>6, VisitingNode, NodeShapes DEF VisitInterfaceMethod, InterfaceMethod, Inv
    <2>2. Good(<<fragment("result", Visited.id, Visited.type, ResultType(Visited.type))>>
               \o Parameters(Visited))
      BY <2>1, GoodSignature
    <2>. QED BY <1>6, <2>2 DEF VisitInterfaceMethod, Writes
  <1>7. CASE VisitClassDeclaration
    <2>. DEFINE base == IF Visited.hasBaseClass THEN Visited.baseClass ELSE ""
    <2>1. Visited.id \in Name /\ base \in Name
      BY <1>7, VisitingNode, NodeShapes, NameAssumption
         DEF VisitClassDeclaration, ClassDeclaration, Inv
    <2>2. Emit(<<fragment("begin", Visited.id, base, "class")>>)
      BY <1>7 DEF VisitClassDeclaration
    <2>. HIDE DEF base
    <2>3. Good(<<fragment("begin", Visited.id, base, "class")>>)
      BY <2>1, GoodPlain DEF Part, Form
    <2>. QED BY <2>2, <2>3 DEF Writes
  <1>8. CASE EndClassDeclaration
    <2>1. Good(<<fragment("end", "", "", "class")>>)
      BY GoodPlain, NameAssumption DEF Part, Form
    <2>2. Good(deferredOutput)
      <3>1. AllFit(deferredOutput)
        BY PlainFits DEF Written, DefinitionsWait, AllFit
      <3>. QED BY <3>1 DEF Good, Inv, TypeOK
    <2>3. Good(<<fragment("end", "", "", "class")>> \o deferredOutput)
      BY <2>1, <2>2, GoodConcatenation
    <2>. QED BY <1>8, <2>3 DEF EndClassDeclaration, Writes
  <1>9. CASE VisitClassVariable
    <2>1. Visited.id \in Name /\ Visited.type \in Name
      BY <1>9, VisitingNode, NodeShapes DEF VisitClassVariable, ClassVariable, Inv
    <2>2. FieldType(Visited.type) \in Form
          /\ (InPass2 => Resolves(Visited.type, FieldType(Visited.type)))
      BY FormTypes, TypesFit
    <2>3. Good(<<fragment("field", Visited.id, Visited.type, FieldType(Visited.type))>>)
      BY <2>1, <2>2, GoodTyped
    <2>. QED BY <1>9, <2>3 DEF VisitClassVariable, Writes
  <1>10. CASE VisitClassArray
    <2>1. Visited.id \in Name /\ Visited.type \in Name
      BY <1>10, VisitingNode, NodeShapes DEF VisitClassArray, ClassArray, Inv
    <2>2. Good(<<fragment("array", Visited.id, Visited.type, "plain")>>)
      BY <2>1, GoodPlain DEF Part, Form
    <2>. QED BY <1>10, <2>2 DEF VisitClassArray, Writes
  <1>11. CASE VisitMethodDeclaration
    <2>. DEFINE signature == <<fragment("result", Visited.id, Visited.type,
                                        ResultType(Visited.type))>> \o Parameters(Visited)
                begin == <<fragment("begin", Visited.id, "", "function")>>
    <2>1. /\ Visited.id \in Name /\ Visited.type \in Name
          /\ Visited.arguments \in Seq(Parameter) /\ Visited.node = "MethodDeclaration"
      BY <1>11, VisitingNode, NodeShapes DEF VisitMethodDeclaration, MethodDeclaration, Inv
    <2>2. Good(signature)
      BY <2>1, GoodSignature
    <2>3. Good(begin)
      BY <2>1, GoodPlain, NameAssumption DEF Part, Form
    <2>4. Emit(signature \o begin)
      BY <1>11 DEF VisitMethodDeclaration
    <2>. HIDE DEF signature, begin
    <2>. QED BY <2>2, <2>3, <2>4, GoodConcatenation DEF Writes
  <1>12. CASE VisitCtorDeclaration
    <2>. DEFINE base == IF Visited.hasBaseClassCtor
                        THEN <<fragment("base", baseClasses[Visited.id], "", "")>> ELSE <<>>
                begin == <<fragment("begin", Visited.id, "", "function")>>
    <2>1. /\ Visited.id \in Name /\ Visited.arguments \in Seq(Parameter)
          /\ Visited.node = "CtorDeclaration"
      BY <1>12, VisitingNode, NodeShapes DEF VisitCtorDeclaration, CtorDeclaration, Inv
    <2>2. Good(Parameters(Visited))
      BY <2>1, GoodParameters
    <2>3. Good(base)
      <3>1. CASE Visited.hasBaseClassCtor
        <4>1. Visited.id \in DOMAIN baseClasses
          BY <1>12, <2>1, <3>1 DEF VisitCtorDeclaration, Translatable, Untranslatable, Throws
        <4>2. baseClasses[Visited.id] \in Name /\ "" \in Name
          BY <4>1, NameAssumption DEF Inv, TypeOK
        <4>. QED BY <3>1, <4>2, GoodPlain DEF Part
      <3>2. CASE ~Visited.hasBaseClassCtor
        BY <3>2, GoodNone
      <3>. QED BY <3>1, <3>2
    <2>4. Good(begin)
      BY <2>1, GoodPlain, NameAssumption DEF Part, Form
    <2>5. Emit(Parameters(Visited) \o base \o begin)
      BY <1>12 DEF VisitCtorDeclaration
    <2>. HIDE DEF base, begin
    <2>. QED BY <2>2, <2>3, <2>4, <2>5, GoodConcatenation DEF Writes
  <1>13. CASE VisitFunctionDeclaration
    <2>. DEFINE result == <<fragment("functionResult", Visited.id, Visited.type,
                                     FunctionResultType(Visited))>>
                parameters == IF Visited.id = "main" THEN <<>> ELSE Parameters(Visited)
                begin == <<fragment("begin", Visited.id, "", "function")>>
                copied == IF Visited.id = "main" /\ Len(Visited.arguments) = 1
                          THEN <<fragment("array", "args", "string", "IfcPLString")>> ELSE <<>>
    <2>1. /\ Visited.id \in Name /\ Visited.type \in Name
          /\ Visited.arguments \in Seq(Parameter) /\ Visited.node = "FunctionDeclaration"
      BY <1>13, VisitingNode, NodeShapes DEF VisitFunctionDeclaration, FunctionDeclaration, Inv
    <2>2. Good(result)
      <3>1. next \in 1..Len(program) /\ Visited = program[next]
        BY <1>13 DEF VisitFunctionDeclaration, Visiting, Visited
      <3>. QED BY <2>1, <3>1, GoodResult
    <2>3. Good(parameters)
      BY <2>1, GoodNone, GoodParameters
    <2>4. Good(begin)
      BY <2>1, GoodPlain, NameAssumption DEF Part, Form
    <2>5. Good(copied)
      <3>1. Good(<<fragment("array", "args", "string", "IfcPLString")>>)
        BY GoodPlain, NameAssumption DEF Part, Form
      <3>. QED BY <3>1, GoodNone
    <2>6. Emit(result \o parameters \o begin \o copied)
      BY <1>13 DEF VisitFunctionDeclaration
    <2>. HIDE DEF result, parameters, begin, copied
    <2>. QED BY <2>2, <2>3, <2>4, <2>5, <2>6, GoodConcatenation DEF Writes
  <1>14. CASE EndBody
    <2>1. /\ Good(<<fragment("end", "", "", "function")>>)
          /\ Good(<<fragment("end", "", "", "interface")>>)
      BY GoodPlain, NameAssumption DEF Part, Form
    <2>. QED BY <1>14, <2>1 DEF EndBody, Writes
  <1>15. CASE VisitVariableDeclaration
    <2>1. Visited.id \in Name /\ Visited.type \in Name
      BY <1>15, VisitingNode, NodeShapes DEF VisitVariableDeclaration, VariableDeclaration, Inv
    <2>2. VariableType(Visited) \in Form
          /\ (InPass2 => Resolves(Visited.type, VariableType(Visited)))
      BY FormTypes, TypesFit
    <2>3. Good(<<fragment("variable", Visited.id, Visited.type, VariableType(Visited))>>)
      BY <2>1, <2>2, GoodTyped
    <2>. QED BY <1>15, <2>3 DEF VisitVariableDeclaration, Writes
  <1>16. CASE VisitArrayDeclaration
    <2>1. Visited.id \in Name /\ Visited.type \in Name
      BY <1>16, VisitingNode, NodeShapes DEF VisitArrayDeclaration, ArrayDeclaration, Inv
    <2>2. Good(<<fragment("array", Visited.id, Visited.type, "plain")>>)
      BY <2>1, GoodPlain DEF Part, Form
    <2>. QED BY <1>16, <2>2 DEF VisitArrayDeclaration, Writes
  <1>17. CASE VisitMemberAccess
    <2>. DEFINE use == IF Visited.isMethodCall THEN "call" ELSE "member"
    <2>1. Visited.id \in Name
      BY <1>17, VisitingNode, NodeShapes DEF VisitMemberAccess, MemberAccess, Inv
    <2>2. use \in {"call", "member"} /\ (use = "member" => ~Visited.isMethodCall)
      OBVIOUS
    <2>3. Emit(<<fragment("access", Visited.id, use,
                          AccessOperator(Visited.id, Visited.isMethodCall))>>)
      BY <1>17 DEF VisitMemberAccess
    <2>. HIDE DEF use
    <2>. QED BY <2>1, <2>2, <2>3, GoodAccess DEF Writes
  <1>18. CASE VisitNestedAccess
    <2>. DEFINE how == IF isExpressType(symbolTable, Visited.id)
                       THEN NestedOperator(Visited) ELSE "->"
                first == fragment("access", Visited.id, "member",
                                  AccessOperator(Visited.id, FALSE))
                second == fragment("nested", Visited.member, Visited.rhs, how)
    <2>1. Visited.id \in Name /\ Visited.member \in Name /\ Visited.rhs \in Use
      BY <1>18, VisitingNode, NodeShapes DEF VisitNestedAccess, NestedAccess, Inv, Use
    <2>2. Good(<<first>>)
      BY <2>1, GoodAccess
    <2>3. Good(<<second>>)
      <3>1. how \in Name \union Form
        BY FormTypes, NameAssumption DEF Form
      <3>. HIDE DEF how
      <3>. QED BY <2>1, <3>1, GoodPlain DEF Part
    <2>4. Emit(<<first, second>>)
      BY <1>18 DEF VisitNestedAccess
    <2>. HIDE DEF first, second
    <2>. QED BY <2>2, <2>3, <2>4, GoodPair DEF Writes
  <1>19. CASE VisitArrayAccess
    <2>1. Visited.id \in Name
      BY <1>19, VisitingNode, NodeShapes DEF VisitArrayAccess, ArrayAccess, Inv
    <2>2. Good(<<fragment("element", Visited.id, "", ElementOperator(Visited.id))>>)
      BY <2>1, GoodPlain, FormTypes, NameAssumption DEF Part
    <2>. QED BY <1>19, <2>2 DEF VisitArrayAccess, Writes
  <1>20. CASE VisitNewExpression
    <2>. DEFINE how == IF Visited.isMethodCall THEN "make_shared" ELSE "plain"
    <2>1. Visited.id \in Name /\ how \in Form
      BY <1>20, VisitingNode, NodeShapes DEF VisitNewExpression, NewExpression, Inv, Form
    <2>2. Emit(<<fragment("new", Visited.id, "", how)>>)
      BY <1>20 DEF VisitNewExpression
    <2>. HIDE DEF how
    <2>3. Good(<<fragment("new", Visited.id, "", how)>>)
      BY <2>1, GoodPlain, NameAssumption DEF Part
    <2>. QED BY <2>2, <2>3 DEF Writes
  <1>. QED BY <1>1, <1>2, <1>3, <1>4, <1>5, <1>6, <1>7, <1>8, <1>9, <1>10, <1>11, <1>12, <1>13,
              <1>14, <1>15, <1>16, <1>17, <1>18, <1>19, <1>20 DEF Visit

-----------------------------------------------------------------------------
(* What is written stays right.                                               *)

\* The declarations of the program do not change.
LEMMA SameProgram ==
    ASSUME program' = program
    PROVE  /\ Classes' = Classes /\ Enums' = Enums
           /\ \A i, id : DeclaresExpress(i, id)' = DeclaresExpress(i, id)
  BY DEF Classes, ClassesIn, Enums, EnumsIn, Nodes, DeclaresExpress

\* The walk is at a place of the program, and the output is a sequence.
LEMMA WalkShape ==
    ASSUME TypeOK
    PROVE  next \in Nat /\ next >= 1 /\ out \in Seq(Fragment) /\ Len(out) \in Nat
  <1>1. next \in 1..(Len(program) + 1) /\ Len(program) \in Nat
    BY ProgramShape DEF TypeOK
  <1>2. next \in Nat /\ next >= 1
    BY <1>1
  <1>3. out \in Seq(Fragment)
    BY DEF TypeOK
  <1>. QED BY <1>2, <1>3

\* What the walk has seen declared, it has seen declared when it has gone on.
LEMMA DeclaredStays ==
    ASSUME program' = program, next \in Nat, next' \in Nat, next <= next'
    PROVE  \A id : DeclaredExpressBefore(next, id) => DeclaredExpressBefore(next, id)'
  <1>1. \A n, m \in Nat : n <= m => \A j \in 1..(n - 1) : j \in 1..(m - 1)
    OBVIOUS
  <1>. QED BY <1>1, SameProgram DEF DeclaredExpressBefore

\* Right fragments stay right while the walk goes on, and are joined by others.
LEMMA FileGrows ==
    ASSUME Inv, NEW f \in Seq(Fragment), out' = out \o f, AllFit(out), AllFit(f),
           program' = program, next' \in Nat, next <= next'
    PROVE  AllFit(out)'
  <1>1. out \in Seq(Fragment) /\ next \in Nat
    BY WalkShape DEF Inv
  <1>2. AllFit(out \o f)
    BY <1>1, ConcatenationFits
  <1>3. \A i \in 1..Len(out') : Fits(out'[i])
    BY <1>2 DEF AllFit
  <1>4. \A id : DeclaredExpressBefore(next, id) => DeclaredExpressBefore(next, id)'
    BY <1>1, DeclaredStays
  <1>5. Classes' = Classes /\ Enums' = Enums
    BY SameProgram
  <1>6. SUFFICES ASSUME NEW i \in 1..Len(out')
                 PROVE  Fits(out[i])'
    BY DEF AllFit
  <1>. DEFINE g == out'[i]
  <1>7. TypeFits(g) /\ AccessFits(g) /\ ForwardFits(g)
    BY <1>3 DEF Fits
  <1>8. TypeFits(out[i])'
    BY <1>5, <1>7 DEF TypeFits, Resolves, ByValue, Nodes
  <1>9. AccessFits(out[i])'
    BY <1>4, <1>5, <1>7 DEF AccessFits
  <1>10. ForwardFits(out[i])'
    BY <1>5, <1>7 DEF ForwardFits
  <1>. QED BY <1>8, <1>9, <1>10 DEF Fits

\* The forward declarations stay where they are.
LEMMA ForwardsStay ==
    ASSUME TypeOK, NEW f \in Seq(Fragment), out' = out \o f, ForwardsFirst, program' = program
    PROVE  ForwardsFirst'
  <1>1. out \in Seq(Fragment) /\ Len(out) \in Nat /\ Len(f) \in Nat
    BY WalkShape
  <1>2. Len(out') = Len(out) + Len(f) /\ \A l \in 1..Len(out) : out'[l] = out[l]
    BY <1>1
  <1>3. ASSUME NEW c \in Classes
        PROVE  \E j \in 1..Len(out') :
                  out'[j].name = c /\ \A l \in 1..j : out'[l].part = "forward"
    <2>1. PICK j \in 1..Len(out) : out[j].name = c /\ \A l \in 1..j : out[l].part = "forward"
      BY DEF ForwardsFirst
    <2>2. j \in 1..Len(out') /\ \A l \in 1..j : l \in 1..Len(out)
      BY <1>1, <1>2
    <2>. QED BY <1>2, <2>1, <2>2
  <1>4. Classes' = Classes
    BY SameProgram
  <1>. QED BY <1>3, <1>4 DEF ForwardsFirst

\* A step that only adds good fragments keeps the file right.
LEMMA GrowthStep ==
    ASSUME Inv, Written, Writes, DefinitionsWait', program' = program, InPass2' = InPass2,
           next' \in Nat, next <= next'
    PROVE  Written'
  <1>1. PICK f : Good(f) /\ Emit(f)
    BY DEF Writes
  <1>2. f \in Seq(Fragment) /\ out' = out \o f
    BY <1>1 DEF Good, Emit
  <1>3. ASSUME InPass2 PROVE AllFit(out)' /\ ForwardsFirst'
    <2>1. AllFit(f) /\ AllFit(out) /\ ForwardsFirst
      BY <1>1, <1>3 DEF Good, Written
    <2>. QED BY <1>2, <2>1, FileGrows, ForwardsStay DEF Inv
  <1>. QED BY <1>3 DEF Written

\* A step that writes nothing and stays where it is.
LEMMA SilentStep ==
    ASSUME Inv, Written, UNCHANGED <<program, next, out, deferredOutput>>, InPass2' = InPass2
    PROVE  Written'
  <1>1. Writes
    BY WritesNothing DEF Inv
  <1>2. next \in Nat /\ next <= next'
    BY WalkShape DEF Inv
  <1>3. DefinitionsWait'
    BY DEF Written, DefinitionsWait
  <1>. QED BY <1>1, <1>2, <1>3, GrowthStep

\* Only definitions are deferred.
LEMMA VisitDefers ==
    ASSUME Inv, Written, Visit
    PROVE  DefinitionsWait'
  <1>1. DefinitionsWait /\ deferredOutput \in Seq(Fragment)
    BY DEF Inv, TypeOK, Written
  <1>2. CASE deferredOutput' = deferredOutput
    BY <1>1, <1>2 DEF DefinitionsWait
  <1>3. CASE EndClassDeclaration
    <2>1. Len(deferredOutput') = 0
      BY <1>3 DEF EndClassDeclaration
    <2>. QED BY <2>1 DEF DefinitionsWait
  <1>4. CASE VisitClassVariable
    <2>. DEFINE d == fragment("definition", Visited.id, Visited.type,
                              classNames[Len(classNames)])
    <2>1. deferredOutput' = deferredOutput \/ deferredOutput' = Append(deferredOutput, d)
      BY <1>4 DEF VisitClassVariable
    <2>2. d.part = "definition"
      BY DEF fragment
    <2>3. ASSUME deferredOutput' = Append(deferredOutput, d)
          PROVE  DefinitionsWait'
      <3>. HIDE DEF d
      <3>1. /\ Len(deferredOutput') = Len(deferredOutput) + 1 /\ Len(deferredOutput) \in Nat
            /\ deferredOutput'[Len(deferredOutput) + 1] = d
            /\ \A i \in 1..Len(deferredOutput) : deferredOutput'[i] = deferredOutput[i]
        BY <1>1, <2>3
      <3>2. ASSUME NEW i \in 1..Len(deferredOutput')
            PROVE  deferredOutput'[i].part = "definition"
        <4>1. i \in 1..Len(deferredOutput) \/ i = Len(deferredOutput) + 1
          BY <3>1
        <4>. QED BY <1>1, <2>2, <3>1, <4>1 DEF DefinitionsWait
      <3>. QED BY <3>2 DEF DefinitionsWait
    <2>. QED BY <1>2, <2>1, <2>3
  <1>5. deferredOutput' = deferredOutput \/ EndClassDeclaration \/ VisitClassVariable
    BY DEF Visit, tables, VisitModuleStatement, VisitSchemaImport, VisitLibraryImport,
           VisitEnumerationDeclaration, VisitInterfaceDeclaration, VisitInterfaceMethod,
           VisitClassDeclaration, VisitClassArray, VisitMethodDeclaration,
           VisitCtorDeclaration, VisitFunctionDeclaration, EndBody, VisitVariableDeclaration,
           VisitArrayDeclaration, VisitMemberAccess, VisitNestedAccess, VisitArrayAccess,
           VisitNewExpression
  <1>. QED BY <1>2, <1>3, <1>4, <1>5

\* Every visit moves on to the next node.
LEMMA VisitMoves ==
    ASSUME Inv, Visit
    PROVE  next' = next + 1 /\ program' = program /\ next \in 1..Len(program)
           /\ phase \in {"pass1", "pass2"} /\ phase' = phase
  <1>1. \E kind : Visiting(kind)
    BY DEF Visit, VisitModuleStatement, VisitSchemaImport, VisitLibraryImport,
           VisitEnumerationDeclaration, VisitInterfaceDeclaration, VisitInterfaceMethod,
           VisitClassDeclaration, EndClassDeclaration, VisitClassVariable, VisitClassArray,
           VisitMethodDeclaration, VisitCtorDeclaration, VisitFunctionDeclaration, EndBody,
           VisitVariableDeclaration, VisitArrayDeclaration, VisitMemberAccess,
           VisitNestedAccess, VisitArrayAccess, VisitNewExpression
  <1>. QED BY <1>1 DEF Visiting, input

\* The factory function an epilog adds is good.
LEMMA EpilogWrites ==
    ASSUME Inv, writeEpilog
    PROVE  Writes
  <1>. DEFINE factory == <<fragment("factory", moduleName, "", "")>>
              written == IF bIArbitraryTransitionCurveImport THEN factory ELSE <<>>
  <1>1. Good(factory)
    BY GoodPlain, NameAssumption DEF Inv, TypeOK, Part
  <1>2. Good(written)
    <2>. HIDE DEF factory
    <2>. QED BY <1>1, GoodNone
  <1>3. Emit(written)
    BY DEF writeEpilog
  <1>. HIDE DEF written
  <1>. QED BY <1>2, <1>3 DEF Writes

\* One forward declaration is written for every name, in their order.
LEMMA ForwardsShape ==
    ASSUME NEW s \in Seq(Name)
    PROVE  /\ Len(writeClassForwardDeclarations(s)) = Len(s)
           /\ \A i \in 1..Len(s) :
                 /\ writeClassForwardDeclarations(s)[i].part = "forward"
                 /\ writeClassForwardDeclarations(s)[i].name = s[i]
  <1>1. /\ Len(writeClassForwardDeclarations(s)) = Len(s)
        /\ \A i \in 1..Len(s) :
              writeClassForwardDeclarations(s)[i] = fragment("forward", s[i], "", "")
    BY DEF writeClassForwardDeclarations
  <1>2. \A c : /\ fragment("forward", c, "", "").part = "forward"
               /\ fragment("forward", c, "", "").name = c
    BY DEF fragment
  <1>. QED BY <1>1, <1>2

\* The second walk opens the file with a forward declaration for every class.
LEMMA OpeningStep ==
    ASSUME Inv, Written, StartPass2
    PROVE  Written'
  <1>1. /\ Construct(classNames, enumNames) /\ program' = program
        /\ classNames \in Seq(Name)
    BY DEF StartPass2, input, Inv, TypeOK
  <1>2. Range(classNames) = Classes
    <2>1. phase = "pass1 done"
      BY DEF StartPass2
    <2>2. ~InPass2 /\ next = Len(program) + 1 /\ Len(program) \in Nat
      BY <2>1, ProgramShape DEF Inv, Knowledge, PhasesAgree
    <2>3. next - 1 = Len(program)
      BY <2>2
    <2>. QED BY <2>2, <2>3 DEF Inv, Knowledge, TablesArePrefixes, Classes
  <1>3. Len(classNames) \in Nat /\ out' = writeClassForwardDeclarations(classNames)
    BY <1>1 DEF Construct
  <1>4. /\ Len(out') = Len(classNames)
        /\ \A i \in 1..Len(out') : out'[i].part = "forward" /\ out'[i].name = classNames[i]
    BY <1>1, <1>3, ForwardsShape
  <1>5. \A c : c \in Classes <=> \E i \in 1..Len(classNames) : classNames[i] = c
    BY <1>1, <1>2, VectorPlaces
  <1>6. Classes' = Classes
    BY <1>1, SameProgram
  <1>7. AllFit(out)'
    BY <1>4, <1>5, <1>6 DEF AllFit, Fits, TypeFits, AccessFits, ForwardFits
  <1>8. ForwardsFirst'
    <2>1. ASSUME NEW c \in Classes
          PROVE  \E j \in 1..Len(out') :
                    out'[j].name = c /\ \A l \in 1..j : out'[l].part = "forward"
      <3>1. PICK j \in 1..Len(out') : classNames[j] = c
        BY <1>4, <1>5
      <3>2. \A l \in 1..j : l \in 1..Len(out')
        <4>1. Len(out') \in Nat
          BY <1>3, <1>4
        <4>. QED BY <4>1
      <3>. QED BY <1>4, <3>1, <3>2
    <2>. QED BY <1>6, <2>1 DEF ForwardsFirst
  <1>9. DefinitionsWait'
    <2>1. deferredOutput' = <<>>
      BY <1>1 DEF Construct
    <2>. QED BY <2>1 DEF DefinitionsWait
  <1>. QED BY <1>7, <1>8, <1>9 DEF Written

\* The first walk starts; there is no file yet.
LEMMA FirstWalkStep ==
    ASSUME Inv, StartPass1
    PROVE  Written'
  <1>1. deferredOutput' = <<>> /\ phase = "start" /\ cppFile' = cppFile
    BY DEF StartPass1, Construct, files
  <1>2. ~InPass2'
    BY <1>1 DEF InPass2, Inv, Knowledge, PhasesAgree
  <1>3. DefinitionsWait'
    BY <1>1 DEF DefinitionsWait
  <1>. QED BY <1>2, <1>3 DEF Written

\* Closing the .cpp file does not unopen it.
LEMMA ClosingFile ==
    ASSUME TypeOK, cppFile' = [cppFile EXCEPT !.state = IF @ = "open" THEN "closed" ELSE @]
    PROVE  InPass2' = InPass2
  BY DEF TypeOK, CppFile, InPass2

-----------------------------------------------------------------------------
(* The invariant.                                                             *)

\* Together with what the walk knows: what it has written.
OutputInv == Inv /\ Written

\* Nothing is written before the parse.
LEMMA InitialOutput == Init => OutputInv
  <1>. SUFFICES ASSUME Init PROVE OutputInv
    OBVIOUS
  <1>1. Inv
    BY InitialInv
  <1>2. deferredOutput = <<>> /\ ~InPass2
    BY DEF Init, InPass2, NoFile
  <1>3. DefinitionsWait
    BY <1>2 DEF DefinitionsWait
  <1>. QED BY <1>1, <1>2, <1>3 DEF OutputInv, Written

\* Every step keeps the file right.
LEMMA NextOutput == OutputInv /\ [Next]_vars => OutputInv'
  <1>. SUFFICES ASSUME Inv, Written, [Next]_vars PROVE Inv' /\ Written'
    BY DEF OutputInv
  <1>1. SUFFICES Written'
    BY NextInv
  <1>2. CASE RefuseCommandLine \/ RefuseSourceFile \/ yyerror \/ RefuseCharLiteral \/ UNCHANGED vars
    BY <1>2, SilentStep
       DEF RefuseCommandLine, RefuseSourceFile, yyerror, Refuse, RefuseCharLiteral, vars,
           transformVars, input, tables, files, InPass2
  <1>3. CASE StartPass1
    BY <1>3, FirstWalkStep
  <1>4. CASE EndPass1 \/ EndPass2
    <2>1. writeEpilog /\ UNCHANGED <<input, next, tables, files>>
      BY <1>4 DEF EndPass1, EndPass2
    <2>2. /\ UNCHANGED <<program, next, deferredOutput>> /\ InPass2' = InPass2
          /\ next' \in Nat /\ next <= next'
      BY <2>1, WalkShape DEF input, files, tables, InPass2, Inv
    <2>3. DefinitionsWait'
      BY <2>2 DEF Written, DefinitionsWait
    <2>. QED BY <2>1, <2>2, <2>3, EpilogWrites, GrowthStep
  <1>5. CASE StartPass2
    BY <1>5, OpeningStep
  <1>6. CASE Visit /\ UNCHANGED files
    <2>1. InPass2' = InPass2
      BY <1>6 DEF files, InPass2
    <2>2. program' = program /\ next' \in Nat /\ next <= next'
      BY <1>6, VisitMoves, WalkShape DEF Inv
    <2>. QED BY <1>6, <2>1, <2>2, VisitWrites, VisitDefers, GrowthStep
  <1>7. CASE Fail /\ UNCHANGED files
    BY <1>7, SilentStep DEF Fail, input, tables, files, InPass2
  <1>8. CASE generateCMakeListsFile \/ ReportException
    <2>1. UNCHANGED <<program, next, out, deferredOutput>> /\ InPass2' = InPass2
      BY <1>8, ClosingFile DEF generateCMakeListsFile, ReportException, input, tables, Inv
    <2>. QED BY <2>1, SilentStep
  <1>. QED BY <1>2, <1>3, <1>4, <1>5, <1>6, <1>7, <1>8 DEF Next

-----------------------------------------------------------------------------
(* Theorems.                                                                  *)

\* At every moment of every run, whatever has been written is right.
THEOREM OutputInvariantHolds == Spec => []OutputInv
  BY InitialOutput, NextOutput, PTL DEF Spec

\* In the .cpp file of every program every class that is the type of a result,
\* parameter, field or variable is used through a pointer or a reference, wherever
\* it is declared, but for the results of ordinary functions; and only reference
\* types are used so.
THEOREM ReferencesResolvedHolds == Spec => []ReferencesResolved
  <1>1. OutputInv => ReferencesResolved
    BY DEF OutputInv, Written, AllFit, Fits, TypeFits, Resolves, ReferencesResolved, Typed, Parts
  <1>. QED BY <1>1, OutputInvariantHolds, PTL

\* In the .cpp file of every program the members of every enum are accessed with
\* ::, wherever the enum is declared, unless its name is an EXPRESS variable's.
THEOREM EnumsResolvedHolds == Spec => []EnumsResolved
  <1>1. OutputInv => EnumsResolved
    BY DEF OutputInv, Written, AllFit, Fits, AccessFits, EnumsResolved, Parts
  <1>. QED BY <1>1, OutputInvariantHolds, PTL

\* The .cpp file of every program declares each class before any use of it as a
\* type, as that of an array's elements too, and declares nothing else so.
THEOREM ForwardDeclaredHolds == Spec => []ForwardDeclared
  <1>1. OutputInv => ForwardDeclared
    <2>. SUFFICES ASSUME OutputInv, InPass2 PROVE ForwardDeclared
      BY DEF ForwardDeclared
    <2>1. AllFit(out) /\ ForwardsFirst /\ out \in Seq(Fragment)
      BY DEF OutputInv, Written, Inv, TypeOK
    <2>2. \A j \in Parts("forward") : out[j].name \in Classes
      BY <2>1 DEF AllFit, Fits, ForwardFits, Parts
    <2>3. ASSUME NEW i \in Typed \union Parts("array"), out[i].type \in Classes
          PROVE  \E j \in Parts("forward") : j < i /\ out[j].name = out[i].type
      <3>1. PICK j \in 1..Len(out) :
               out[j].name = out[i].type /\ \A l \in 1..j : out[l].part = "forward"
        BY <2>1, <2>3 DEF ForwardsFirst
      <3>2. i \in 1..Len(out) /\ out[i].part # "forward"
        BY DEF Typed, Parts
      <3>3. Len(out) \in Nat
        BY <2>1
      <3>4. j < i /\ out[j].part = "forward"
        BY <3>1, <3>2, <3>3
      <3>. QED BY <3>1, <3>4 DEF Parts
    <2>. QED BY <2>2, <2>3 DEF ForwardDeclared
  <1>. QED BY <1>1, OutputInvariantHolds, PTL

-----------------------------------------------------------------------------
(* The member operator.                                                       *)

\* A step that moves on to the next node is the visit of a node.
LEMMA MovingIsVisiting ==
    ASSUME Inv, Next, next \in 1..Len(program), next' = next + 1
    PROVE  Visit
  <1>1. next \in Nat /\ Len(program) \in Nat
    BY WalkShape, ProgramShape DEF Inv
  <1>2. next' # next
    BY <1>1
  <1>3. ~StartPass1
    <2>1. StartPass1 => next = 1 /\ next' = 1
      BY DEF StartPass1, Construct, Inv, Knowledge, PhasesAgree
    <2>. QED BY <1>2, <2>1
  <1>4. ~StartPass2
    <2>1. StartPass2 => next = Len(program) + 1
      BY DEF StartPass2, Inv, Knowledge, PhasesAgree
    <2>. QED BY <1>1, <2>1
  <1>5. /\ ~RefuseCommandLine /\ ~RefuseSourceFile /\ ~yyerror /\ ~RefuseCharLiteral
        /\ ~EndPass1 /\ ~EndPass2 /\ ~Fail /\ ~generateCMakeListsFile /\ ~ReportException
    BY <1>2 DEF RefuseCommandLine, RefuseSourceFile, yyerror, Refuse, RefuseCharLiteral,
                EndPass1, EndPass2, Fail, generateCMakeListsFile, ReportException
  <1>. QED BY <1>3, <1>4, <1>5 DEF Next

\* The visit of an access is VisitMemberAccess.
LEMMA VisitOfAccess ==
    ASSUME Visit, Visited.node = "MemberAccess"
    PROVE  VisitMemberAccess
  BY DEF Visit, Visiting, Visited, VisitModuleStatement, VisitSchemaImport, VisitLibraryImport,
         VisitEnumerationDeclaration, VisitInterfaceDeclaration, VisitInterfaceMethod,
         VisitClassDeclaration, EndClassDeclaration, VisitClassVariable, VisitClassArray,
         VisitMethodDeclaration, VisitCtorDeclaration, VisitFunctionDeclaration, EndBody,
         VisitVariableDeclaration, VisitArrayDeclaration, VisitNestedAccess, VisitArrayAccess,
         VisitNewExpression

\* Every plain access is written with ->m_ exactly when the walk has passed a
\* declaration that gives the name an EXPRESS type, for every program.
THEOREM ExpressAccessHolds == Spec => ExpressAccess
  <1>1. Inv /\ [Next]_vars => [ExpressAccessStep]_vars
    <2>. SUFFICES ASSUME Inv, Next, next \in 1..Len(program), next' = next + 1,
                         Visited.node = "MemberAccess", ~Visited.isMethodCall
                  PROVE  out'[Len(out')].as = "->m_" <=> DeclaredExpressBefore(next, Visited.id)
      BY DEF ExpressAccessStep, Visited
    <2>1. VisitMemberAccess
      BY MovingIsVisiting, VisitOfAccess
    <2>. DEFINE how == AccessOperator(Visited.id, Visited.isMethodCall)
                f == fragment("access", Visited.id,
                              IF Visited.isMethodCall THEN "call" ELSE "member", how)
    <2>2. out' = out \o <<f>>
      BY <2>1 DEF VisitMemberAccess, Emit
    <2>3. f.as = how
      BY DEF fragment
    <2>4. how = "->m_" <=> isExpressType(symbolTable, Visited.id)
      BY DEF AccessOperator
    <2>5. out'[Len(out')] = f
      <3>. HIDE DEF f
      <3>1. out \in Seq(Fragment) /\ Len(out) \in Nat
        BY WalkShape DEF Inv
      <3>2. Len(out \o <<f>>) = Len(out) + 1 /\ (out \o <<f>>)[Len(out) + 1] = f
        BY <3>1
      <3>. QED BY <2>2, <3>2
    <2>. HIDE DEF f
    <2>. QED BY <2>3, <2>4, <2>5, ExpressKnown
  <1>. QED BY <1>1, InvariantHolds, PTL DEF Spec, ExpressAccess

-----------------------------------------------------------------------------
(* Refinement.                                                                *)

\* What is appended to has what there was for a prefix.
LEMMA PrefixOfJoined ==
    ASSUME NEW S, NEW s \in Seq(S), NEW t \in Seq(S)
    PROVE  Translated!IsPrefix(s, s \o t)
  <1>1. Len(s) \in Nat /\ Len(t) \in Nat /\ Len(s \o t) = Len(s) + Len(t)
    OBVIOUS
  <1>2. SubSeq(s \o t, 1, Len(s)) = s
    <2>1. /\ Len(SubSeq(s \o t, 1, Len(s))) = Len(s)
          /\ \A i \in 1..Len(s) : SubSeq(s \o t, 1, Len(s))[i] = s[i]
      BY <1>1
    <2>2. SubSeq(s \o t, 1, Len(s)) \in Seq(S)
      BY <1>1
    <2>. QED BY <2>1, <2>2
  <1>3. SubSeq(s, 1, Len(s)) = s
    OBVIOUS
  <1>. QED BY <1>1, <1>2, <1>3 DEF Translated!IsPrefix

\* A step of the second walk writes, or changes nothing the build can see.
LEMMA WalkWrites ==
    ASSUME Inv, Written, Writes, InPass2, InPass2', phase # "exited", phase' # "exited"
    PROVE  [Translated!Next]_(Translated!tvars)
  <1>1. PICK f : f \in Seq(Fragment) /\ out' = out \o f
    BY DEF Writes, Good, Emit
  <1>2. Translated!IsPrefix(out, out')
    BY <1>1, WalkShape, PrefixOfJoined DEF Inv
  <1>3. CASE out' = out
    BY <1>3 DEF Translated!tvars
  <1>4. CASE out' # out
    BY <1>2, <1>4 DEF Translated!Next, Translated!Write
  <1>. QED BY <1>3, <1>4

\* A step without a file before and after it, that does not end the judgement.
LEMMA JudgingStep ==
    ASSUME ~InPass2, ~InPass2',
           phase' \in Terminal \union {"caught"} <=> phase \in Terminal \union {"caught"}
    PROVE  [Translated!Next]_(Translated!tvars)
  BY DEF Translated!tvars

\* A step that ends the judgement without a file: the program is rejected.
LEMMA RejectingStep ==
    ASSUME ~InPass2, ~InPass2', phase \notin Terminal \union {"caught"},
           phase' \in Terminal \union {"caught"}
    PROVE  [Translated!Next]_(Translated!tvars)
  BY DEF Translated!Next, Translated!Reject

\* Every step of a run is a step of a translation, or none.
LEMMA StepRefines == OutputInv /\ [Next]_vars => [Translated!Next]_(Translated!tvars)
  <1>. SUFFICES ASSUME Inv, Written, [Next]_vars
                PROVE  [Translated!Next]_(Translated!tvars)
    BY DEF OutputInv
  <1>1. CASE RefuseCommandLine \/ RefuseSourceFile \/ yyerror \/ RefuseCharLiteral
    <2>1. phase = "start" /\ phase' \in Terminal /\ cppFile' = cppFile
      BY <1>1 DEF RefuseCommandLine, RefuseSourceFile, yyerror, Refuse, RefuseCharLiteral,
                  Terminal, files
    <2>2. ~InPass2 /\ ~InPass2'
      BY <2>1 DEF InPass2, Inv, Knowledge, PhasesAgree
    <2>. QED BY <2>1, <2>2, RejectingStep DEF Terminal
  <1>2. CASE StartPass1 \/ EndPass1
    <2>1. /\ phase \in {"start", "pass1"} /\ phase' \in {"pass1", "pass1 done"}
          /\ cppFile' = cppFile
      BY <1>2 DEF StartPass1, EndPass1, files
    <2>2. ~InPass2 /\ ~InPass2'
      BY <2>1 DEF InPass2, Inv, Knowledge, PhasesAgree
    <2>. QED BY <2>1, <2>2, JudgingStep DEF Terminal
  <1>3. CASE StartPass2
    <2>1. phase = "pass1 done" /\ phase' = "pass2"
      BY <1>3 DEF StartPass2
    <2>2. ~InPass2 /\ InPass2'
      BY <2>1, <1>3, NextInv DEF Inv, Knowledge, PhasesAgree
    <2>. QED BY <2>1, <2>2 DEF Translated!Next, Translated!Accept, Terminal
  <1>4. CASE EndPass2
    <2>1. writeEpilog /\ phase = "pass2" /\ phase' = "pass2 done" /\ cppFile' = cppFile
      BY <1>4 DEF EndPass2, files
    <2>2. InPass2 /\ InPass2'
      BY <2>1 DEF InPass2, Inv, Knowledge, PhasesAgree
    <2>. QED BY <2>1, <2>2, EpilogWrites, WalkWrites
  <1>5. CASE Visit /\ UNCHANGED files
    <2>1. phase \in {"pass1", "pass2"} /\ phase' = phase /\ InPass2' = InPass2
      BY <1>5, VisitMoves DEF files, InPass2
    <2>2. CASE InPass2
      BY <1>5, <2>1, <2>2, VisitWrites, WalkWrites
    <2>3. CASE ~InPass2
      BY <2>1, <2>3, JudgingStep
    <2>. QED BY <2>2, <2>3
  <1>6. CASE Fail /\ UNCHANGED files
    <2>1. phase \in {"pass1", "pass2"} /\ phase' \in {"aborted", "caught"} /\ cppFile' = cppFile
      BY <1>6 DEF Fail, files
    <2>2. ~InPass2'
      <3>1. NoTornOutput'
        BY NextInv DEF Inv, Knowledge
      <3>. QED BY <2>1, <3>1 DEF NoTornOutput
    <2>3. ~InPass2
      BY <2>1, <2>2 DEF InPass2
    <2>. QED BY <2>1, <2>2, <2>3, RejectingStep DEF Terminal
  <1>7. CASE generateCMakeListsFile
    <2>1. phase = "pass2 done" /\ phase' = "exited" /\ out' = out /\ InPass2' = InPass2
      BY <1>7, ClosingFile DEF generateCMakeListsFile, Inv
    <2>2. InPass2
      BY <2>1 DEF Inv, Knowledge, PhasesAgree
    <2>. QED BY <2>1, <2>2 DEF Translated!Next, Translated!Complete
  <1>8. CASE ReportException
    <2>1. phase = "caught" /\ phase' = "exited" /\ InPass2' = InPass2
      BY <1>8, ClosingFile DEF ReportException, Inv
    <2>2. ~InPass2
      BY <2>1 DEF Inv, Knowledge, NoTornOutput
    <2>. QED BY <2>1, <2>2, JudgingStep DEF Terminal
  <1>9. CASE UNCHANGED vars
    BY <1>9 DEF vars, transformVars, files, InPass2, Translated!tvars
  <1>. QED BY <1>1, <1>2, <1>3, <1>4, <1>5, <1>6, <1>7, <1>8, <1>9 DEF Next

\* A run starts as a translation starts.
LEMMA InitRefines == Init => Translated!Init
  <1>. SUFFICES ASSUME Init PROVE Translated!Init
    OBVIOUS
  <1>1. ~InPass2 /\ phase = "start"
    BY DEF Init, InPass2, NoFile
  <1>. QED BY <1>1 DEF Translated!Init, Terminal

\* The two walks, the checks in them and the order in which main() runs them
\* implement, for every set of programs, a translation that is judged before it
\* is begun and whose text only grows until it is complete.
THEOREM TranslationImplemented == Spec => Translated!Safety
  BY InitRefines, StepRefines, OutputInvariantHolds, PTL DEF Spec, Translated!Safety

-----------------------------------------------------------------------------
(* What a walk knows of the project when it has visited n nodes.              *)

\* The imports among the first n nodes that run oipExpress.
SchemaImportsIn(n) ==
    {i \in Nodes("ImportStatement", n) : sourceDirectory /\ program[i].name \in ExpressSchemas}

\* name is that of the last of the nodes in S, or the default if there is none.
NameOfLast(name, S, default) ==
    \/ S = {} /\ name = default
    \/ \E i \in S : (\A j \in S : j <= i) /\ name = program[i].name

FoundMain(n) == \E i \in Nodes("FunctionDeclaration", n) : program[i].id = "main"
UsesMath(n) == \E i \in Nodes("ImportStatement", n) :
                  program[i].name = "Math" /\ "Math" \notin ExpressSchemas

\* The flags and the module of the walk are those of the nodes visited.
FlagsArePrefixes ==
    /\ NameOfLast(moduleName, Nodes("ModuleStatement", next - 1), "main")
    /\ bFoundMainFunction <=> FoundMain(next - 1)
    /\ bUseIfcPLMath <=> UsesMath(next - 1)

\* The schema survives from pass 1, until pass 2 has met one.
SchemasInForce ==
    IF InPass2 /\ SchemaImportsIn(next - 1) = {} THEN SchemaImports
    ELSE SchemaImportsIn(next - 1)

\* oipExpress has run for the nodes of this walk and for those of the walk before.
SchemasCounted ==
    /\ NameOfLast(g_schemaName, SchemasInForce, "")
    /\ Len(oipExpressRuns) = Cardinality(SchemaImportsIn(next - 1))
                             + (IF InPass2 THEN Cardinality(SchemaImports) ELSE 0)
    /\ g_schemaName # "" => g_schemaName \in Range(oipExpressRuns)

\* The .cpp file has the name of the program's last module statement; and when
\* CMakeLists.txt is written the run is over.
FilesAgree ==
    /\ InPass2 => NameOfLast(cppFile.name, Nodes("ModuleStatement", Len(program)), "main")
    /\ cmakeLists.state = "written" =>
          phase = "exited" /\ Len(oipExpressRuns) = 2 * Cardinality(SchemaImports)
    /\ ProjectMatchesProgram

Project == FlagsArePrefixes /\ SchemasCounted /\ FilesAgree

-----------------------------------------------------------------------------
(* Prefixes of the program.                                                   *)

\* One node more of a kind, or not.
LEMMA NodesStep ==
    ASSUME NEW n \in Nat, NEW kind
    PROVE  Nodes(kind, n + 1) = Nodes(kind, n) \union
              (IF program[n + 1].node = kind THEN {n + 1} ELSE {})
  <1>1. 1..(n + 1) = 1..n \union {n + 1}
    OBVIOUS
  <1>. QED BY <1>1 DEF Nodes

\* No node, no node of a kind.
LEMMA NodesEmpty == \A kind : Nodes(kind, 0) = {}
  <1>1. 1..0 = {}
    OBVIOUS
  <1>. QED BY <1>1 DEF Nodes

\* One import more, or not.
LEMMA SchemaImportsStep ==
    ASSUME NEW n \in Nat
    PROVE  SchemaImportsIn(n + 1) = SchemaImportsIn(n) \union
              (IF /\ program[n + 1].node = "ImportStatement"
                  /\ program[n + 1].name \in ExpressSchemas /\ sourceDirectory
               THEN {n + 1} ELSE {})
  BY NodesStep DEF SchemaImportsIn

\* The facts of a prefix are those of the program and of how it was named.
LEMMA SamePrefixes ==
    ASSUME program' = program, sourceDirectory' = sourceDirectory
    PROVE  /\ \A kind, n : Nodes(kind, n)' = Nodes(kind, n)
           /\ \A n : SchemaImportsIn(n)' = SchemaImportsIn(n)
           /\ SchemaImports' = SchemaImports /\ SchemaOfProgram' = SchemaOfProgram
           /\ \A n : FoundMain(n)' = FoundMain(n) /\ UsesMath(n)' = UsesMath(n)
           /\ \A name, S, default : NameOfLast(name, S, default)' = NameOfLast(name, S, default)
  <1>1. \A kind, n : Nodes(kind, n)' = Nodes(kind, n)
    BY DEF Nodes
  <1>2. \A n : SchemaImportsIn(n)' = SchemaImportsIn(n)
    BY <1>1 DEF SchemaImportsIn
  <1>3. SchemaImports' = SchemaImports
    BY <1>1 DEF SchemaImports
  <1>4. SchemaOfProgram' = SchemaOfProgram
    BY <1>3 DEF SchemaOfProgram
  <1>5. \A n : FoundMain(n)' = FoundMain(n) /\ UsesMath(n)' = UsesMath(n)
    BY <1>1 DEF FoundMain, UsesMath
  <1>6. \A name, S, default : NameOfLast(name, S, default)' = NameOfLast(name, S, default)
    BY DEF NameOfLast
  <1>. QED BY <1>1, <1>2, <1>3, <1>4, <1>5, <1>6

\* The node behind all nodes of a set is the last one of the set and itself.
LEMMA LastIsAdded ==
    ASSUME NEW n \in Nat, NEW S \in SUBSET (1..n), NEW name, NEW default,
           name = program[n + 1].name
    PROVE  NameOfLast(name, S \union {n + 1}, default)
  <1>1. \A j \in S \union {n + 1} : j <= n + 1
    OBVIOUS
  <1>. QED BY <1>1 DEF NameOfLast

\* There is one last node.
LEMMA LastIsUnique ==
    ASSUME NEW S \in SUBSET Nat, NEW a, NEW b, NEW default,
           NameOfLast(a, S, default), NameOfLast(b, S, default)
    PROVE  a = b
  <1>1. \A i, j \in S : i <= j /\ j <= i => i = j
    OBVIOUS
  <1>. QED BY <1>1 DEF NameOfLast

\* The imports of a prefix are finitely many, and one more counts for one.
LEMMA CountingImports ==
    ASSUME NEW n \in Nat
    PROVE  /\ IsFiniteSet(SchemaImportsIn(n)) /\ Cardinality(SchemaImportsIn(n)) \in Nat
           /\ n + 1 \notin SchemaImportsIn(n)
           /\ Cardinality(SchemaImportsIn(n) \union {n + 1}) = Cardinality(SchemaImportsIn(n)) + 1
  <1>1. SchemaImportsIn(n) \subseteq 1..n
    BY DEF SchemaImportsIn, Nodes
  <1>2. IsFiniteSet(1..n)
    BY FS_Interval
  <1>3. IsFiniteSet(SchemaImportsIn(n))
    BY <1>1, <1>2, FS_Subset
  <1>4. n + 1 \notin SchemaImportsIn(n)
    BY <1>1
  <1>. QED BY <1>3, <1>4, FS_AddElement, FS_CardinalityType

-----------------------------------------------------------------------------
(* What a visit does to the project.                                          *)

\* Only the visits of module, import and function nodes touch the project.
LEMMA VisitEffects ==
    ASSUME Visit
    PROVE  /\ moduleName' = IF Visited.node = "ModuleStatement" THEN Visited.name ELSE moduleName
           /\ bFoundMainFunction' = IF Visited.node = "FunctionDeclaration"
                                    THEN bFoundMainFunction \/ Visited.id = "main"
                                    ELSE bFoundMainFunction
           /\ bUseIfcPLMath' = IF /\ Visited.node = "ImportStatement"
                                  /\ Visited.name \notin ExpressSchemas
                               THEN bUseIfcPLMath \/ Visited.name = "Math" ELSE bUseIfcPLMath
           /\ IF /\ Visited.node = "ImportStatement"
                 /\ Visited.name \in ExpressSchemas /\ sourceDirectory
              THEN /\ g_schemaName' = Visited.name
                   /\ oipExpressRuns' = Append(oipExpressRuns, Visited.name)
              ELSE UNCHANGED globals
  <1>1. CASE VisitModuleStatement
    BY <1>1 DEF VisitModuleStatement, Visiting, Visited, flags, globals
  <1>2. CASE VisitSchemaImport
    BY <1>2 DEF VisitSchemaImport, RunOipExpress, Visiting, Visited, flags, globals
  <1>3. CASE VisitLibraryImport
    BY <1>3 DEF VisitLibraryImport, Visiting, Visited, flags, globals
  <1>4. CASE VisitFunctionDeclaration
    BY <1>4 DEF VisitFunctionDeclaration, Visiting, Visited, flags, globals
  <1>5. CASE ~VisitModuleStatement /\ ~VisitSchemaImport /\ ~VisitLibraryImport
             /\ ~VisitFunctionDeclaration
    <2>1. Visited.node \notin {"ModuleStatement", "ImportStatement", "FunctionDeclaration"}
      BY <1>5 DEF Visit, Visiting, Visited, VisitEnumerationDeclaration,
           VisitInterfaceDeclaration, VisitInterfaceMethod, VisitClassDeclaration,
           EndClassDeclaration, VisitClassVariable, VisitClassArray, VisitMethodDeclaration,
           VisitCtorDeclaration, EndBody, VisitVariableDeclaration, VisitArrayDeclaration,
           VisitMemberAccess, VisitNestedAccess, VisitArrayAccess, VisitNewExpression
    <2>2. UNCHANGED <<moduleName, flags, globals>>
      BY <1>5 DEF Visit, VisitEnumerationDeclaration,
           VisitInterfaceDeclaration, VisitInterfaceMethod, VisitClassDeclaration,
           EndClassDeclaration, VisitClassVariable, VisitClassArray, VisitMethodDeclaration,
           VisitCtorDeclaration, EndBody, VisitVariableDeclaration, VisitArrayDeclaration,
           VisitMemberAccess, VisitNestedAccess, VisitArrayAccess, VisitNewExpression
    <2>. QED BY <2>1, <2>2 DEF flags, globals
  <1>. QED BY <1>1, <1>2, <1>3, <1>4, <1>5

-----------------------------------------------------------------------------
(* The project, step by step.                                                 *)

\* What a visit finds: the next node is that behind the prefix of length n.
LEMMA VisitPrefix ==
    ASSUME Inv, Visit
    PROVE  /\ next - 1 \in Nat /\ next = (next - 1) + 1 /\ next' - 1 = (next - 1) + 1
           /\ Visited = program[(next - 1) + 1]
           /\ UNCHANGED <<program, sourceDirectory, phase>>
  <1>1. next \in Nat /\ next >= 1
    BY WalkShape DEF Inv
  <1>2. next - 1 \in Nat /\ next = (next - 1) + 1
    BY <1>1
  <1>3. next' = next + 1
    BY VisitMoves
  <1>4. UNCHANGED <<program, sourceDirectory, phase>>
    <2>1. \E kind : Visiting(kind)
      BY DEF Visit, VisitModuleStatement, VisitSchemaImport, VisitLibraryImport,
           VisitEnumerationDeclaration, VisitInterfaceDeclaration, VisitInterfaceMethod,
           VisitClassDeclaration, EndClassDeclaration, VisitClassVariable, VisitClassArray,
           VisitMethodDeclaration, VisitCtorDeclaration, VisitFunctionDeclaration, EndBody,
           VisitVariableDeclaration, VisitArrayDeclaration, VisitMemberAccess,
           VisitNestedAccess, VisitArrayAccess, VisitNewExpression
    <2>. QED BY <2>1 DEF Visiting, input
  <1>. QED BY <1>1, <1>2, <1>3, <1>4 DEF Visited

\* A visit keeps the flags those of the nodes visited.
LEMMA FlagsVisit ==
    ASSUME Inv, FlagsArePrefixes, Visit
    PROVE  FlagsArePrefixes'
  <1>. DEFINE n == next - 1
  <1>1. /\ n \in Nat /\ next' - 1 = n + 1 /\ Visited = program[n + 1]
        /\ program' = program /\ sourceDirectory' = sourceDirectory
    BY VisitPrefix
  <1>2. NameOfLast(moduleName, Nodes("ModuleStatement", n), "main")
        /\ (bFoundMainFunction <=> FoundMain(n)) /\ (bUseIfcPLMath <=> UsesMath(n))
    BY DEF FlagsArePrefixes
  <1>. HIDE DEF n
  <1>3. Nodes("ModuleStatement", n) \in SUBSET (1..n)
    BY DEF Nodes
  <1>4. NameOfLast(moduleName', Nodes("ModuleStatement", n + 1), "main")
    <2>1. CASE Visited.node = "ModuleStatement"
      <3>1. moduleName' = program[n + 1].name
        BY <1>1, <2>1, VisitEffects
      <3>2. Nodes("ModuleStatement", n + 1) = Nodes("ModuleStatement", n) \union {n + 1}
        BY <1>1, <2>1, NodesStep
      <3>. QED BY <1>1, <1>3, <3>1, <3>2, LastIsAdded
    <2>2. CASE Visited.node # "ModuleStatement"
      <3>1. moduleName' = moduleName
        BY <2>2, VisitEffects
      <3>2. Nodes("ModuleStatement", n + 1) = Nodes("ModuleStatement", n)
        BY <1>1, <2>2, NodesStep
      <3>. QED BY <1>2, <3>1, <3>2
    <2>. QED BY <2>1, <2>2
  <1>5. bFoundMainFunction' <=> FoundMain(n + 1)
    <2>1. FoundMain(n + 1) <=> FoundMain(n) \/ (Visited.node = "FunctionDeclaration"
                                                /\ Visited.id = "main")
      BY <1>1, NodesStep DEF FoundMain
    <2>. QED BY <1>2, <2>1, VisitEffects
  <1>6. bUseIfcPLMath' <=> UsesMath(n + 1)
    <2>1. UsesMath(n + 1) <=> UsesMath(n) \/ (Visited.node = "ImportStatement"
                                              /\ Visited.name = "Math" /\ "Math" \notin ExpressSchemas)
      BY <1>1, NodesStep DEF UsesMath
    <2>. QED BY <1>2, <2>1, VisitEffects
  <1>. QED BY <1>1, <1>4, <1>5, <1>6, SamePrefixes DEF FlagsArePrefixes

\* What a vector of names holds after push_back.
LEMMA RunAdded ==
    ASSUME NEW s \in Seq(Name), NEW e \in Name
    PROVE  Len(Append(s, e)) = Len(s) + 1 /\ e \in Range(Append(s, e))
  BY RangeAppend

\* A visit keeps the schema, and the count of the runs of oipExpress.
LEMMA SchemasVisit ==
    ASSUME Inv, SchemasCounted, Visit, InPass2' = InPass2
    PROVE  SchemasCounted'
  <1>. DEFINE n == next - 1
              before == IF InPass2 THEN Cardinality(SchemaImports) ELSE 0
              adds == /\ Visited.node = "ImportStatement"
                      /\ Visited.name \in ExpressSchemas /\ sourceDirectory
  <1>1. /\ n \in Nat /\ next' - 1 = n + 1 /\ Visited = program[n + 1]
        /\ program' = program /\ sourceDirectory' = sourceDirectory
    BY VisitPrefix
  <1>2. /\ NameOfLast(g_schemaName, IF InPass2 /\ SchemaImportsIn(n) = {} THEN SchemaImports
                                    ELSE SchemaImportsIn(n), "")
        /\ Len(oipExpressRuns) = Cardinality(SchemaImportsIn(n)) + before
        /\ g_schemaName # "" => g_schemaName \in Range(oipExpressRuns)
    BY DEF SchemasCounted, SchemasInForce
  <1>3. before \in Nat
    <2>1. Len(program) \in Nat /\ SchemaImports = SchemaImportsIn(Len(program))
      BY ProgramShape DEF Inv, SchemaImports, SchemaImportsIn
    <2>. QED BY <2>1, CountingImports
  <1>4. SchemaImportsIn(n + 1) = SchemaImportsIn(n) \union (IF adds THEN {n + 1} ELSE {})
    BY <1>1, SchemaImportsStep
  <1>5. SchemaImportsIn(n) \in SUBSET (1..n)
    BY DEF SchemaImportsIn, Nodes
  <1>6. IF adds THEN /\ g_schemaName' = Visited.name
                     /\ oipExpressRuns' = Append(oipExpressRuns, Visited.name)
        ELSE UNCHANGED <<g_schemaName, oipExpressRuns>>
    BY VisitEffects DEF globals
  <1>7. adds => Visited.name \in Name
    <2>1. next \in 1..Len(program)
      BY VisitMoves
    <2>2. Visited \in Node
      BY <2>1, ProgramShape DEF Inv, Visited
    <2>. QED BY <2>2, NodeShapes DEF ImportStatement
  <1>8. oipExpressRuns \in Seq(Name)
    BY DEF Inv, TypeOK
  <1>. HIDE DEF n, before, adds
  <1>9. /\ NameOfLast(g_schemaName', IF InPass2 /\ SchemaImportsIn(n + 1) = {} THEN SchemaImports
                                     ELSE SchemaImportsIn(n + 1), "")
        /\ Len(oipExpressRuns') = Cardinality(SchemaImportsIn(n + 1)) + before
        /\ g_schemaName' # "" => g_schemaName' \in Range(oipExpressRuns')
    <2>1. CASE ~adds
      BY <1>2, <1>4, <1>6, <2>1
    <2>2. CASE adds
      <3>1. g_schemaName' = program[n + 1].name /\ Visited.name \in Name
            /\ oipExpressRuns' = Append(oipExpressRuns, Visited.name)
        BY <1>1, <1>6, <1>7, <2>2
      <3>2. SchemaImportsIn(n + 1) = SchemaImportsIn(n) \union {n + 1}
        BY <1>4, <2>2
      <3>3. NameOfLast(g_schemaName', SchemaImportsIn(n + 1), "")
        BY <1>1, <1>5, <3>1, <3>2, LastIsAdded
      <3>4. SchemaImportsIn(n + 1) # {}
        BY <3>2
      <3>5. /\ Len(oipExpressRuns') = Len(oipExpressRuns) + 1
            /\ Visited.name \in Range(oipExpressRuns')
        BY <1>8, <3>1, RunAdded
      <3>6. /\ Cardinality(SchemaImportsIn(n + 1)) = Cardinality(SchemaImportsIn(n)) + 1
            /\ Cardinality(SchemaImportsIn(n)) \in Nat
        BY <1>1, <3>2, CountingImports
      <3>7. Len(oipExpressRuns') = Cardinality(SchemaImportsIn(n + 1)) + before
        <4>1. Len(oipExpressRuns) = Cardinality(SchemaImportsIn(n)) + before
          BY <1>2
        <4>2. \A a, b \in Nat : (a + b) + 1 = (a + 1) + b
          OBVIOUS
        <4>. QED BY <1>3, <3>5, <3>6, <4>1, <4>2
      <3>. QED BY <1>1, <3>1, <3>3, <3>4, <3>5, <3>7
    <2>. QED BY <2>1, <2>2
  <1>. QED BY <1>1, <1>9, SamePrefixes DEF SchemasCounted, SchemasInForce, before

\* A step that stays at its node and opens no file keeps the project, as long as
\* CMakeLists.txt has not been written.
LEMMA ProjectStays ==
    ASSUME Inv, Project, UNCHANGED <<input, next, moduleName, flags, globals, cmakeLists>>,
           cppFile'.name = cppFile.name, InPass2' = InPass2, phase # "exited"
    PROVE  Project'
  <1>1. /\ UNCHANGED <<program, sourceDirectory, next, moduleName, bFoundMainFunction,
                       bUseIfcPLMath, g_schemaName, oipExpressRuns, cmakeLists>>
    BY DEF input, flags, globals
  <1>2. FlagsArePrefixes'
    BY <1>1, SamePrefixes DEF Project, FlagsArePrefixes
  <1>3. SchemasCounted'
    BY <1>1, SamePrefixes DEF Project, SchemasCounted, SchemasInForce
  <1>4. FilesAgree'
    <2>1. cmakeLists'.state # "written"
      BY <1>1 DEF Project, FilesAgree
    <2>. QED BY <1>1, <2>1, SamePrefixes DEF Project, FilesAgree, ProjectMatchesProgram
  <1>. QED BY <1>2, <1>3, <1>4 DEF Project

\* Nothing happens.
LEMMA ProjectStutters ==
    ASSUME Inv, Project, UNCHANGED vars
    PROVE  Project'
  <1>1. /\ UNCHANGED <<program, sourceDirectory, next, moduleName, bFoundMainFunction,
                       bUseIfcPLMath, g_schemaName, oipExpressRuns, cmakeLists, cppFile, phase>>
    BY DEF vars, transformVars, files, input, flags, globals
  <1>2. InPass2' = InPass2
    BY <1>1 DEF InPass2
  <1>3. FlagsArePrefixes'
    BY <1>1, SamePrefixes DEF Project, FlagsArePrefixes
  <1>4. SchemasCounted'
    BY <1>1, <1>2, SamePrefixes DEF Project, SchemasCounted, SchemasInForce
  <1>5. FilesAgree'
    <2>1. ProjectMatchesProgram'
      BY <1>1, SamePrefixes DEF Project, FilesAgree, ProjectMatchesProgram
    <2>. QED BY <1>1, <1>2, <2>1, SamePrefixes DEF Project, FilesAgree
  <1>. QED BY <1>3, <1>4, <1>5 DEF Project

\* A visit keeps the project.
LEMMA ProjectVisit ==
    ASSUME Inv, Project, Visit, UNCHANGED files
    PROVE  Project'
  <1>1. UNCHANGED <<cppFile, cmakeLists>> /\ InPass2' = InPass2
    BY DEF files, InPass2
  <1>2. FlagsArePrefixes' /\ SchemasCounted'
    BY <1>1, FlagsVisit, SchemasVisit DEF Project
  <1>3. FilesAgree'
    <2>1. phase \in {"pass1", "pass2"} /\ UNCHANGED <<program, sourceDirectory>>
      BY VisitMoves, VisitPrefix
    <2>2. cmakeLists'.state # "written"
      BY <1>1, <2>1 DEF Project, FilesAgree
    <2>. QED BY <1>1, <2>1, <2>2, SamePrefixes DEF Project, FilesAgree, ProjectMatchesProgram
  <1>. QED BY <1>2, <1>3 DEF Project

\* A fresh walk knows nothing of the project.
LEMMA FreshFlags ==
    ASSUME NEW classes, NEW enums, Construct(classes, enums)
    PROVE  FlagsArePrefixes'
  <1>1. /\ next' - 1 = 0 /\ moduleName' = "main"
        /\ ~bFoundMainFunction' /\ ~bUseIfcPLMath'
    BY DEF Construct
  <1>2. \A kind : Nodes(kind, 0)' = {}
    <2>1. 1..0 = {}
      OBVIOUS
    <2>. QED BY <2>1 DEF Nodes
  <1>3. NameOfLast(moduleName, Nodes("ModuleStatement", next - 1), "main")'
    BY <1>1, <1>2 DEF NameOfLast
  <1>. QED BY <1>1, <1>2, <1>3 DEF FlagsArePrefixes, FoundMain, UsesMath

\* No import among no nodes.
LEMMA NoImports == SchemaImportsIn(0) = {} /\ Cardinality(SchemaImportsIn(0)) = 0
  <1>1. SchemaImportsIn(0) = {}
    BY NodesEmpty DEF SchemaImportsIn
  <1>. QED BY <1>1, FS_EmptySet

\* All imports are those among all nodes.
LEMMA AllImports == SchemaImports = SchemaImportsIn(Len(program))
  BY DEF SchemaImports, SchemaImportsIn

\* The first walk starts from nothing.
LEMMA ProjectPass1 ==
    ASSUME Inv, Project, StartPass1
    PROVE  Project'
  <1>1. /\ phase = "start" /\ next = 1 /\ ~InPass2 /\ Construct(<<>>, <<>>)
        /\ UNCHANGED <<program, sourceDirectory, g_schemaName, oipExpressRuns, cppFile,
                       cmakeLists>>
    BY DEF StartPass1, input, globals, files, Inv, Knowledge, PhasesAgree
  <1>2. next' = next /\ InPass2' = InPass2
    BY <1>1 DEF Construct, InPass2
  <1>3. FlagsArePrefixes'
    BY <1>1, FreshFlags
  <1>4. SchemasCounted'
    BY <1>1, <1>2, SamePrefixes DEF Project, SchemasCounted, SchemasInForce
  <1>5. FilesAgree'
    <2>1. cmakeLists'.state # "written"
      BY <1>1 DEF Project, FilesAgree
    <2>. QED BY <1>1, <1>2, <2>1 DEF FilesAgree, ProjectMatchesProgram
  <1>. QED BY <1>3, <1>4, <1>5 DEF Project

\* The second walk starts: the file is named, and the schemas of the first
\* walk stay in force.
LEMMA ProjectPass2 ==
    ASSUME Inv, Project, StartPass2
    PROVE  Project'
  <1>1. /\ phase = "pass1 done" /\ next = Len(program) + 1 /\ ~InPass2
        /\ Construct(classNames, enumNames) /\ cppFile'.name = moduleName
        /\ UNCHANGED <<program, sourceDirectory, g_schemaName, oipExpressRuns, cmakeLists>>
    <2>1. cppFile'.name = moduleName
      <3>1. \E state : cppFile' = [name |-> moduleName, state |-> state]
        BY DEF StartPass2
      <3>. QED BY <3>1
    <2>. QED BY <2>1 DEF StartPass2, input, globals, Inv, Knowledge, PhasesAgree
  <1>2. next' - 1 = 0 /\ next - 1 = Len(program)
    <2>1. Len(program) \in Nat
      BY ProgramShape DEF Inv
    <2>2. next' = 1
      BY <1>1 DEF Construct
    <2>3. next' - 1 = 0
      BY <2>2
    <2>4. next - 1 = Len(program)
      <3>1. next = Len(program) + 1
        BY <1>1
      <3>. QED BY <2>1, <3>1
    <2>. QED BY <2>3, <2>4
  <1>3. InPass2'
    BY NextInv DEF StartPass2, Next, Inv, Knowledge, PhasesAgree
  <1>4. FlagsArePrefixes'
    BY <1>1, FreshFlags
  <1>5. SchemasCounted'
    <2>1. /\ NameOfLast(g_schemaName, SchemaImports, "")
          /\ Len(oipExpressRuns) = Cardinality(SchemaImports) + 0
          /\ g_schemaName # "" => g_schemaName \in Range(oipExpressRuns)
      BY <1>1, <1>2, AllImports DEF Project, SchemasCounted, SchemasInForce
    <2>2. Cardinality(SchemaImports) \in Nat
      BY AllImports, CountingImports, ProgramShape DEF Inv
    <2>3. SchemaImportsIn(next' - 1) = {} /\ Cardinality(SchemaImportsIn(next' - 1)) = 0
      BY <1>2, NoImports
    <2>4. Len(oipExpressRuns) = Cardinality(SchemaImportsIn(next' - 1)) + Cardinality(SchemaImports)
      <3>1. \A c \in Nat : c + 0 = 0 + c
        OBVIOUS
      <3>. QED BY <2>1, <2>2, <2>3, <3>1
    <2>. QED BY <1>1, <1>3, <2>1, <2>3, <2>4, SamePrefixes DEF SchemasCounted, SchemasInForce
  <1>6. FilesAgree'
    <2>1. cmakeLists'.state # "written"
      BY <1>1 DEF Project, FilesAgree
    <2>2. NameOfLast(cppFile'.name, Nodes("ModuleStatement", Len(program)), "main")
      BY <1>1, <1>2 DEF Project, FlagsArePrefixes
    <2>. QED BY <1>1, <2>1, <2>2, SamePrefixes DEF FilesAgree, ProjectMatchesProgram
  <1>. QED BY <1>4, <1>5, <1>6 DEF Project

\* CMakeLists.txt is written from what pass 2 knows at its end.
LEMMA ProjectWritten ==
    ASSUME Inv, Project, generateCMakeListsFile
    PROVE  Project'
  <1>1. /\ phase = "pass2 done" /\ phase' = "exited" /\ next = Len(program) + 1 /\ InPass2
        /\ UNCHANGED <<program, sourceDirectory, next, moduleName, bFoundMainFunction,
                       bUseIfcPLMath, g_schemaName, oipExpressRuns>>
    BY DEF generateCMakeListsFile, input, flags, globals, Inv, Knowledge, PhasesAgree
  <1>2. next - 1 = Len(program) /\ Len(program) \in Nat
    <2>1. Len(program) \in Nat /\ next = Len(program) + 1
      BY <1>1, ProgramShape DEF Inv
    <2>. QED BY <2>1
  <1>3. cppFile'.name = cppFile.name /\ InPass2'
    BY <1>1, ClosingFile DEF generateCMakeListsFile, Inv, TypeOK, CppFile
  <1>4. FlagsArePrefixes'
    BY <1>1, SamePrefixes DEF Project, FlagsArePrefixes
  <1>5. SchemasCounted'
    BY <1>1, <1>3, SamePrefixes DEF Project, SchemasCounted, SchemasInForce
  <1>6. moduleName = cppFile.name
    <2>1. /\ NameOfLast(moduleName, Nodes("ModuleStatement", Len(program)), "main")
          /\ NameOfLast(cppFile.name, Nodes("ModuleStatement", Len(program)), "main")
      BY <1>1, <1>2 DEF Project, FlagsArePrefixes, FilesAgree
    <2>2. Nodes("ModuleStatement", Len(program)) \in SUBSET Nat
      BY <1>2 DEF Nodes
    <2>. QED BY <2>1, <2>2, LastIsUnique
  <1>7. g_schemaName = SchemaOfProgram
    <2>1. NameOfLast(g_schemaName, SchemaImports, "")
      BY <1>1, <1>2, AllImports DEF Project, SchemasCounted, SchemasInForce
    <2>2. CASE SchemaImports = {}
      BY <2>1, <2>2 DEF NameOfLast, SchemaOfProgram
    <2>3. CASE SchemaImports # {}
      <3>. DEFINE last == CHOOSE i \in SchemaImports : \A j \in SchemaImports : j <= i
      <3>1. PICK m \in SchemaImports :
               (\A j \in SchemaImports : j <= m) /\ g_schemaName = program[m].name
        BY <2>1, <2>3 DEF NameOfLast
      <3>2. last \in SchemaImports /\ \A j \in SchemaImports : j <= last
        BY <3>1
      <3>3. SchemaOfProgram = program[last].name
        BY <2>3 DEF SchemaOfProgram
      <3>. HIDE DEF last
      <3>4. last \in Nat /\ m \in Nat
        BY <1>2, <3>1, <3>2 DEF SchemaImports, Nodes
      <3>5. last <= m /\ m <= last
        BY <3>1, <3>2
      <3>6. last = m
        BY <3>4, <3>5
      <3>. QED BY <3>1, <3>3, <3>6
    <2>. QED BY <2>2, <2>3
  <1>8. Len(oipExpressRuns) = 2 * Cardinality(SchemaImports)
    <2>1. Len(oipExpressRuns) = Cardinality(SchemaImports) + Cardinality(SchemaImports)
      BY <1>1, <1>2, AllImports DEF Project, SchemasCounted
    <2>2. Cardinality(SchemaImports) \in Nat
      BY <1>2, AllImports, CountingImports
    <2>3. \A c \in Nat : c + c = 2 * c
      OBVIOUS
    <2>. QED BY <2>1, <2>2, <2>3
  <1>9. /\ bFoundMainFunction <=> FoundMain(Len(program))
        /\ bUseIfcPLMath <=> UsesMath(Len(program))
    BY <1>2 DEF Project, FlagsArePrefixes
  <1>10. ASSUME cmakeLists'.state = "written"
         PROVE  /\ cmakeLists'.project = moduleName /\ cmakeLists'.source = moduleName
                /\ cmakeLists'.target = "executable" <=> FoundMain(Len(program))
                /\ cmakeLists'.math <=> UsesMath(Len(program))
                /\ cmakeLists'.schema = SchemaOfProgram
    <2>1. cmakeLists' # LostCMakeLists
      BY <1>10 DEF LostCMakeLists
    <2>2. cmakeLists' = [state |-> "written", project |-> moduleName,
                         target |-> IF bFoundMainFunction THEN "executable" ELSE "library",
                         source |-> moduleName, math |-> bUseIfcPLMath, schema |-> g_schemaName]
      BY <2>1 DEF generateCMakeListsFile
    <2>3. /\ cmakeLists'.project = moduleName /\ cmakeLists'.source = moduleName
          /\ cmakeLists'.target = (IF bFoundMainFunction THEN "executable" ELSE "library")
          /\ cmakeLists'.math = bUseIfcPLMath /\ cmakeLists'.schema = g_schemaName
      BY <2>2
    <2>. QED BY <1>7, <1>9, <2>3
  <1>11. FilesAgree'
    <2>1. ProjectMatchesProgram'
      BY <1>1, <1>3, <1>6, <1>10, SamePrefixes DEF ProjectMatchesProgram, FoundMain, UsesMath
    <2>. QED BY <1>1, <1>3, <1>8, <2>1, SamePrefixes DEF Project, FilesAgree
  <1>. QED BY <1>4, <1>5, <1>11 DEF Project

\* Before the parse nothing is known of the project.
LEMMA InitialProject == Init => Project
  <1>. SUFFICES ASSUME Init PROVE Project
    OBVIOUS
  <1>1. /\ next - 1 = 0 /\ moduleName = "main" /\ ~bFoundMainFunction /\ ~bUseIfcPLMath
        /\ g_schemaName = "" /\ oipExpressRuns = <<>> /\ ~InPass2
        /\ cmakeLists.state = "unopened"
    <2>1. next = 1 /\ cppFile = NoFile /\ cmakeLists = NoCMakeLists
      BY DEF Init
    <2>2. next - 1 = 0
      BY <2>1
    <2>3. ~InPass2 /\ cmakeLists.state = "unopened"
      BY <2>1 DEF InPass2, NoFile, NoCMakeLists
    <2>. QED BY <2>2, <2>3 DEF Init
  <1>2. FlagsArePrefixes
    BY <1>1, NodesEmpty DEF FlagsArePrefixes, NameOfLast, FoundMain, UsesMath
  <1>3. SchemasCounted
    <2>1. Len(oipExpressRuns) = 0 + 0
      <3>1. Len(<<>>) = 0 + 0
        OBVIOUS
      <3>. QED BY <1>1, <3>1
    <2>. QED BY <1>1, <2>1, NoImports DEF SchemasCounted, SchemasInForce, NameOfLast
  <1>4. FilesAgree
    BY <1>1 DEF FilesAgree, ProjectMatchesProgram
  <1>. QED BY <1>2, <1>3, <1>4 DEF Project

\* Together with what the walk knows: what it knows of the project.
ProjectInv == Inv /\ Project

\* Every step keeps the project.
LEMMA NextProject == ProjectInv /\ [Next]_vars => ProjectInv'
  <1>. SUFFICES ASSUME Inv, Project, [Next]_vars PROVE Inv' /\ Project'
    BY DEF ProjectInv
  <1>1. SUFFICES Project'
    BY NextInv
  <1>2. CASE RefuseCommandLine \/ RefuseSourceFile \/ yyerror \/ RefuseCharLiteral
             \/ EndPass1 \/ EndPass2 \/ (Fail /\ UNCHANGED files)
    <2>1. /\ UNCHANGED <<input, next, moduleName, flags, globals, cmakeLists, cppFile>>
          /\ phase # "exited"
      BY <1>2 DEF RefuseCommandLine, RefuseSourceFile, yyerror, Refuse, RefuseCharLiteral,
                  EndPass1, EndPass2, Fail, files
    <2>. QED BY <2>1, ProjectStays DEF InPass2
  <1>3. CASE StartPass1
    BY <1>3, ProjectPass1
  <1>4. CASE StartPass2
    BY <1>4, ProjectPass2
  <1>5. CASE Visit /\ UNCHANGED files
    BY <1>5, ProjectVisit
  <1>6. CASE generateCMakeListsFile
    BY <1>6, ProjectWritten
  <1>7. CASE ReportException
    <2>1. /\ UNCHANGED <<input, next, moduleName, flags, globals, cmakeLists>>
          /\ phase # "exited" /\ InPass2' = InPass2
      BY <1>7, ClosingFile DEF ReportException, Inv
    <2>2. cppFile'.name = cppFile.name
      BY <1>7 DEF ReportException, Inv, TypeOK, CppFile
    <2>. QED BY <2>1, <2>2, ProjectStays
  <1>8. CASE UNCHANGED vars
    BY <1>8, ProjectStutters
  <1>. QED BY <1>2, <1>3, <1>4, <1>5, <1>6, <1>7, <1>8 DEF Next

\* At every moment of every run, what the walk knows of the project is that of
\* the nodes it has visited, and the schema that of either walk.
THEOREM ProjectInvariantHolds == Spec => []ProjectInv
  <1>1. Init => ProjectInv
    BY InitialInv, InitialProject DEF ProjectInv
  <1>. QED BY <1>1, NextProject, PTL DEF Spec

\* CMakeLists.txt of every program compiles the file named in pass 1 and asks
\* for what the program declares, wherever it declares it.
THEOREM ProjectMatchesProgramHolds == Spec => []ProjectMatchesProgram
  <1>1. ProjectInv => ProjectMatchesProgram
    BY DEF ProjectInv, Project, FilesAgree
  <1>. QED BY <1>1, ProjectInvariantHolds, PTL

\* oipExpress is run for a schema before CMakeLists.txt names it, and twice for
\* each import, in every program, whatever comes of it.
THEOREM SchemasRequestedHolds == Spec => []SchemasRequested
  <1>1. ProjectInv => SchemasRequested
    BY DEF ProjectInv, Project, FilesAgree, SchemasCounted, SchemasRequested
  <1>. QED BY <1>1, ProjectInvariantHolds, PTL
=============================================================================
