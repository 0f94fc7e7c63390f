------------------------ MODULE TranspilerProperties ------------------------
(* What the two walks guarantee about the files.  The properties speak of the *)
(* program as a whole and of its nodes, never of the tables of the walk: the  *)
(* tables are the means by which two partial walks are to make up for what    *)
(* one walk cannot know.                                                      *)
EXTENDS Transpiler

-----------------------------------------------------------------------------
(* Facts about the program.                                                   *)

Nodes(node, n) == {i \in 1..n : program[i].node = node}
ClassesIn(n) == {program[i].id : i \in Nodes("ClassDeclaration", n)}
EnumsIn(n) == {program[i].id : i \in Nodes("EnumerationDeclaration", n)}
DerivedIn(n) == {program[i].id : i \in {j \in Nodes("ClassDeclaration", n) :
                                          program[j].hasBaseClass}}
Classes == ClassesIn(Len(program))
Enums == EnumsIn(Len(program))

\* Names of classes that are not taken for something else on sight.
ReservedTypes == ValueTypes \union {"string", "XIfcPropertySet"}

SchemaImports == {i \in Nodes("ImportStatement", Len(program)) :
                     sourceDirectory /\ program[i].name \in ExpressSchemas}

\* The schema of the last of them.
SchemaOfProgram ==
    IF SchemaImports = {} THEN ""
    ELSE program[CHOOSE i \in SchemaImports : \A j \in SchemaImports : j <= i].name

\* Node i declares a variable, field or parameter id of an EXPRESS type, or is
\* a method with a parameter whose name alone makes it pass for one.
DeclaresExpress(i, id) ==
    LET n == program[i] IN
    \/ /\ n.node \in {"VariableDeclaration", "ClassVariable"}
       /\ n.id = id /\ n.type \in IfcNames
    \/ /\ n.node \in {"MethodDeclaration", "CtorDeclaration", "FunctionDeclaration"}
       /\ ~(n.node = "FunctionDeclaration" /\ n.id = "main")
       /\ \E k \in 1..Len(n.arguments) :
             /\ n.arguments[k].id = id
             /\ \/ /\ n.arguments[k].type \in IfcNames
                   /\ ~(n.node = "CtorDeclaration" /\ n.arguments[k].isArray)
                \/ n.node = "MethodDeclaration" /\ id \in ifcNames

DeclaredExpressBefore(i, id) == \E j \in 1..(i - 1) : DeclaresExpress(j, id)

\* The classes that are declared inside the body of a method, constructor or
\* function (the grammar allows it).
HasLocalClasses == \E i \in Nodes("ClassDeclaration", Len(program)) : Depth(program, i - 1) > 0

StaticFields == {i \in Nodes("ClassVariable", Len(program)) :
                    program[i].isStatic /\ program[i].isInitialised}

-----------------------------------------------------------------------------
(* The .cpp file: what out holds once StartPass2 has opened it.               *)

InPass2 == cppFile.state # "unopened"
Parts(part) == {i \in 1..Len(out) : out[i].part = part}
Typed == UNION {Parts(p) : p \in {"result", "functionResult", "parameter", "field", "variable"}}

\* The result of a function that is no operator is written as it stands
\* (main.cpp:591), a class by value.
ByValue(f) ==
    /\ f.part = "functionResult"
    /\ \E i \in Nodes("FunctionDeclaration", Len(program)) :
          /\ program[i].id = f.name /\ program[i].type = f.type
          /\ program[i].OperationType # "Plus"

\* C++ bodies open after the first n fragments of the file.
OpenIn(n) == Cardinality({i \in Parts("begin") : i <= n})
             - Cardinality({i \in Parts("end") : i <= n})

-----------------------------------------------------------------------------
(* Invariants.                                                                *)

TypeOK ==
    /\ phase \in {"start", "pass1", "pass1 done", "pass2", "pass2 done", "caught"}
                 \union Terminal
    /\ program \in Programs
    /\ sourceDirectory \in BOOLEAN /\ assertions \in BOOLEAN
    /\ next \in 1..(Len(program) + 1)
    /\ out \in Seq(Fragment)
    /\ moduleName \in Name
    /\ classNames \in Seq(Name) /\ enumNames \in Seq(Name)
    /\ DOMAIN baseClasses \subseteq Name
    /\ \A c \in DOMAIN baseClasses : baseClasses[c] \in Name
    /\ symbolTable \subseteq Symbol(Name)
    /\ deferredOutput \in Seq(Fragment)
    /\ bFoundMainFunction \in BOOLEAN /\ bUseIfcPLMath \in BOOLEAN
    /\ bIArbitraryTransitionCurveImport \in BOOLEAN
    /\ g_schemaName \in Name /\ oipExpressRuns \in Seq(Name) /\ generated \subseteq Name
    /\ cppFile \in CppFile /\ cmakeLists \in CMakeLists
    /\ exitStatus \in {"running", "success", "failure"}

\* Wherever a class of the program is the type of a result, parameter, field or
\* variable in the file, it is used through a pointer (or by reference, for a ref
\* parameter), also where the class is declared further down; and nothing but a
\* reference type is.  The exception is the result of an ordinary function.  One
\* walk cannot do this: setClassNames is what makes it true.
ReferencesResolved ==
    InPass2 => \A i \in Typed :
        /\ out[i].type \in Classes \ ReservedTypes => out[i].as \in {"shared_ptr", "reference"}
                                                     \/ ByValue(out[i])
        /\ out[i].as = "shared_ptr" =>
              out[i].type \in Classes \union IfcNames \union IFCNames \union LibraryTypes

\* E.member is written E::member in the file for every enum E of the program,
\* also where the enum is declared further down.  The exception is a name that
\* is also that of an EXPRESS variable.
EnumsResolved ==
    InPass2 => \A i \in Parts("access") :
        out[i].type = "member" /\ out[i].name \in Enums =>
            \/ out[i].as = "::"
            \/ out[i].as = "->m_" /\ DeclaredExpressBefore(next, out[i].name)

\* Every class of the program that the file uses as a type, of an array's elements
\* too, has been declared to the C++ compiler further up, and nothing that is no
\* class has been.
ForwardDeclared ==
    InPass2 => /\ \A i \in Typed \union Parts("array") : out[i].type \in Classes =>
                     \E j \in Parts("forward") : j < i /\ out[j].name = out[i].type
               /\ \A j \in Parts("forward") : out[j].name \in Classes

\* A tree that pass 1 got through does not fail in pass 2: no run is cut short
\* with a .cpp file already opened (and truncated) on the disk.
NoTornOutput == InPass2 => phase \notin {"caught", "aborted"}

\* In a program without local classes every initialised static field is defined
\* exactly once, qualified by the class it is declared in, outside all bodies.
StaticsDefined ==
    phase = "pass2 done" /\ ~HasLocalClasses =>
        /\ Cardinality(Parts("definition")) = Cardinality(StaticFields)
        /\ \A d \in Parts("definition") : OpenIn(d) = 0
        /\ \A f \in StaticFields : \E d \in Parts("definition"), c \in 1..(f - 1) :
              /\ program[c].node = "ClassDeclaration"
              /\ \A k \in (c + 1)..f : program[k].node # "ClassDeclaration"
              /\ out[d] = fragment("definition", program[f].id, program[f].type,
                                   program[c].id)

\* CMakeLists.txt, written from pass 2, compiles the file that was named from
\* pass 1; and it asks for what the program declares, wherever it declares it:
\* a program if there is a function main, a library otherwise, the math library
\* and the schema if imported (of several schemas, the last).
ProjectMatchesProgram ==
    cmakeLists.state = "written" =>
        /\ cmakeLists.project = cppFile.name /\ cmakeLists.source = cppFile.name
        /\ cmakeLists.target = "executable" <=>
              \E i \in Nodes("FunctionDeclaration", Len(program)) : program[i].id = "main"
        /\ cmakeLists.math <=>
              \E i \in Nodes("ImportStatement", Len(program)) :
                 program[i].name = "Math" /\ "Math" \notin ExpressSchemas
        /\ cmakeLists.schema = SchemaOfProgram

\* oipExpress has been run for a schema before CMakeLists.txt refers to it, and
\* each import has run it exactly twice, once per walk.  Whether it generated the
\* schema nobody looks (main.cpp:1033): the schema may be missing all the same.
SchemasRequested ==
    /\ g_schemaName # "" => g_schemaName \in Range(oipExpressRuns)
    /\ cmakeLists.state = "written" => Len(oipExpressRuns) = 2 * Cardinality(SchemaImports)

-----------------------------------------------------------------------------
(* Why a second walk cannot fail: what the walk has collected when it reaches *)
(* a node is a function of the nodes before it, so pass 2 meets every node    *)
(* with the tables pass 1 met it with, and pass 1 let it through.             *)

\* What the visit of n enters in the symbol table.
SymbolsOf(n) ==
    CASE n.node \in {"VariableDeclaration", "ClassVariable"} -> VariableSymbols(n)
      [] n.node = "ArrayDeclaration" -> {ArraySymbol(n.id, n.type)}
      [] n.node = "MethodDeclaration" -> MethodSymbols(n)
      [] n.node = "CtorDeclaration" -> CtorSymbols(n)
      [] n.node = "FunctionDeclaration" -> FunctionSymbols(n)
      [] OTHER -> {}
SymbolsIn(n) == UNION {SymbolsOf(program[i]) : i \in 1..n}

\* Node i can be translated where it stands.
Sound(i) == ~Untranslatable(program[i], DerivedIn(i - 1), SymbolsIn(i - 1))

TablesArePrefixes ==
    /\ DOMAIN baseClasses = DerivedIn(next - 1)
    /\ symbolTable = SymbolsIn(next - 1)
    /\ Range(classNames) = IF InPass2 THEN Classes ELSE ClassesIn(next - 1)
    /\ Range(enumNames) = IF InPass2 THEN Enums ELSE EnumsIn(next - 1)

PhasesAgree ==
    /\ phase \in {"start", "pass1", "pass1 done"} => ~InPass2
    /\ phase \in {"pass2", "pass2 done"} => InPass2
    /\ phase = "start" => next = 1
    /\ phase \in {"pass1 done", "pass2 done"} => next = Len(program) + 1

Validated == \A i \in 1..(IF InPass2 THEN Len(program) ELSE next - 1) : Sound(i)

Knowledge == TablesArePrefixes /\ PhasesAgree /\ Validated /\ NoTornOutput

-----------------------------------------------------------------------------
(* Action and temporal properties.                                            *)

\* The member operator of a plain access is ->m_ exactly when some declaration
\* before the access, in either walk, gave the name an EXPRESS type: nothing
\* forgets a declaration, and pass 2 does not see those pass 1 left.
ExpressAccessStep ==
    /\ next \in 1..Len(program) /\ next' = next + 1
    /\ program[next].node = "MemberAccess" /\ ~program[next].isMethodCall
    => (out'[Len(out')].as = "->m_" <=> DeclaredExpressBefore(next, program[next].id))
ExpressAccess == [][ExpressAccessStep]_vars

\* A program that survives pass 1 gets both its files, unless one cannot be
\* created; the run is never left half-way.
ValidatedIsTranslated ==
    phase = "pass1 done" ~>
        /\ phase = "exited" /\ next = Len(program) + 1
        /\ cppFile.state \in {"closed", "lost"} /\ cmakeLists # NoCMakeLists

\* The run as a translation: pass 1 judges, and opening the file accepts.
Translated == INSTANCE Translation WITH
    verdict  <- IF InPass2 THEN "accepted"
                ELSE IF phase \in Terminal \union {"caught"} THEN "rejected" ELSE "undecided",
    text     <- IF InPass2 THEN out ELSE <<>>,
    complete <- InPass2 /\ phase = "exited"

\* The two walks, the checks in them and the order in which main() runs them
\* implement a translation that is judged before it is begun.
ImplementsTranslation == Translated!Spec
=============================================================================
