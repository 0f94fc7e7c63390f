---------------------------- MODULE MCTranspiler ----------------------------
(* TLC instance of the transpiler: programs of up to three declarations out  *)
(* of a dozen, in every order, repetitions included.  The declarations use   *)
(* each other's names, so that a class, an enum or an EXPRESS variable is     *)
(* met before, after and without its declaration.                            *)
EXTENDS TranspilerProperties

param(type, id) == [id |-> id, type |-> type, isReferenceType |-> FALSE, isArray |-> FALSE]
refParam(type, id) == [param(type, id) EXCEPT !.isReferenceType = TRUE]
arrayParam(type, id) == [param(type, id) EXCEPT !.isArray = TRUE]

module(name) == [node |-> "ModuleStatement", name |-> name]
import(name) == [node |-> "ImportStatement", name |-> name]
enum(id) == [node |-> "EnumerationDeclaration", id |-> id]
class(id) == [node |-> "ClassDeclaration", id |-> id, hasBaseClass |-> FALSE, baseClass |-> ""]
derived(id, base) == [class(id) EXCEPT !.hasBaseClass = TRUE, !.baseClass = base]
field(type, id, static, init) ==
    [node |-> "ClassVariable", id |-> id, type |-> type,
     isStatic |-> static, isInitialised |-> init]
operator(type, id, op, args) ==
    [node |-> "MethodDeclaration", id |-> id, type |-> type,
     OperatorType |-> op, arguments |-> args]
method(type, id, args) == operator(type, id, "NoOperator", args)
ctor(id, base, args) ==
    [node |-> "CtorDeclaration", id |-> id, hasBaseClassCtor |-> base, arguments |-> args]
function(type, id, op, args) ==
    [node |-> "FunctionDeclaration", id |-> id, type |-> type,
     OperationType |-> op, arguments |-> args]
variable(type, id, ref) ==
    [node |-> "VariableDeclaration", id |-> id, type |-> type, isReferenceType |-> ref]
access(id, call) == [node |-> "MemberAccess", id |-> id, isMethodCall |-> call]
nested(id, member, rhs) ==
    [node |-> "NestedAccess", id |-> id, member |-> member, rhs |-> rhs]
element(id) == [node |-> "ArrayAccess", id |-> id]
new(id, call) == [node |-> "NewExpression", id |-> id, isMethodCall |-> call]
end(what) == [node |-> what]

Wolf == << class("Wolf"), field("int", "count", TRUE, TRUE), field("Dog", "next", FALSE, FALSE),
           ctor("Wolf", FALSE, <<param("IfcPoint", "p"), arrayParam("string", "names")>>),
           element("names"), end("EndFunction"), end("EndClass") >>
Dog == << derived("Dog", "Wolf"), ctor("Dog", TRUE, <<param("Wolf", "w")>>), end("EndFunction"),
          method("Wolf", "sire", <<refParam("Dog", "d"), param("State", "s")>>),
          access("State", FALSE), access("p", FALSE), end("EndFunction"), end("EndClass") >>
\* A class whose constructor calls a base class it does not have.
Stray == << class("Cat"), ctor("Cat", TRUE, <<>>), end("EndFunction"),
            field("int", "lives", TRUE, TRUE), field("string", "name", TRUE, TRUE),
            end("EndClass") >>
State == << enum("State") >>
Header == << module("Kennel"), import("Math") >>
Curve == << module("Clothoid"), import("ArbitraryTransitionCurve"), import("A.exp") >>
Schemas == << import("B.exp") >>
Main == << function("void", "main", "NoOperator", <<arrayParam("string", "args")>>),
           element("args"), variable("Wolf", "w", FALSE), new("Wolf", TRUE),
           access("w", TRUE), access("State", FALSE), end("EndFunction") >>
Geometry == << function("Wolf", "plus", "Plus", <<param("IfcPoint", "p"), refParam("Dog", "d")>>),
               access("p", FALSE), nested("p", "Coordinates", "add"),
               nested("p", "Name", "Identifier"), access("w", FALSE), end("EndFunction") >>
\* Nodes the walk has no translation for, once p is known to be an EXPRESS object.
Unfit == << function("Dog", "f", "NoOperator", <<param("string", "s")>>),
            nested("p", "Name", "Other"), end("EndFunction") >>
Operators == << class("Vec"), operator("Vec", "operator", "Minus", <<param("Vec", "ifcA")>>),
                access("ifcA", FALSE), end("EndFunction"), end("EndClass") >>

Declarations == {Wolf, Dog, Stray, State, Header, Curve, Schemas, Main, Geometry, Unfit, Operators}

MCPrograms == Declarations
              \union {a \o b : a, b \in Declarations}
              \union {a \o b \o c : a, b, c \in Declarations}

\* Further programs: the node kinds the declarations above leave out.
MCOddPrograms ==
    { << [node |-> "InterfaceDeclaration", id |-> "IShape"],
         [node |-> "InterfaceMethod", id |-> "name", type |-> "string",
          arguments |-> <<param("Dog", "d"), param("string", "s"), refParam("int", "i")>>],
         end("EndInterface") >> \o d
      \o << [node |-> "ArrayDeclaration", id |-> "names", type |-> "string"], element("names"),
            variable("XIfcPropertySet", "set", FALSE), variable("int", "r", TRUE),
            new("w", FALSE), nested("q", "Segments", "count"), element("Segments") >>
      : d \in Declarations }
    \union
    \* A class declared inside a method.
    { << class("Outer"), field("int", "n", TRUE, TRUE), method("void", "m", <<>>) >> \o d
      \o << end("EndFunction"), field("int", "k", TRUE, TRUE), end("EndClass") >>
      : d \in Declarations }

MCAllPrograms == MCPrograms \union MCOddPrograms
MCName == {"", "main", "args", "string", "int", "void", "IfcPoint", "IfcBooleanOperator",
           "IFC4X1Model", "XIfcPropertySet", "Wolf", "Dog", "Cat", "Vec", "State", "IShape",
           "Outer", "Kennel", "Clothoid", "Math", "ArbitraryTransitionCurve", "A.exp",
           "B.exp", "Coordinates", "Name", "Segments", "operator", "plus", "sire", "count",
           "next", "p", "d", "s", "w", "names", "lives", "name", "ifcA", "f", "i", "set",
           "r", "q", "n", "k", "m", "start", "Segment", "g"}
MCIfcNames == {"IfcPoint", "IfcBooleanOperator"}
MCIFCNames == {"IFC4X1Model"}
MCifcNames == {"ifcA"}
MCExpressSchemas == {"A.exp", "B.exp"}
=============================================================================
