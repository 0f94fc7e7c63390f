----------------------------- MODULE SyntaxTree -----------------------------
(* The syntax tree the parser hands to the transpiler (node.h), as the       *)
(* sequence of its nodes in the order CppTransform's depth-first walk visits *)
(* them.  A node with a body (class, interface, method, constructor,         *)
(* function) is followed by the nodes of the body and by an End node.        *)
(* Kept are the nodes whose visit reads or writes the transform's state, or  *)
(* whose rendering depends on it.  Operators, literals and control           *)
(* statements are rendered from the node alone and are left out, as are the  *)
(* initialisers of fields; what a visit drops unvisited is not in the        *)
(* sequence.  Arguments for a base class constructor follow CtorDeclaration. *)
EXTENDS Sequences, Integers, FiniteSets

CONSTANT Name   \* identifiers, among them those the transpiler itself supplies

\* A parameter of a method, constructor or function (args_decl in parser.y):
\* VariableDeclaration, or ArrayDeclaration when isArray.
Parameter == [id : Name, type : Name, isReferenceType : BOOLEAN, isArray : BOOLEAN]

ModuleStatement == [node : {"ModuleStatement"}, name : Name]

\* import Name;  or  import Name.exp;
ImportStatement == [node : {"ImportStatement"}, name : Name]

EnumerationDeclaration == [node : {"EnumerationDeclaration"}, id : Name]

InterfaceDeclaration == [node : {"InterfaceDeclaration"}, id : Name]

InterfaceMethod == [node : {"InterfaceMethod"}, id : Name, type : Name,
                    arguments : Seq(Parameter)]

ClassDeclaration == [node : {"ClassDeclaration"}, id : Name,
                     hasBaseClass : BOOLEAN, baseClass : Name]

\* isInitialised: the declaration has an assignmentExpr.
ClassVariable == [node : {"ClassVariable"}, id : Name, type : Name,
                  isStatic : BOOLEAN, isInitialised : BOOLEAN]

ClassArray == [node : {"ClassArray"}, id : Name, type : Name]

\* The operator a method or function overloads.
OperatorType == {"NoOperator", "Plus", "Index", "Minus", "Multiplication"}

MethodDeclaration == [node : {"MethodDeclaration"}, id : Name, type : Name,
                      OperatorType : OperatorType, arguments : Seq(Parameter)]

CtorDeclaration == [node : {"CtorDeclaration"}, id : Name,
                    hasBaseClassCtor : BOOLEAN, arguments : Seq(Parameter)]

FunctionDeclaration == [node : {"FunctionDeclaration"}, id : Name, type : Name,
                        OperationType : OperatorType, arguments : Seq(Parameter)]

VariableDeclaration == [node : {"VariableDeclaration"}, id : Name, type : Name,
                        isReferenceType : BOOLEAN]

ArrayDeclaration == [node : {"ArrayDeclaration"}, id : Name, type : Name]

\* id.member  or, when isMethodCall, id.member(..): an EnumTypeName node whose
\* left side is an Identifier.
MemberAccess == [node : {"MemberAccess"}, id : Name, isMethodCall : BOOLEAN]

\* id.member.rhs: an EnumTypeName node whose left side is an EnumTypeName node.
\* rhs is "add", "count", "getValue", another "MethodCall", an "Identifier",
\* or any "Other" expression.
NestedAccess == [node : {"NestedAccess"}, id : Name, member : Name,
                 rhs : {"add", "count", "getValue", "MethodCall", "Identifier", "Other"}]

ArrayAccess == [node : {"ArrayAccess"}, id : Name]

\* new id(..)  or, when ~isMethodCall, new applied to any other expression.
NewExpression == [node : {"NewExpression"}, id : Name, isMethodCall : BOOLEAN]

\* Leaving the body of a class, of an interface, or of a method, constructor
\* or function.
End == [node : {"EndClass", "EndInterface", "EndFunction"}]

Node ==
    ModuleStatement \union ImportStatement \union EnumerationDeclaration \union
    InterfaceDeclaration \union InterfaceMethod \union ClassDeclaration \union
    ClassVariable \union ClassArray \union MethodDeclaration \union CtorDeclaration \union
    FunctionDeclaration \union VariableDeclaration \union ArrayDeclaration \union
    MemberAccess \union NestedAccess \union ArrayAccess \union NewExpression \union End

-----------------------------------------------------------------------------
(* How nodes nest.                                                            *)

\* The nodes that begin a body, and those that end one.
Bodies == {"ClassDeclaration", "InterfaceDeclaration", "MethodDeclaration",
           "CtorDeclaration", "FunctionDeclaration"}
Ends == {"EndClass", "EndInterface", "EndFunction"}

\* How many bodies are open after the first n nodes of p.
Depth(p, n) == Cardinality({i \in 1..n : p[i].node \in Bodies})
               - Cardinality({i \in 1..n : p[i].node \in Ends})

\* The kinds of body whose member, or whose end, a node is.  Anything else that
\* may stand in a function may also stand outside of all bodies.
Around == [ClassVariable     |-> {"ClassDeclaration"},
           ClassArray        |-> {"ClassDeclaration"},
           MethodDeclaration |-> {"ClassDeclaration"},
           CtorDeclaration   |-> {"ClassDeclaration"},
           EndClass          |-> {"ClassDeclaration"},
           InterfaceMethod   |-> {"InterfaceDeclaration"},
           EndInterface      |-> {"InterfaceDeclaration"},
           EndFunction       |-> {"MethodDeclaration", "CtorDeclaration", "FunctionDeclaration"}]

\* Node b begins the innermost body that is open where node i stands.
Encloses(p, b, i) ==
    /\ p[b].node \in Bodies
    /\ Depth(p, i - 1) = Depth(p, b)
    /\ \A j \in b..(i - 1) : Depth(p, j) >= Depth(p, b)

\* Every body is ended, and whatever is written in a body is in one of its kind.
Bracketed(p) ==
    /\ \A n \in 0..Len(p) : Depth(p, n) >= 0
    /\ Depth(p, Len(p)) = 0
    /\ \A i \in 1..Len(p) : p[i].node \in DOMAIN Around =>
          \E b \in 1..(i - 1) : p[b].node \in Around[p[i].node] /\ Encloses(p, b, i)
=============================================================================
