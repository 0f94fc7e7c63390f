------------------------------- MODULE Claims -------------------------------
(* Statements of the repository's own comments about the translation, each   *)
(* put as a property of the two walks, with the smallest programs that speak *)
(* about it.  None of them holds of the code.                                *)
EXTENDS MCTranspiler

-----------------------------------------------------------------------------
(* Declarations as a reader of the program sees them.                         *)

\* Node i declares a variable, field, array or parameter id of this type.
Declares(i, id, type) ==
    LET n == program[i] IN
    \/ /\ n.node \in {"VariableDeclaration", "ArrayDeclaration", "ClassVariable", "ClassArray"}
       /\ n.id = id /\ n.type = type
    \/ /\ n.node \in {"MethodDeclaration", "CtorDeclaration", "FunctionDeclaration"}
       /\ \E k \in 1..Len(n.arguments) : n.arguments[k].id = id /\ n.arguments[k].type = type

Types == {"IfcPoint", "Wolf", "string", "int"}
Declared(i, id) == \E t \in Types : Declares(i, id, t)

\* The last declaration of id before node i has this type.
NearestType(i, id, type) ==
    \E j \in 1..(i - 1) : /\ Declares(j, id, type)
                          /\ \A k \in (j + 1)..(i - 1) : ~Declared(k, id)

\* Nodes i and j lie in the body of the same class.
SameClass(i, j) ==
    \A k \in (IF i < j THEN i..j ELSE j..i) :
        program[k].node \notin {"ClassDeclaration", "EndClass"}

Visits(node) == next \in 1..Len(program) /\ program[next].node = node /\ next' = next + 1

-----------------------------------------------------------------------------
(* Claims.                                                                    *)

\* main.cpp, visit(EnumTypeName): "Add m_ before EXPRESS member variables...".
\* A member of a field of an EXPRESS type is written with m_.
MembersArePrefixed ==
    [][Visits("MemberAccess") /\ ~program[next].isMethodCall
       /\ (\E f \in 1..Len(program) :
              /\ program[f].node = "ClassVariable" /\ program[f].id = program[next].id
              /\ program[f].type \in IfcNames /\ SameClass(f, next))
       => out'[Len(out')].as = "->m_"]_vars

\* main.cpp, visit(EnumTypeName): "check if this is an embedded type access to
\* EXPRESS".  What is treated as one is an access to a variable whose
\* declaration in force has an EXPRESS type.
EmbeddedAccessIsExpress ==
    [][Visits("NestedAccess") /\ out'[Len(out') - 1].as = "->m_"
       => \E t \in IfcNames : NearestType(next, program[next].id, t)]_vars

\* main.cpp, visit(ArrayAccess): "check if it a string, since this requires
\* 'special' handling".  An element of a string array, and no other, gets it.
StringElementsHandled ==
    [][Visits("ArrayAccess") /\ (\E t \in Types : NearestType(next, program[next].id, t))
       => (out'[Len(out')].as = "*->operator[].get"
              <=> NearestType(next, program[next].id, "string"))]_vars

\* Core.cpp: "a string should be mapped to IfcPLString".
StringsAreMapped ==
    InPass2 => \A i \in 1..Len(out) :
        /\ out[i].part \in {"field", "variable", "parameter", "result", "functionResult"}
        /\ out[i].type = "string"
        => out[i].as = "IfcPLString"

-----------------------------------------------------------------------------
(* Programs.                                                                  *)

UseBeforeField ==
    << class("Segment"), method("void", "f", <<>>), access("start", FALSE), end("EndFunction"),
       field("IfcPoint", "start", FALSE, FALSE), end("EndClass") >>
SameNameTwice ==
    << function("void", "f", "NoOperator", <<param("IfcPoint", "p")>>), end("EndFunction"),
       class("Wolf"), end("EndClass"),
       function("void", "g", "NoOperator", <<param("Wolf", "p")>>),
       nested("p", "Name", "MethodCall"), end("EndFunction") >>
StringField ==
    << class("Wolf"), [node |-> "ClassArray", id |-> "names", type |-> "string"],
       method("void", "f", <<>>), element("names"), end("EndFunction"), end("EndClass") >>
StringParameter ==
    << function("void", "f", "NoOperator", <<param("string", "s")>>), end("EndFunction") >>

ClaimPrograms == {UseBeforeField, SameNameTwice, StringField, StringParameter}
=============================================================================
