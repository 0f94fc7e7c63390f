------------------------ MODULE TranspilerStaticsProofs -----------------------
(* For every set of programs: the definitions of the static fields.  A field's *)
(* definition waits in deferredOutput until a class ends, which may be an      *)
(* inner one.  The argument: at every node the file holds as many begins more  *)
(* than ends as there are bodies around the node (Balanced); a field passed is *)
(* defined or waits, as one of the class entered last (Accounted, NoneLost);   *)
(* and what waits, waits in a class that is still open (WaitingInClass), which *)
(* none is at the end of the program.                                          *)
EXTENDS TranspilerOutputProofs

-----------------------------------------------------------------------------
(* Bodies and static fields.                                                  *)

\* The initialised static fields among the nodes before n.
StaticFieldsBefore(n) == {f \in StaticFields : f < n}

\* The class that was entered last when the walk comes to node n.
LastClass(c, n) ==
    /\ c \in 1..(n - 1) /\ program[c].node = "ClassDeclaration"
    /\ \A k \in (c + 1)..(n - 1) : program[k].node # "ClassDeclaration"

\* The definition of field f as a field of class c.
DefinitionOf(f, c) == fragment("definition", program[f].id, program[f].type, program[c].id)

\* In the file as many bodies are open as in the part of the program walked.
Balanced ==
    Cardinality(Parts("begin")) - Cardinality(Parts("end")) = Depth(program, next - 1)

\* Each static field passed is defined in the file or waits to be.
Accounted ==
    Cardinality(Parts("definition")) + Len(deferredOutput)
        = Cardinality(StaticFieldsBefore(next))

\* Without local classes the file defines fields outside of all bodies.
DefinedOutside == ~HasLocalClasses => \A d \in Parts("definition") : OpenIn(d) = 0

\* It is defined, or waits to be, as a field of the class it is declared in.
NoneLost ==
    \A f \in StaticFieldsBefore(next) : \E c \in 1..Len(program) :
        /\ LastClass(c, f)
        /\ \/ \E d \in 1..Len(out) : out[d] = DefinitionOf(f, c)
           \/ \E d \in 1..Len(deferredOutput) : deferredOutput[d] = DefinitionOf(f, c)

\* What waits, waits in a class that is still open.
WaitingInClass ==
    deferredOutput # <<>> =>
        \E c \in 1..(next - 1) :
            /\ program[c].node = "ClassDeclaration"
            /\ \A j \in c..(next - 1) : Depth(program, j) >= Depth(program, c)

\* The last name in classNames_ is that of the class entered last.
ClassEntered ==
    (\E c \in 1..(next - 1) : program[c].node = "ClassDeclaration") =>
        /\ Len(classNames) > 0
        /\ \E c \in 1..Len(program) :
              LastClass(c, next) /\ classNames[Len(classNames)] = program[c].id

Statics == Balanced /\ Accounted /\ DefinedOutside /\ NoneLost /\ WaitingInClass /\ ClassEntered

-----------------------------------------------------------------------------
(* Depths.                                                                    *)

\* The first n nodes that are of a set of kinds.
OfKinds(p, n, K) == {i \in 1..n : p[i].node \in K}

\* One node more is of a set of kinds, or not.
LEMMA KindsCounted ==
    ASSUME NEW p, NEW n \in Nat, NEW K
    PROVE  /\ Cardinality(OfKinds(p, n, K)) \in Nat
           /\ p[n + 1].node \in K =>
                 Cardinality(OfKinds(p, n + 1, K)) = Cardinality(OfKinds(p, n, K)) + 1
           /\ p[n + 1].node \notin K =>
                 Cardinality(OfKinds(p, n + 1, K)) = Cardinality(OfKinds(p, n, K))
  <1>1. OfKinds(p, n, K) \subseteq 1..n
    BY DEF OfKinds
  <1>2. IsFiniteSet(OfKinds(p, n, K)) /\ Cardinality(OfKinds(p, n, K)) \in Nat
    <2>1. IsFiniteSet(1..n)
      BY FS_Interval
    <2>. QED BY <1>1, <2>1, FS_Subset, FS_CardinalityType
  <1>3. 1..(n + 1) = 1..n \union {n + 1} /\ n + 1 \notin 1..n
    OBVIOUS
  <1>4. p[n + 1].node \notin K => OfKinds(p, n + 1, K) = OfKinds(p, n, K)
    BY <1>3 DEF OfKinds
  <1>5. p[n + 1].node \in K => /\ OfKinds(p, n + 1, K) = OfKinds(p, n, K) \union {n + 1}
                              /\ n + 1 \notin OfKinds(p, n, K)
    BY <1>3 DEF OfKinds
  <1>6. p[n + 1].node \in K =>
           Cardinality(OfKinds(p, n + 1, K)) = Cardinality(OfKinds(p, n, K)) + 1
    BY <1>2, <1>5, FS_AddElement
  <1>. QED BY <1>2, <1>4, <1>6

\* A node opens a body, ends one, or does neither.
LEMMA DepthStep ==
    ASSUME NEW p, NEW n \in Nat
    PROVE  /\ Depth(p, n) \in Int
           /\ p[n + 1].node \in Bodies => Depth(p, n + 1) = Depth(p, n) + 1
           /\ p[n + 1].node \in Ends => Depth(p, n + 1) = Depth(p, n) - 1
           /\ p[n + 1].node \notin Bodies \union Ends => Depth(p, n + 1) = Depth(p, n)
  <1>1. \A m : Depth(p, m) = Cardinality(OfKinds(p, m, Bodies)) - Cardinality(OfKinds(p, m, Ends))
    BY DEF Depth, OfKinds
  <1>2. p[n + 1].node \in Bodies => p[n + 1].node \notin Ends
    BY DEF Bodies, Ends
  <1>3. \A K : /\ Cardinality(OfKinds(p, n, K)) \in Nat
               /\ p[n + 1].node \in K =>
                     Cardinality(OfKinds(p, n + 1, K)) = Cardinality(OfKinds(p, n, K)) + 1
               /\ p[n + 1].node \notin K =>
                     Cardinality(OfKinds(p, n + 1, K)) = Cardinality(OfKinds(p, n, K))
    BY KindsCounted
  <1>. QED BY <1>1, <1>2, <1>3

\* Before the first node no body is open.
LEMMA DepthOfNone == \A p : Depth(p, 0) = 0
  <1>1. \A p, K : {i \in 1..0 : p[i].node \in K} = {}
    OBVIOUS
  <1>. QED BY <1>1, FS_EmptySet DEF Depth

\* The bodies of the program are bracketed.
LEMMA ProgramBracketed ==
    ASSUME TypeOK
    PROVE  Bracketed(program)
  BY ProgramsAssumption DEF TypeOK

\* What node i stands in.
LEMMA Enclosed ==
    ASSUME TypeOK, NEW i \in 1..Len(program), program[i].node \in DOMAIN Around
    PROVE  \E b \in 1..(i - 1) :
              program[b].node \in Around[program[i].node] /\ Encloses(program, b, i)
  BY ProgramBracketed DEF Bracketed

-----------------------------------------------------------------------------
(* What is added to the file, as regards bodies and definitions.              *)

Quiet(f) == f.part \notin {"begin", "end", "definition"}
AllQuiet(s) == \A i \in 1..Len(s) : Quiet(s[i])
OpensBody(s) == \E k \in 1..Len(s) :
                   s[k].part = "begin" /\ \A i \in 1..Len(s) : i # k => Quiet(s[i])
EndsBody(s) == Len(s) = 1 /\ s[1].part = "end"

\* The fragments of a part are finitely many.
LEMMA PartsFinite ==
    ASSUME TypeOK, NEW part
    PROVE  /\ Parts(part) \subseteq 1..Len(out)
           /\ IsFiniteSet(Parts(part)) /\ Cardinality(Parts(part)) \in Nat
  <1>1. Parts(part) \subseteq 1..Len(out)
    BY DEF Parts
  <1>2. IsFiniteSet(1..Len(out))
    BY WalkShape, FS_Interval
  <1>. QED BY <1>1, <1>2, FS_Subset, FS_CardinalityType

\* The parts of the file, when fragments are added to it.
LEMMA PartsAdded ==
    ASSUME TypeOK, NEW s \in Seq(Fragment), out' = out \o s, NEW part
    PROVE  /\ Parts(part) \subseteq 1..Len(out)
           /\ IsFiniteSet(Parts(part)) /\ Cardinality(Parts(part)) \in Nat
           /\ Parts(part)' = Parts(part) \union
                 {i \in (Len(out) + 1)..(Len(out) + Len(s)) : s[i - Len(out)].part = part}
  <1>1. out \in Seq(Fragment) /\ Len(out) \in Nat /\ Len(s) \in Nat
    BY WalkShape
  <1>2. /\ Parts(part) \subseteq 1..Len(out)
        /\ IsFiniteSet(Parts(part)) /\ Cardinality(Parts(part)) \in Nat
    BY PartsFinite
  <1>4. /\ Len(out') = Len(out) + Len(s)
        /\ \A i \in 1..Len(out) : out'[i] = out[i]
        /\ \A i \in (Len(out) + 1)..(Len(out) + Len(s)) : out'[i] = s[i - Len(out)]
    BY <1>1
  <1>5. 1..(Len(out) + Len(s)) = 1..Len(out) \union (Len(out) + 1)..(Len(out) + Len(s))
    BY <1>1
  <1>6. Parts(part)' = {i \in 1..Len(out') : out'[i].part = part}
    BY DEF Parts
  <1>7. Parts(part) = {i \in 1..Len(out) : out[i].part = part}
    BY DEF Parts
  <1>8. Parts(part)' = Parts(part) \union
                 {i \in (Len(out) + 1)..(Len(out) + Len(s)) : s[i - Len(out)].part = part}
    BY <1>4, <1>5, <1>6, <1>7
  <1>. QED BY <1>2, <1>8

\* A part nothing is added of stays as it is.
LEMMA PartKept ==
    ASSUME TypeOK, NEW s \in Seq(Fragment), out' = out \o s, NEW part,
           \A i \in 1..Len(s) : s[i].part # part
    PROVE  Parts(part)' = Parts(part)
  <1>1. Len(out) \in Nat /\ Len(s) \in Nat
    BY WalkShape
  <1>2. \A i \in (Len(out) + 1)..(Len(out) + Len(s)) : i - Len(out) \in 1..Len(s)
    BY <1>1
  <1>. QED BY <1>2, PartsAdded

\* A part one fragment is added of counts one more.
LEMMA PartAdded ==
    ASSUME TypeOK, NEW s \in Seq(Fragment), out' = out \o s, NEW part,
           NEW k \in 1..Len(s), s[k].part = part,
           \A i \in 1..Len(s) : i # k => s[i].part # part
    PROVE  /\ Parts(part)' = Parts(part) \union {Len(out) + k}
           /\ Cardinality(Parts(part)') = Cardinality(Parts(part)) + 1
  <1>1. Len(out) \in Nat /\ Len(s) \in Nat
    BY WalkShape
  <1>2. /\ \A i \in (Len(out) + 1)..(Len(out) + Len(s)) :
              i - Len(out) \in 1..Len(s) /\ (i # Len(out) + k => i - Len(out) # k)
        /\ Len(out) + k \in (Len(out) + 1)..(Len(out) + Len(s)) /\ (Len(out) + k) - Len(out) = k
        /\ Len(out) + k \notin 1..Len(out)
    BY <1>1
  <1>3. {i \in (Len(out) + 1)..(Len(out) + Len(s)) : s[i - Len(out)].part = part} = {Len(out) + k}
    BY <1>2
  <1>4. Parts(part)' = Parts(part) \union {Len(out) + k}
    <2>1. Parts(part)' = Parts(part) \union
             {i \in (Len(out) + 1)..(Len(out) + Len(s)) : s[i - Len(out)].part = part}
      BY PartsAdded
    <2>. QED BY <1>3, <2>1
  <1>5. IsFiniteSet(Parts(part)) /\ Len(out) + k \notin Parts(part)
    BY <1>2, PartsAdded
  <1>. QED BY <1>4, <1>5, FS_AddElement

\* How many bodies are open at a place in the file does not change.
LEMMA OpenStays ==
    ASSUME TypeOK, NEW s \in Seq(Fragment), out' = out \o s, NEW n \in 1..Len(out)
    PROVE  OpenIn(n)' = OpenIn(n)
  <1>1. Len(out) \in Nat /\ Len(s) \in Nat
    BY WalkShape
  <1>2. ASSUME NEW part
        PROVE  {i \in Parts(part)' : i <= n} = {i \in Parts(part) : i <= n}
    <2>1. \A i \in (Len(out) + 1)..(Len(out) + Len(s)) : ~(i <= n)
      BY <1>1
    <2>. QED BY <2>1, PartsAdded
  <1>. QED BY <1>2 DEF OpenIn
-----------------------------------------------------------------------------
(* What a visit adds.                                                         *)

\* What s has to be, by the kind of the node visited.
Shape(s) ==
    /\ Visited.node \in Bodies => OpensBody(s)
    /\ Visited.node \in {"EndFunction", "EndInterface"} => EndsBody(s)
    /\ Visited.node = "EndClass" => \E g : g.part = "end" /\ s = <<g>> \o deferredOutput
    /\ Visited.node \notin Bodies \union Ends => AllQuiet(s)

\* Quiet fragments after others, and before a body.
LEMMA QuietJoined ==
    ASSUME NEW s \in Seq(Fragment), NEW t \in Seq(Fragment), AllQuiet(s)
    PROVE  /\ s \o t \in Seq(Fragment)
           /\ AllQuiet(t) => AllQuiet(s \o t)
           /\ OpensBody(t) => OpensBody(s \o t)
  <1>1. /\ Len(s \o t) = Len(s) + Len(t) /\ Len(s) \in Nat /\ Len(t) \in Nat
        /\ \A i \in 1..Len(s) : (s \o t)[i] = s[i]
        /\ \A i \in 1..Len(t) : (s \o t)[Len(s) + i] = t[i]
    OBVIOUS
  <1>2. ASSUME NEW i \in 1..(Len(s) + Len(t))
        PROVE  i \in 1..Len(s) \/ \E j \in 1..Len(t) : i = Len(s) + j
    <2>1. i \in 1..Len(s) \/ (i - Len(s) \in 1..Len(t) /\ i = Len(s) + (i - Len(s)))
      BY <1>1
    <2>. QED BY <2>1
  <1>3. ASSUME AllQuiet(t) PROVE AllQuiet(s \o t)
    BY <1>1, <1>2, <1>3 DEF AllQuiet
  <1>4. ASSUME OpensBody(t) PROVE OpensBody(s \o t)
    <2>1. PICK k \in 1..Len(t) :
             t[k].part = "begin" /\ \A i \in 1..Len(t) : i # k => Quiet(t[i])
      BY <1>4 DEF OpensBody
    <2>2. Len(s) + k \in 1..Len(s \o t) /\ (s \o t)[Len(s) + k].part = "begin"
      BY <1>1, <2>1
    <2>3. ASSUME NEW i \in 1..Len(s \o t), i # Len(s) + k
          PROVE  Quiet((s \o t)[i])
      <3>1. CASE i \in 1..Len(s)
        BY <1>1, <3>1 DEF AllQuiet
      <3>2. CASE \E j \in 1..Len(t) : i = Len(s) + j
        <4>1. PICK j \in 1..Len(t) : i = Len(s) + j
          BY <3>2
        <4>2. j # k /\ (s \o t)[i] = t[j]
          BY <1>1, <2>3, <4>1
        <4>. QED BY <2>1, <4>2
      <3>. QED BY <1>1, <1>2, <3>1, <3>2
    <2>. QED BY <2>2, <2>3 DEF OpensBody
  <1>5. s \o t \in Seq(Fragment)
    OBVIOUS
  <1>. QED BY <1>3, <1>4, <1>5

\* The beginning of a body, and at most quiet fragments after it.
LEMMA BeginOpens ==
    ASSUME NEW f \in Fragment, f.part = "begin", NEW t \in Seq(Fragment), AllQuiet(t)
    PROVE  OpensBody(<<f>> \o t)
  <1>1. Len(t) \in Nat /\ <<f>> \in Seq(Fragment)
    OBVIOUS
  <1>2. /\ Len(<<f>> \o t) = 1 + Len(t) /\ (<<f>> \o t)[1] = f
        /\ \A i \in 2..(1 + Len(t)) : (<<f>> \o t)[i] = t[i - 1]
    BY <1>1
  <1>3. \A i \in 1..(1 + Len(t)) : i # 1 => i \in 2..(1 + Len(t)) /\ i - 1 \in 1..Len(t)
    BY <1>1
  <1>4. 1 \in 1..(1 + Len(t))
    BY <1>1
  <1>. QED BY <1>2, <1>3, <1>4 DEF OpensBody, AllQuiet

\* A body that begins, with nothing behind.
LEMMA OpensAlone ==
    ASSUME NEW f \in Fragment, f.part = "begin"
    PROVE  OpensBody(<<f>>)
  <1>1. Len(<<f>>) = 1 /\ <<f>>[1] = f /\ \A i \in 1..1 : i = 1
    OBVIOUS
  <1>. QED BY <1>1 DEF OpensBody

\* Joining sequences is associative.
LEMMA JoinedInAnyOrder ==
    ASSUME NEW S, NEW s \in Seq(S), NEW t \in Seq(S), NEW u \in Seq(S)
    PROVE  s \o (t \o u) = (s \o t) \o u
  OBVIOUS

\* A visit that writes one fragment, ...
LEMMA OneAdded ==
    ASSUME TypeOK, Writes, NEW g, Emit(<<g>>)
    PROVE  \E s \in Seq(Fragment) : Emit(s) /\ Len(s) = 1 /\ s[1] = g
  <1>1. PICK s : Good(s) /\ Emit(s)
    BY DEF Writes
  <1>2. /\ s \in Seq(Fragment) /\ out \in Seq(Fragment) /\ out \o s = out \o <<g>>
        /\ Len(out) \in Nat /\ Len(s) \in Nat
    BY <1>1, WalkShape DEF Good, Emit
  <1>3. Len(out \o <<g>>) = Len(out) + 1 /\ (out \o <<g>>)[Len(out) + 1] = g
    BY <1>2
  <1>4. Len(out \o s) = Len(out) + Len(s)
    BY <1>2
  <1>5. Len(s) = 1
    BY <1>2, <1>3, <1>4
  <1>6. (out \o s)[Len(out) + 1] = s[1]
    BY <1>2, <1>5
  <1>. QED BY <1>1, <1>2, <1>3, <1>5, <1>6

\* ... two, ...
LEMMA TwoAdded ==
    ASSUME TypeOK, Writes, NEW g, NEW h, Emit(<<g, h>>)
    PROVE  \E s \in Seq(Fragment) : Emit(s) /\ Len(s) = 2 /\ s[1] = g /\ s[2] = h
  <1>1. PICK s : Good(s) /\ Emit(s)
    BY DEF Writes
  <1>2. /\ s \in Seq(Fragment) /\ out \in Seq(Fragment) /\ out \o s = out \o <<g, h>>
        /\ Len(out) \in Nat /\ Len(s) \in Nat
    BY <1>1, WalkShape DEF Good, Emit
  <1>3. /\ Len(out \o <<g, h>>) = Len(out) + 2 /\ (out \o <<g, h>>)[Len(out) + 1] = g
        /\ (out \o <<g, h>>)[Len(out) + 2] = h
    BY <1>2
  <1>4. Len(out \o s) = Len(out) + Len(s)
    BY <1>2
  <1>5. Len(s) = 2
    BY <1>2, <1>3, <1>4
  <1>6. (out \o s)[Len(out) + 1] = s[1] /\ (out \o s)[Len(out) + 2] = s[2]
    BY <1>2, <1>5
  <1>. QED BY <1>1, <1>2, <1>3, <1>5, <1>6

\* ... or none.
LEMMA NoneAdded ==
    ASSUME TypeOK, out' = out
    PROVE  \E s \in Seq(Fragment) : Emit(s) /\ AllQuiet(s)
  <1>1. out \in Seq(Fragment) /\ <<>> \in Seq(Fragment) /\ Len(<<>>) = 0
    BY WalkShape
  <1>2. out \o <<>> = out
    BY <1>1
  <1>3. AllQuiet(<<>>)
    BY DEF AllQuiet
  <1>. QED BY <1>1, <1>2, <1>3 DEF Emit

\* A parameter list is quiet.
LEMMA ParametersQuiet ==
    ASSUME NEW n, n.arguments \in Seq(Parameter)
    PROVE  AllQuiet(Parameters(n))
  <1>1. ASSUME NEW p
        PROVE  Quiet(fragment(ParameterPart(n, p), p.id, p.type, ParameterType(n, p)))
    BY FragmentParts DEF ParameterPart, Quiet
  <1>2. /\ Len(Parameters(n)) = Len(n.arguments)
        /\ \A i \in 1..Len(n.arguments) :
              Parameters(n)[i] = fragment(ParameterPart(n, n.arguments[i]), n.arguments[i].id,
                                          n.arguments[i].type, ParameterType(n, n.arguments[i]))
    BY DEF Parameters
  <1>. QED BY <1>1, <1>2 DEF AllQuiet

\* A quiet fragment, alone.
LEMMA OneQuiet ==
    ASSUME NEW g, g.part \notin {"begin", "end", "definition"}
    PROVE  AllQuiet(<<g>>)
  BY DEF AllQuiet, Quiet

\* A fragment that is written, is one.
LEMMA OneWritten ==
    ASSUME NEW part, NEW name, NEW type, NEW as, Emit(<<fragment(part, name, type, as)>>)
    PROVE  /\ \E g : Emit(<<g>>) /\ g.part = part
           /\ part \notin {"begin", "end", "definition"} =>
                 \E g : Emit(<<g>>) /\ g.part \notin {"begin", "end", "definition"}
  <1>. DEFINE f == fragment(part, name, type, as)
  <1>1. f.part = part /\ Emit(<<f>>)
    BY DEF fragment
  <1>. HIDE DEF f
  <1>. QED BY <1>1

\* A visit that writes one quiet fragment.
LEMMA QuietVisitShape ==
    ASSUME Inv, Writes, NEW g, Emit(<<g>>), g.part \notin {"begin", "end", "definition"}
    PROVE  \E s \in Seq(Fragment) : Emit(s) /\ AllQuiet(s)
  <1>1. PICK s \in Seq(Fragment) : Emit(s) /\ Len(s) = 1 /\ s[1] = g
    BY OneAdded DEF Inv
  <1>2. \A i \in 1..Len(s) : i = 1
    BY <1>1
  <1>3. AllQuiet(s)
    BY <1>1, <1>2 DEF AllQuiet, Quiet
  <1>. QED BY <1>1, <1>3

\* What every visit adds has the shape its node asks for.
LEMMA VisitShape ==
    ASSUME Inv, Written, Visit
    PROVE  \E s \in Seq(Fragment) : Emit(s) /\ Shape(s)
  <1>0. TypeOK /\ Writes
    BY VisitWrites DEF Inv
  <1>1. ASSUME Visited.node \notin Bodies \union Ends,
               \E s \in Seq(Fragment) : Emit(s) /\ AllQuiet(s)
        PROVE  \E s \in Seq(Fragment) : Emit(s) /\ Shape(s)
    BY <1>1 DEF Shape, Bodies, Ends
  <1>2. CASE VisitModuleStatement \/ VisitSchemaImport \/ VisitLibraryImport
             \/ VisitEnumerationDeclaration \/ VisitClassVariable \/ VisitClassArray
             \/ VisitVariableDeclaration \/ VisitArrayDeclaration \/ VisitMemberAccess
             \/ VisitArrayAccess \/ VisitNewExpression
    <2>1. Visited.node \notin Bodies \union Ends
      BY <1>2 DEF Visiting, Visited, Bodies, Ends, VisitModuleStatement, VisitSchemaImport,
           VisitLibraryImport, VisitEnumerationDeclaration, VisitClassVariable,
           VisitClassArray, VisitVariableDeclaration, VisitArrayDeclaration,
           VisitMemberAccess, VisitArrayAccess, VisitNewExpression
    <2>2. out' = out \/ \E g : Emit(<<g>>) /\ g.part \notin {"begin", "end", "definition"}
      <3>1. CASE VisitModuleStatement
        BY <3>1 DEF VisitModuleStatement
      <3>2. CASE VisitSchemaImport
        <4>. DEFINE g == fragment("include", Visited.name, "", "schema")
        <4>1. out' = out \/ Emit(<<g>>)
          BY <3>2 DEF VisitSchemaImport
        <4>2. g.part = "include"
          BY DEF fragment
        <4>. HIDE DEF g
        <4>. QED BY <4>1, <4>2
      <3>3. CASE VisitLibraryImport
        <4>. DEFINE g == fragment("include", Visited.name, "", "library")
        <4>1. Emit(<<g>>)
          BY <3>3 DEF VisitLibraryImport
        <4>2. g.part = "include"
          BY DEF fragment
        <4>. HIDE DEF g
        <4>. QED BY <4>1, <4>2
      <3>4. CASE VisitEnumerationDeclaration
        <4>. DEFINE g == fragment("enum", Visited.id, "", "")
        <4>1. Emit(<<g>>)
          BY <3>4 DEF VisitEnumerationDeclaration
        <4>2. g.part = "enum"
          BY DEF fragment
        <4>. HIDE DEF g
        <4>. QED BY <4>1, <4>2
      <3>5. CASE VisitClassVariable
        <4>1. Emit(<<fragment("field", Visited.id, Visited.type, FieldType(Visited.type))>>)
          BY <3>5 DEF VisitClassVariable
        <4>. QED BY <4>1, OneWritten
      <3>6. CASE VisitClassArray
        <4>1. Emit(<<fragment("array", Visited.id, Visited.type, "plain")>>)
          BY <3>6 DEF VisitClassArray
        <4>. QED BY <4>1, OneWritten
      <3>7. CASE VisitVariableDeclaration
        <4>1. Emit(<<fragment("variable", Visited.id, Visited.type, VariableType(Visited))>>)
          BY <3>7 DEF VisitVariableDeclaration
        <4>. QED BY <4>1, OneWritten
      <3>8. CASE VisitArrayDeclaration
        <4>1. Emit(<<fragment("array", Visited.id, Visited.type, "plain")>>)
          BY <3>8 DEF VisitArrayDeclaration
        <4>. QED BY <4>1, OneWritten
      <3>9. CASE VisitMemberAccess
        <4>. DEFINE g == fragment("access", Visited.id,
                                  IF Visited.isMethodCall THEN "call" ELSE "member",
                                  AccessOperator(Visited.id, Visited.isMethodCall))
        <4>1. Emit(<<g>>)
          BY <3>9 DEF VisitMemberAccess
        <4>2. g.part = "access"
          BY DEF fragment
        <4>. HIDE DEF g
        <4>. QED BY <4>1, <4>2
      <3>10. CASE VisitArrayAccess
        <4>. DEFINE g == fragment("element", Visited.id, "", ElementOperator(Visited.id))
        <4>1. Emit(<<g>>)
          BY <3>10 DEF VisitArrayAccess
        <4>2. g.part = "element"
          BY DEF fragment
        <4>. HIDE DEF g
        <4>. QED BY <4>1, <4>2
      <3>11. CASE VisitNewExpression
        <4>. DEFINE g == fragment("new", Visited.id, "",
                             IF Visited.isMethodCall THEN "make_shared" ELSE "plain")
        <4>1. Emit(<<g>>)
          BY <3>11 DEF VisitNewExpression
        <4>2. g.part = "new"
          BY DEF fragment
        <4>. HIDE DEF g
        <4>. QED BY <4>1, <4>2
      <3>. QED BY <1>2, <3>1, <3>2, <3>3, <3>4, <3>5, <3>6, <3>7, <3>8, <3>9, <3>10, <3>11
    <2>. QED BY <1>0, <1>1, <2>1, <2>2, NoneAdded, QuietVisitShape
  <1>3. CASE VisitNestedAccess
    <2>. DEFINE g == fragment("access", Visited.id, "member", AccessOperator(Visited.id, FALSE))
                h == fragment("nested", Visited.member, Visited.rhs,
                              IF isExpressType(symbolTable, Visited.id)
                              THEN NestedOperator(Visited) ELSE "->")
    <2>1. Emit(<<g, h>>) /\ Visited.node \notin Bodies \union Ends
      BY <1>3 DEF VisitNestedAccess, Visiting, Visited, Bodies, Ends
    <2>2. g.part = "access" /\ h.part = "nested"
      BY DEF fragment
    <2>. HIDE DEF g, h
    <2>3. PICK s \in Seq(Fragment) : Emit(s) /\ Len(s) = 2 /\ s[1] = g /\ s[2] = h
      BY <1>0, <2>1, TwoAdded
    <2>4. \A i \in 1..Len(s) : i = 1 \/ i = 2
      BY <2>3
    <2>5. AllQuiet(s)
      BY <2>2, <2>3, <2>4 DEF AllQuiet, Quiet
    <2>. QED BY <1>1, <2>1, <2>3, <2>5
  <1>4. CASE VisitInterfaceMethod
    <2>1. /\ Visited.id \in Name /\ Visited.type \in Name
          /\ Visited.arguments \in Seq(Parameter) /\ Visited.node = "InterfaceMethod"
      BY <1>4, VisitingNode, NodeShapes DEF VisitInterfaceMethod, InterfaceMethod, Inv
    <2>. DEFINE g == fragment("result", Visited.id, Visited.type, ResultType(Visited.type))
    <2>2. g.part = "result" /\ g \in Fragment
      BY <2>1, FragmentType, FormTypes DEF fragment, Part
    <2>3. Parameters(Visited) \in Seq(Fragment) /\ AllQuiet(Parameters(Visited))
      BY <2>1, ParametersType, ParametersQuiet
    <2>4. Emit(<<g>> \o Parameters(Visited))
      BY <1>4 DEF VisitInterfaceMethod
    <2>. HIDE DEF g
    <2>5. <<g>> \in Seq(Fragment) /\ AllQuiet(<<g>>)
      BY <2>2, OneQuiet
    <2>6. AllQuiet(<<g>> \o Parameters(Visited)) /\ <<g>> \o Parameters(Visited) \in Seq(Fragment)
      BY <2>3, <2>5, QuietJoined
    <2>7. Visited.node \notin Bodies \union Ends
      BY <2>1 DEF Bodies, Ends
    <2>. QED BY <1>1, <2>4, <2>6, <2>7
  <1>5. ASSUME Visited.node \in Bodies,
               \E s \in Seq(Fragment) : Emit(s) /\ OpensBody(s)
        PROVE  \E s \in Seq(Fragment) : Emit(s) /\ Shape(s)
    BY <1>5 DEF Shape, Bodies, Ends
  <1>6. CASE VisitInterfaceDeclaration \/ VisitClassDeclaration
    <2>1. Visited.node \in Bodies
      BY <1>6 DEF VisitInterfaceDeclaration, VisitClassDeclaration, Visiting, Visited, Bodies
    <2>2. \E g : Emit(<<g>>) /\ g.part = "begin"
      <3>1. CASE VisitInterfaceDeclaration
        BY <3>1, OneWritten DEF VisitInterfaceDeclaration
      <3>2. CASE VisitClassDeclaration
        BY <3>2, OneWritten DEF VisitClassDeclaration
      <3>. QED BY <1>6, <3>1, <3>2
    <2>3. PICK s \in Seq(Fragment) : Emit(s) /\ Len(s) = 1 /\ s[1].part = "begin"
      BY <1>0, <2>2, OneAdded
    <2>4. \A i \in 1..Len(s) : i = 1
      BY <2>3
    <2>5. OpensBody(s)
      BY <2>3, <2>4 DEF OpensBody
    <2>. QED BY <1>5, <2>1, <2>3, <2>5
  <1>7. CASE EndBody
    <2>1. \E g : Emit(<<g>>) /\ g.part = "end"
      BY <1>7, OneWritten DEF EndBody
    <2>2. Visited.node \in {"EndFunction", "EndInterface"}
      BY <1>7 DEF EndBody, Visiting, Visited
    <2>3. PICK s \in Seq(Fragment) : Emit(s) /\ Len(s) = 1 /\ s[1].part = "end"
      BY <1>0, <2>1, OneAdded
    <2>. QED BY <2>2, <2>3 DEF Shape, EndsBody, Bodies, Ends
  <1>8. CASE EndClassDeclaration
    <2>. DEFINE g == fragment("end", "", "", "class")
    <2>1. /\ Emit(<<g>> \o deferredOutput) /\ deferredOutput \in Seq(Fragment)
          /\ Visited.node = "EndClass"
      BY <1>8 DEF EndClassDeclaration, Visiting, Visited, Inv, TypeOK
    <2>2. <<g>> \in Seq(Fragment)
      BY FragmentType, NameAssumption DEF Part, Form
    <2>3. g.part = "end"
      BY DEF fragment
    <2>. HIDE DEF g
    <2>4. <<g>> \o deferredOutput \in Seq(Fragment)
      BY <2>1, <2>2
    <2>. QED BY <2>1, <2>3, <2>4 DEF Shape, Bodies, Ends
  <1>9. CASE VisitMethodDeclaration
    <2>1. /\ Visited.id \in Name /\ Visited.type \in Name
          /\ Visited.arguments \in Seq(Parameter) /\ Visited.node = "MethodDeclaration"
      BY <1>9, VisitingNode, NodeShapes DEF VisitMethodDeclaration, MethodDeclaration, Inv
    <2>. DEFINE g == fragment("result", Visited.id, Visited.type, ResultType(Visited.type))
                h == fragment("begin", Visited.id, "", "function")
    <2>2. g.part = "result" /\ g \in Fragment /\ h.part = "begin" /\ h \in Fragment
      BY <2>1, FragmentType, FormTypes, NameAssumption DEF fragment, Part, Form
    <2>3. Parameters(Visited) \in Seq(Fragment) /\ AllQuiet(Parameters(Visited))
      BY <2>1, ParametersType, ParametersQuiet
    <2>4. Emit(<<g>> \o Parameters(Visited) \o <<h>>)
      BY <1>9 DEF VisitMethodDeclaration
    <2>. HIDE DEF g, h
    <2>5. <<g>> \in Seq(Fragment) /\ AllQuiet(<<g>>) /\ <<h>> \in Seq(Fragment)
      BY <2>2, OneQuiet
    <2>6. AllQuiet(<<g>> \o Parameters(Visited)) /\ <<g>> \o Parameters(Visited) \in Seq(Fragment)
      BY <2>3, <2>5, QuietJoined
    <2>7. OpensBody(<<h>>)
      BY <2>2, OpensAlone
    <2>8. /\ OpensBody(<<g>> \o Parameters(Visited) \o <<h>>)
          /\ <<g>> \o Parameters(Visited) \o <<h>> \in Seq(Fragment)
      BY <2>5, <2>6, <2>7, QuietJoined
    <2>9. Visited.node \in Bodies
      BY <2>1 DEF Bodies
    <2>. QED BY <1>5, <2>4, <2>8, <2>9
  <1>10. CASE VisitCtorDeclaration
    <2>1. /\ Visited.id \in Name /\ Visited.arguments \in Seq(Parameter)
          /\ Visited.node = "CtorDeclaration"
      BY <1>10, VisitingNode, NodeShapes DEF VisitCtorDeclaration, CtorDeclaration, Inv
    <2>. DEFINE g == fragment("base", baseClasses[Visited.id], "", "")
                base == IF Visited.hasBaseClassCtor THEN <<g>> ELSE <<>>
                h == fragment("begin", Visited.id, "", "function")
    <2>2. h.part = "begin" /\ h \in Fragment /\ g.part = "base"
      BY <2>1, FragmentType, NameAssumption DEF fragment, Part, Form
    <2>3. Parameters(Visited) \in Seq(Fragment) /\ AllQuiet(Parameters(Visited))
      BY <2>1, ParametersType, ParametersQuiet
    <2>4. Visited.hasBaseClassCtor => g \in Fragment
      <3>1. Visited.hasBaseClassCtor => baseClasses[Visited.id] \in Name
        BY <1>10, <2>1 DEF VisitCtorDeclaration, Translatable, Untranslatable, Throws,
             Inv, TypeOK
      <3>. QED BY <3>1, FragmentType, NameAssumption DEF Part
    <2>5. Emit(Parameters(Visited) \o base \o <<h>>)
      BY <1>10 DEF VisitCtorDeclaration
    <2>6. base \in Seq(Fragment) /\ AllQuiet(base)
      <3>. HIDE DEF g
      <3>1. AllQuiet(<<g>>)
        BY <2>2, OneQuiet
      <3>2. Visited.hasBaseClassCtor => <<g>> \in Seq(Fragment)
        BY <2>4, Singleton
      <3>3. <<>> \in Seq(Fragment) /\ AllQuiet(<<>>)
        BY DEF AllQuiet
      <3>. QED BY <3>1, <3>2, <3>3
    <2>. HIDE DEF base, g, h
    <2>7. OpensBody(<<h>>) /\ <<h>> \in Seq(Fragment)
      BY <2>2, OpensAlone
    <2>8. /\ AllQuiet(Parameters(Visited) \o base)
          /\ Parameters(Visited) \o base \in Seq(Fragment)
      BY <2>3, <2>6, QuietJoined
    <2>9. /\ OpensBody(Parameters(Visited) \o base \o <<h>>)
          /\ Parameters(Visited) \o base \o <<h>> \in Seq(Fragment)
      BY <2>7, <2>8, QuietJoined
    <2>10. Visited.node \in Bodies
      BY <2>1 DEF Bodies
    <2>. QED BY <1>5, <2>5, <2>9, <2>10
  <1>11. CASE VisitFunctionDeclaration
    <2>1. /\ Visited.id \in Name /\ Visited.type \in Name
          /\ Visited.arguments \in Seq(Parameter) /\ Visited.node = "FunctionDeclaration"
      BY <1>11, VisitingNode, NodeShapes DEF VisitFunctionDeclaration, FunctionDeclaration, Inv
    <2>. DEFINE g == fragment("functionResult", Visited.id, Visited.type,
                              FunctionResultType(Visited))
                list == IF Visited.id = "main" THEN <<>> ELSE Parameters(Visited)
                h == fragment("begin", Visited.id, "", "function")
                args == fragment("array", "args", "string", "IfcPLString")
                copied == IF Visited.id = "main" /\ Len(Visited.arguments) = 1
                          THEN <<args>> ELSE <<>>
    <2>2. /\ g.part = "functionResult" /\ g \in Fragment /\ h.part = "begin" /\ h \in Fragment
          /\ args.part = "array" /\ args \in Fragment
      BY <2>1, FragmentType, FormTypes, NameAssumption DEF fragment, Part, Form
    <2>3. Emit(<<g>> \o list \o <<h>> \o copied)
      BY <1>11 DEF VisitFunctionDeclaration
    <2>4. <<>> \in Seq(Fragment) /\ AllQuiet(<<>>)
      BY DEF AllQuiet
    <2>5. list \in Seq(Fragment) /\ AllQuiet(list)
      BY <2>1, <2>4, ParametersType, ParametersQuiet
    <2>6. copied \in Seq(Fragment) /\ AllQuiet(copied)
      <3>. HIDE DEF args
      <3>1. AllQuiet(<<args>>)
        BY <2>2, OneQuiet
      <3>2. <<args>> \in Seq(Fragment)
        BY <2>2, Singleton
      <3>. QED BY <2>4, <3>1, <3>2
    <2>. HIDE DEF g, list, h, args, copied
    <2>7. <<g>> \in Seq(Fragment) /\ AllQuiet(<<g>>)
      BY <2>2, OneQuiet
    <2>8. AllQuiet(<<g>> \o list) /\ <<g>> \o list \in Seq(Fragment)
      BY <2>5, <2>7, QuietJoined
    <2>9. OpensBody(<<h>> \o copied) /\ <<h>> \o copied \in Seq(Fragment) /\ <<h>> \in Seq(Fragment)
      BY <2>2, <2>6, BeginOpens
    <2>10. /\ OpensBody((<<g>> \o list) \o (<<h>> \o copied))
           /\ (<<g>> \o list) \o (<<h>> \o copied) \in Seq(Fragment)
      BY <2>8, <2>9, QuietJoined
    <2>11. (<<g>> \o list) \o (<<h>> \o copied) = <<g>> \o list \o <<h>> \o copied
      BY <2>6, <2>8, <2>9, JoinedInAnyOrder
    <2>12. Visited.node \in Bodies
      BY <2>1 DEF Bodies
    <2>. QED BY <1>5, <2>3, <2>10, <2>11, <2>12
  <1>. QED BY <1>2, <1>3, <1>4, <1>6, <1>7, <1>8, <1>9, <1>10, <1>11 DEF Visit

\* Static fields are initialised outside the class.
IsStaticField(n) == n.node = "ClassVariable" /\ n.isInitialised /\ n.isStatic

\* What a visit does to what waits, and to the names of the classes.
LEMMA VisitTables ==
    ASSUME Visit
    PROVE  /\ Visited.node = "EndClass" => deferredOutput' = <<>>
           /\ IsStaticField(Visited) =>
                 deferredOutput' = Append(deferredOutput,
                                          fragment("definition", Visited.id, Visited.type,
                                                   classNames[Len(classNames)]))
           /\ Visited.node # "EndClass" /\ ~IsStaticField(Visited) =>
                 deferredOutput' = deferredOutput
           /\ Visited.node = "ClassDeclaration" => classNames' = Append(classNames, Visited.id)
           /\ Visited.node # "ClassDeclaration" => classNames' = classNames
  <1>1. CASE EndClassDeclaration
    BY <1>1 DEF EndClassDeclaration, Visiting, Visited, IsStaticField
  <1>2. CASE VisitClassVariable
    BY <1>2 DEF VisitClassVariable, Visiting, Visited, IsStaticField
  <1>3. CASE VisitClassDeclaration
    BY <1>3 DEF VisitClassDeclaration, Visiting, Visited, IsStaticField
  <1>4. CASE ~EndClassDeclaration /\ ~VisitClassVariable /\ ~VisitClassDeclaration
    <2>1. Visited.node \notin {"EndClass", "ClassVariable", "ClassDeclaration"}
      BY <1>4 DEF Visit, Visiting, Visited, VisitModuleStatement, VisitSchemaImport,
           VisitLibraryImport, VisitEnumerationDeclaration, VisitInterfaceDeclaration,
           VisitInterfaceMethod, VisitClassArray, VisitMethodDeclaration,
           VisitCtorDeclaration, VisitFunctionDeclaration, EndBody, VisitVariableDeclaration,
           VisitArrayDeclaration, VisitMemberAccess, VisitNestedAccess, VisitArrayAccess,
           VisitNewExpression
    <2>2. UNCHANGED <<classNames, deferredOutput>>
      BY <1>4 DEF Visit, tables, VisitModuleStatement, VisitSchemaImport,
           VisitLibraryImport, VisitEnumerationDeclaration, VisitInterfaceDeclaration,
           VisitInterfaceMethod, VisitClassArray, VisitMethodDeclaration,
           VisitCtorDeclaration, VisitFunctionDeclaration, EndBody, VisitVariableDeclaration,
           VisitArrayDeclaration, VisitMemberAccess, VisitNestedAccess, VisitArrayAccess,
           VisitNewExpression
    <2>. QED BY <2>1, <2>2 DEF IsStaticField
  <1>. QED BY <1>1, <1>2, <1>3, <1>4

\* What is written at the end of a class.
LEMMA ClassEndParts ==
    ASSUME TypeOK, DefinitionsWait, NEW s \in Seq(Fragment), out' = out \o s,
           NEW g, g.part = "end", s = <<g>> \o deferredOutput
    PROVE  /\ Parts("begin")' = Parts("begin")
           /\ Parts("end")' = Parts("end") \union {Len(out) + 1}
           /\ Cardinality(Parts("end")') = Cardinality(Parts("end")) + 1
           /\ Parts("definition")' = Parts("definition") \union
                 (Len(out) + 2)..(Len(out) + 1 + Len(deferredOutput))
           /\ Cardinality(Parts("definition")') =
                 Cardinality(Parts("definition")) + Len(deferredOutput)
           /\ Len(out') = Len(out) + 1 + Len(deferredOutput)
           /\ \A k \in 1..Len(deferredOutput) : out'[Len(out) + 1 + k] = deferredOutput[k]
  <1>1. g.part = "end"
    OBVIOUS
  <1>2. /\ Len(out) \in Nat /\ Len(s) \in Nat /\ deferredOutput \in Seq(Fragment)
        /\ out \in Seq(Fragment)
    <2>1. deferredOutput \in Seq(Fragment)
      BY DEF TypeOK
    <2>. QED BY <2>1, WalkShape
  <1>3. Len(deferredOutput) \in Nat /\ s = <<g>> \o deferredOutput
    BY <1>2
  <1>4. /\ Len(s) = 1 + Len(deferredOutput) /\ s[1] = g
        /\ \A k \in 1..Len(deferredOutput) : s[1 + k] = deferredOutput[k]
    BY <1>2, <1>3
  <1>5. \A i \in 1..Len(s) : i # 1 => i - 1 \in 1..Len(deferredOutput) /\ i = 1 + (i - 1)
    BY <1>2, <1>3, <1>4
  <1>6. \A i \in 1..Len(s) : i # 1 => s[i].part = "definition"
    BY <1>4, <1>5 DEF DefinitionsWait
  <1>7. 1 \in 1..Len(s)
    BY <1>3, <1>4
  <1>8. Parts("begin")' = Parts("begin")
    <2>1. \A i \in 1..Len(s) : s[i].part # "begin"
      BY <1>1, <1>4, <1>6
    <2>. QED BY <2>1, PartKept
  <1>9. /\ Parts("end")' = Parts("end") \union {Len(out) + 1}
        /\ Cardinality(Parts("end")') = Cardinality(Parts("end")) + 1
    <2>1. s[1].part = "end" /\ \A i \in 1..Len(s) : i # 1 => s[i].part # "end"
      BY <1>1, <1>4, <1>6
    <2>. QED BY <1>7, <2>1, PartAdded
  <1>10. Parts("definition")' = Parts("definition") \union
                 (Len(out) + 2)..(Len(out) + 1 + Len(deferredOutput))
    <2>1. ASSUME NEW i \in (Len(out) + 1)..(Len(out) + Len(s))
          PROVE  s[i - Len(out)].part = "definition" <=>
                    i \in (Len(out) + 2)..(Len(out) + 1 + Len(deferredOutput))
      <3>1. i - Len(out) \in 1..Len(s)
        BY <1>2
      <3>2. CASE i - Len(out) = 1
        <4>1. i \notin (Len(out) + 2)..(Len(out) + 1 + Len(deferredOutput))
          BY <1>2, <3>2
        <4>. QED BY <1>1, <1>4, <3>2, <4>1
      <3>3. CASE i - Len(out) # 1
        <4>1. i \in (Len(out) + 2)..(Len(out) + 1 + Len(deferredOutput))
          BY <1>2, <1>3, <1>4, <3>1, <3>3
        <4>. QED BY <1>6, <3>1, <3>3, <4>1
      <3>. QED BY <3>2, <3>3
    <2>2. {i \in (Len(out) + 1)..(Len(out) + Len(s)) : s[i - Len(out)].part = "definition"}
             = (Len(out) + 2)..(Len(out) + 1 + Len(deferredOutput))
      <3>1. (Len(out) + 2)..(Len(out) + 1 + Len(deferredOutput))
               \subseteq (Len(out) + 1)..(Len(out) + Len(s))
        BY <1>2, <1>3, <1>4
      <3>. QED BY <2>1, <3>1
    <2>3. Parts("definition")' = Parts("definition") \union
             {i \in (Len(out) + 1)..(Len(out) + Len(s)) : s[i - Len(out)].part = "definition"}
      BY PartsAdded
    <2>. QED BY <2>2, <2>3
  <1>11. Cardinality(Parts("definition")') =
                 Cardinality(Parts("definition")) + Len(deferredOutput)
    <2>. DEFINE N == (Len(out) + 2)..(Len(out) + 1 + Len(deferredOutput))
    <2>1. IsFiniteSet(N) /\ Cardinality(N) = Len(deferredOutput)
      <3>1. PICK a, b \in Int : a = Len(out) + 2 /\ b = Len(out) + 1 + Len(deferredOutput)
        BY <1>2, <1>3
      <3>2. IsFiniteSet(a..b) /\ Cardinality(a..b) = IF a > b THEN 0 ELSE b - a + 1
        BY FS_Interval
      <3>3. (a > b => Len(deferredOutput) = 0) /\ b - a + 1 = Len(deferredOutput)
        BY <1>2, <1>3, <3>1
      <3>. QED BY <3>1, <3>2, <3>3
    <2>2. /\ IsFiniteSet(Parts("definition")) /\ Parts("definition") \subseteq 1..Len(out)
          /\ Cardinality(Parts("definition")) \in Nat
      BY PartsAdded
    <2>3. Parts("definition") \cap N = {}
      <3>1. 1..Len(out) \cap N = {}
        BY <1>2
      <3>. QED BY <2>2, <3>1
    <2>4. Parts("definition")' = Parts("definition") \union N
      BY <1>10
    <2>. HIDE DEF N
    <2>5. Cardinality(Parts("definition") \union N) =
             Cardinality(Parts("definition")) + Cardinality(N)
      <3>1. Cardinality(Parts("definition") \union N) =
               Cardinality(Parts("definition")) + Cardinality(N)
                   - Cardinality(Parts("definition") \cap N)
        BY <2>1, <2>2, FS_Union
      <3>2. Cardinality(Parts("definition") \cap N) = 0
        BY <2>3, FS_EmptySet
      <3>3. Cardinality(Parts("definition")) \in Nat /\ Cardinality(N) \in Nat
        BY <2>1, <2>2, FS_CardinalityType
      <3>. QED BY <3>1, <3>2, <3>3
    <2>. QED BY <2>1, <2>4, <2>5
  <1>12. /\ Len(out') = Len(out) + 1 + Len(deferredOutput)
         /\ \A k \in 1..Len(deferredOutput) : out'[Len(out) + 1 + k] = deferredOutput[k]
    <2>1. Len(out') = Len(out) + Len(s) /\ \A i \in 1..Len(s) : out'[Len(out) + i] = s[i]
      BY <1>2
    <2>2. \A k \in 1..Len(deferredOutput) :
             1 + k \in 1..Len(s) /\ Len(out) + 1 + k = Len(out) + (1 + k)
      BY <1>2, <1>3, <1>4
    <2>3. Len(out') = Len(out) + 1 + Len(deferredOutput)
      BY <1>2, <1>3, <1>4, <2>1
    <2>. QED BY <1>4, <2>1, <2>2, <2>3
  <1>. QED BY <1>8, <1>9, <1>10, <1>11, <1>12

\* What a visit does to the bodies and definitions in the file.
LEMMA VisitParts ==
    ASSUME Inv, Written, Visit
    PROVE  /\ Visited.node \in Bodies =>
                 /\ Cardinality(Parts("begin")') = Cardinality(Parts("begin")) + 1
                 /\ Parts("end")' = Parts("end")
           /\ Visited.node \in Ends =>
                 /\ Parts("begin")' = Parts("begin")
                 /\ Cardinality(Parts("end")') = Cardinality(Parts("end")) + 1
           /\ Visited.node \notin Bodies \union Ends =>
                 Parts("begin")' = Parts("begin") /\ Parts("end")' = Parts("end")
           /\ Visited.node # "EndClass" => Parts("definition")' = Parts("definition")
  <1>1. PICK s \in Seq(Fragment) : Emit(s) /\ Shape(s)
    BY VisitShape
  <1>2. TypeOK /\ out' = out \o s /\ Len(s) \in Nat
    BY <1>1 DEF Inv, Emit
  <1>3. CASE Visited.node \in Bodies
    <2>1. PICK k \in 1..Len(s) :
             s[k].part = "begin" /\ \A i \in 1..Len(s) : i # k => Quiet(s[i])
      BY <1>1, <1>3 DEF Shape, OpensBody
    <2>2. \A i \in 1..Len(s) : /\ i # k => s[i].part # "begin"
                               /\ s[i].part # "end" /\ s[i].part # "definition"
      BY <2>1 DEF Quiet
    <2>3. Cardinality(Parts("begin")') = Cardinality(Parts("begin")) + 1
      BY <1>2, <2>1, <2>2, PartAdded
    <2>4. Parts("end")' = Parts("end") /\ Parts("definition")' = Parts("definition")
      BY <1>2, <2>2, PartKept
    <2>. QED BY <1>3, <2>3, <2>4 DEF Bodies, Ends
  <1>4. CASE Visited.node \in {"EndFunction", "EndInterface"}
    <2>1. Len(s) = 1 /\ s[1].part = "end"
      BY <1>1, <1>4 DEF Shape, EndsBody
    <2>2. 1 \in 1..Len(s) /\ \A i \in 1..Len(s) : i = 1
      BY <2>1
    <2>3. Cardinality(Parts("end")') = Cardinality(Parts("end")) + 1
      BY <1>2, <2>1, <2>2, PartAdded
    <2>4. Parts("begin")' = Parts("begin") /\ Parts("definition")' = Parts("definition")
      BY <1>2, <2>1, <2>2, PartKept
    <2>. QED BY <1>4, <2>3, <2>4 DEF Bodies, Ends
  <1>5. CASE Visited.node = "EndClass"
    <2>1. PICK g : g.part = "end" /\ s = <<g>> \o deferredOutput
      BY <1>1, <1>5 DEF Shape
    <2>2. /\ Parts("begin")' = Parts("begin")
          /\ Cardinality(Parts("end")') = Cardinality(Parts("end")) + 1
      BY <1>2, <2>1, ClassEndParts DEF Written
    <2>. QED BY <1>5, <2>2 DEF Bodies, Ends
  <1>6. CASE Visited.node \notin Bodies \union Ends
    <2>1. \A i \in 1..Len(s) :
             s[i].part # "begin" /\ s[i].part # "end" /\ s[i].part # "definition"
      BY <1>1, <1>6 DEF Shape, AllQuiet, Quiet
    <2>2. /\ Parts("begin")' = Parts("begin") /\ Parts("end")' = Parts("end")
          /\ Parts("definition")' = Parts("definition")
      BY <1>2, <2>1, PartKept
    <2>. QED BY <1>6, <2>2 DEF Bodies, Ends
  <1>. QED BY <1>3, <1>4, <1>5, <1>6 DEF Ends

-----------------------------------------------------------------------------
(* What a visit does to the invariant.                                        *)

\* Where the walk is when it visits a node.
LEMMA VisitPlace ==
    ASSUME Inv, Visit
    PROVE  /\ TypeOK /\ Len(program) \in Nat /\ next \in 1..Len(program) /\ next \in Nat
           /\ next - 1 \in Nat /\ (next - 1) + 1 = next /\ next' - 1 = next
           /\ next' = next + 1 /\ program' = program /\ Visited = program[next]
  <1>1. TypeOK /\ Len(program) \in Nat
    BY ProgramShape DEF Inv
  <1>2. next' = next + 1 /\ program' = program /\ next \in 1..Len(program)
    BY VisitMoves
  <1>. QED BY <1>1, <1>2 DEF Visited

\* What is said of the program stays so.
LEMMA SameStatics ==
    ASSUME program' = program
    PROVE  /\ StaticFields' = StaticFields /\ (HasLocalClasses' <=> HasLocalClasses)
           /\ \A n : StaticFieldsBefore(n)' = StaticFieldsBefore(n)
           /\ \A c, n : LastClass(c, n)' <=> LastClass(c, n)
           /\ \A f, c : DefinitionOf(f, c)' = DefinitionOf(f, c)
  <1>1. \A kind, n : Nodes(kind, n)' = Nodes(kind, n)
    BY DEF Nodes
  <1>2. StaticFields' = StaticFields
    BY <1>1 DEF StaticFields
  <1>3. HasLocalClasses' <=> HasLocalClasses
    BY <1>1 DEF HasLocalClasses
  <1>4. \A n : StaticFieldsBefore(n)' = StaticFieldsBefore(n)
    BY <1>2 DEF StaticFieldsBefore
  <1>5. \A c, n : LastClass(c, n)' <=> LastClass(c, n)
    BY DEF LastClass
  <1>6. \A f, c : DefinitionOf(f, c)' = DefinitionOf(f, c)
    BY DEF DefinitionOf
  <1>. QED BY <1>2, <1>3, <1>4, <1>5, <1>6

\* One field more, or not.
LEMMA StaticFieldsStep ==
    ASSUME TypeOK, NEW n \in 1..Len(program)
    PROVE  /\ Cardinality(StaticFieldsBefore(n)) \in Nat
           /\ IsStaticField(program[n]) =>
                 /\ StaticFieldsBefore(n + 1) = StaticFieldsBefore(n) \union {n}
                 /\ Cardinality(StaticFieldsBefore(n + 1)) =
                       Cardinality(StaticFieldsBefore(n)) + 1
           /\ ~IsStaticField(program[n]) => StaticFieldsBefore(n + 1) = StaticFieldsBefore(n)
  <1>1. Len(program) \in Nat
    BY ProgramShape
  <1>2. StaticFields \subseteq 1..Len(program)
    BY DEF StaticFields, Nodes
  <1>3. \A f \in 1..Len(program) : f < n + 1 <=> (f < n \/ f = n)
    BY <1>1
  <1>4. n \in StaticFields <=> IsStaticField(program[n])
    BY DEF StaticFields, Nodes, IsStaticField
  <1>5. IsFiniteSet(StaticFieldsBefore(n)) /\ Cardinality(StaticFieldsBefore(n)) \in Nat
    <2>1. IsFiniteSet(1..Len(program))
      BY <1>1, FS_Interval
    <2>2. StaticFieldsBefore(n) \subseteq 1..Len(program)
      BY <1>2 DEF StaticFieldsBefore
    <2>. QED BY <2>1, <2>2, FS_Subset, FS_CardinalityType
  <1>6. ASSUME IsStaticField(program[n])
        PROVE  /\ StaticFieldsBefore(n + 1) = StaticFieldsBefore(n) \union {n}
               /\ Cardinality(StaticFieldsBefore(n + 1)) = Cardinality(StaticFieldsBefore(n)) + 1
    <2>1. StaticFieldsBefore(n + 1) = StaticFieldsBefore(n) \union {n}
      BY <1>2, <1>3, <1>4, <1>6 DEF StaticFieldsBefore
    <2>2. n \notin StaticFieldsBefore(n)
      <3>1. ~(n < n)
        BY <1>1
      <3>. QED BY <3>1 DEF StaticFieldsBefore
    <2>. QED BY <1>5, <2>1, <2>2, FS_AddElement
  <1>7. ASSUME ~IsStaticField(program[n])
        PROVE  StaticFieldsBefore(n + 1) = StaticFieldsBefore(n)
    BY <1>2, <1>3, <1>4, <1>7 DEF StaticFieldsBefore
  <1>. QED BY <1>5, <1>6, <1>7

\* The bodies of the file stay those of the program.
LEMMA BalancedVisit ==
    ASSUME Inv, Written, Visit, Balanced
    PROVE  Balanced'
  <1>1. /\ Cardinality(Parts("begin")) \in Nat /\ Cardinality(Parts("end")) \in Nat
        /\ TypeOK
    <2>1. PICK s \in Seq(Fragment) : out' = out \o s
      BY VisitShape DEF Emit
    <2>. QED BY <2>1, PartsAdded DEF Inv
  <1>2. PICK n \in Nat : n = next - 1
    BY VisitPlace
  <1>3. n + 1 = next /\ next' - 1 = next /\ program' = program /\ Visited = program[n + 1]
    BY <1>2, VisitPlace
  <1>4. Cardinality(Parts("begin")) - Cardinality(Parts("end")) = Depth(program, n)
    BY <1>2 DEF Balanced
  <1>5. Depth(program, n) \in Int
    BY DepthStep
  <1>6. Cardinality(Parts("begin")') - Cardinality(Parts("end")') = Depth(program, n + 1)
    <2>1. CASE Visited.node \in Bodies
      <3>1. Depth(program, n + 1) = Depth(program, n) + 1
        BY <1>3, <2>1, DepthStep
      <3>2. /\ Cardinality(Parts("begin")') = Cardinality(Parts("begin")) + 1
            /\ Parts("end")' = Parts("end")
        BY <2>1, VisitParts
      <3>. QED BY <1>1, <1>4, <1>5, <3>1, <3>2
    <2>2. CASE Visited.node \in Ends
      <3>1. Depth(program, n + 1) = Depth(program, n) - 1
        BY <1>3, <2>2, DepthStep
      <3>2. /\ Cardinality(Parts("end")') = Cardinality(Parts("end")) + 1
            /\ Parts("begin")' = Parts("begin")
        BY <2>2, VisitParts
      <3>. QED BY <1>1, <1>4, <1>5, <3>1, <3>2
    <2>3. CASE Visited.node \notin Bodies \union Ends
      <3>1. Depth(program, n + 1) = Depth(program, n)
        BY <1>3, <2>3, DepthStep
      <3>2. Parts("begin")' = Parts("begin") /\ Parts("end")' = Parts("end")
        BY <2>3, VisitParts
      <3>. QED BY <1>4, <3>1, <3>2
    <2>. QED BY <2>1, <2>2, <2>3
  <1>. QED BY <1>3, <1>6 DEF Balanced

\* The definitions in the file and those that wait stay as many as the fields.
LEMMA AccountedVisit ==
    ASSUME Inv, Written, Visit, Accounted
    PROVE  Accounted'
  <1>1. PICK s \in Seq(Fragment) : Emit(s) /\ Shape(s)
    BY VisitShape
  <1>2. TypeOK /\ out' = out \o s /\ DefinitionsWait
    BY <1>1 DEF Inv, Emit, Written
  <1>3. deferredOutput \in Seq(Fragment)
    BY DEF Inv, TypeOK
  <1>4. Len(deferredOutput) \in Nat /\ Cardinality(Parts("definition")) \in Nat
    BY <1>2, <1>3, PartsAdded
  <1>5. /\ next \in 1..Len(program) /\ next' = next + 1 /\ program' = program
        /\ Visited = program[next]
    BY VisitPlace
  <1>6. Cardinality(StaticFieldsBefore(next)) \in Nat
    BY <1>2, <1>5, StaticFieldsStep
  <1>7. Accounted' <=> Cardinality(Parts("definition")') + Len(deferredOutput')
                          = Cardinality(StaticFieldsBefore(next + 1))
    <2>1. \A n : StaticFieldsBefore(n)' = StaticFieldsBefore(n)
      BY <1>5, SameStatics
    <2>2. StaticFieldsBefore(next)' = StaticFieldsBefore(next')
      BY <1>5, SameStatics DEF StaticFieldsBefore
    <2>. QED BY <1>5, <2>2 DEF Accounted
  <1>8. CASE Visited.node = "EndClass"
    <2>1. PICK g : g.part = "end" /\ s = <<g>> \o deferredOutput
      BY <1>1, <1>8 DEF Shape
    <2>2. Cardinality(Parts("definition")') = Cardinality(Parts("definition")) + Len(deferredOutput)
      BY <1>2, <2>1, ClassEndParts
    <2>3. deferredOutput' = <<>> /\ Len(<<>>) = 0
      BY <1>8, VisitTables
    <2>4. StaticFieldsBefore(next + 1) = StaticFieldsBefore(next)
      BY <1>2, <1>5, <1>8, StaticFieldsStep DEF IsStaticField
    <2>. QED BY <1>4, <1>7, <2>2, <2>3, <2>4 DEF Accounted
  <1>9. CASE IsStaticField(Visited)
    <2>1. Parts("definition")' = Parts("definition")
      BY <1>9, VisitParts DEF IsStaticField
    <2>2. PICK d : deferredOutput' = Append(deferredOutput, d)
      BY <1>9, VisitTables
    <2>3. Len(deferredOutput') = Len(deferredOutput) + 1
      BY <1>3, <2>2
    <2>4. Cardinality(StaticFieldsBefore(next + 1)) = Cardinality(StaticFieldsBefore(next)) + 1
      BY <1>2, <1>5, <1>9, StaticFieldsStep
    <2>. QED BY <1>4, <1>6, <1>7, <2>1, <2>3, <2>4 DEF Accounted
  <1>10. CASE Visited.node # "EndClass" /\ ~IsStaticField(Visited)
    <2>1. Parts("definition")' = Parts("definition") /\ deferredOutput' = deferredOutput
      BY <1>10, VisitParts, VisitTables
    <2>2. StaticFieldsBefore(next + 1) = StaticFieldsBefore(next)
      BY <1>2, <1>5, <1>10, StaticFieldsStep
    <2>. QED BY <1>7, <2>1, <2>2 DEF Accounted
  <1>. QED BY <1>8, <1>9, <1>10

\* What a class declaration at depth 0 means for what stands in it.
LEMMA OutsideAfterClass ==
    ASSUME Inv, Visit, Visited.node = "EndClass", ~HasLocalClasses
    PROVE  Depth(program, next) = 0
  <1>1. /\ TypeOK /\ next \in 1..Len(program) /\ Visited = program[next] /\ Len(program) \in Nat
        /\ Bracketed(program)
    BY VisitPlace, ProgramBracketed
  <1>2. PICK b \in 1..(next - 1) :
           program[b].node = "ClassDeclaration" /\ Encloses(program, b, next)
    BY <1>1, Enclosed DEF Around
  <1>3. b \in 1..Len(program) /\ b - 1 \in Nat /\ (b - 1) + 1 = b /\ b - 1 \in 0..Len(program)
    BY <1>1
  <1>4. next - 1 \in Nat /\ (next - 1) + 1 = next
    BY <1>1
  <1>5. Depth(program, b - 1) = 0
    <2>1. ~(Depth(program, b - 1) > 0)
      BY <1>2, <1>3 DEF HasLocalClasses, Nodes
    <2>2. Depth(program, b - 1) >= 0 /\ Depth(program, b - 1) \in Int
      BY <1>1, <1>3, DepthStep DEF Bracketed
    <2>. QED BY <2>1, <2>2
  <1>6. Depth(program, b) = 1
    <2>1. program[(b - 1) + 1].node \in Bodies
      BY <1>2, <1>3 DEF Bodies
    <2>2. Depth(program, (b - 1) + 1) = Depth(program, b - 1) + 1
      BY <1>3, <2>1, DepthStep
    <2>. QED BY <1>3, <1>5, <2>2
  <1>7. Depth(program, next - 1) = 1
    BY <1>2, <1>6 DEF Encloses
  <1>8. Depth(program, (next - 1) + 1) = Depth(program, next - 1) - 1
    <2>1. program[(next - 1) + 1].node \in Ends
      BY <1>1, <1>4 DEF Ends
    <2>. QED BY <1>4, <2>1, DepthStep
  <1>. QED BY <1>4, <1>7, <1>8

\* At the place of a definition that is written at the end of a class, as many
\* bodies are open as at the end of the file.
LEMMA OpenAtDefinition ==
    ASSUME TypeOK, DefinitionsWait, NEW s \in Seq(Fragment), out' = out \o s,
           NEW g, g.part = "end", s = <<g>> \o deferredOutput,
           NEW d \in (Len(out) + 2)..(Len(out) + 1 + Len(deferredOutput))
    PROVE  OpenIn(d)' = Cardinality(Parts("begin")') - Cardinality(Parts("end")')
  <1>1. Len(out) \in Nat
    BY WalkShape
  <1>2. Parts("begin")' = Parts("begin") /\ Parts("end")' = Parts("end") \union {Len(out) + 1}
    BY ClassEndParts
  <1>3. \A part : Parts(part) \subseteq 1..Len(out)
    BY DEF Parts
  <1>4. \A i \in 1..Len(out) \union {Len(out) + 1} : i <= d
    BY <1>1
  <1>5. \A i \in Parts("begin") \union Parts("end") \union {Len(out) + 1} : i <= d
    BY <1>3, <1>4
  <1>6. /\ {i \in Parts("begin")' : i <= d} = Parts("begin")'
        /\ {i \in Parts("end")' : i <= d} = Parts("end")'
    BY <1>2, <1>5
  <1>. QED BY <1>6 DEF OpenIn

\* Fields are defined outside of all bodies.
LEMMA DefinedOutsideVisit ==
    ASSUME Inv, Written, Visit, Balanced, DefinedOutside
    PROVE  DefinedOutside'
  <1>1. PICK s \in Seq(Fragment) : Emit(s) /\ Shape(s)
    BY VisitShape
  <1>2. TypeOK /\ out' = out \o s /\ DefinitionsWait
    BY <1>1 DEF Inv, Emit, Written
  <1>3. /\ next \in 1..Len(program) /\ next' - 1 = next /\ program' = program
        /\ Visited = program[next]
    BY VisitPlace
  <1>4. SUFFICES ASSUME ~HasLocalClasses, NEW d, d \in Parts("definition")'
                 PROVE  OpenIn(d)' = 0
    <2>1. HasLocalClasses' <=> HasLocalClasses
      BY <1>3, SameStatics
    <2>. QED BY <2>1 DEF DefinedOutside
  <1>5. CASE d \in Parts("definition")
    <2>1. d \in 1..Len(out) /\ OpenIn(d) = 0
      BY <1>4, <1>5 DEF DefinedOutside, Parts
    <2>2. OpenIn(d)' = OpenIn(d)
      BY <1>2, <2>1, OpenStays
    <2>. QED BY <2>1, <2>2
  <1>6. CASE d \notin Parts("definition")
    <2>1. Visited.node = "EndClass"
      BY <1>4, <1>6, VisitParts
    <2>2. PICK g : g.part = "end" /\ s = <<g>> \o deferredOutput
      BY <1>1, <2>1 DEF Shape
    <2>3. d \in (Len(out) + 2)..(Len(out) + 1 + Len(deferredOutput))
      BY <1>2, <1>4, <1>6, <2>2, ClassEndParts
    <2>4. OpenIn(d)' = Cardinality(Parts("begin")') - Cardinality(Parts("end")')
      BY <1>2, <2>2, <2>3, OpenAtDefinition
    <2>5. Cardinality(Parts("begin")') - Cardinality(Parts("end")') = Depth(program, next)
      BY <1>3, BalancedVisit DEF Balanced
    <2>6. Depth(program, next) = 0
      BY <1>4, <2>1, OutsideAfterClass
    <2>. QED BY <2>4, <2>5, <2>6
  <1>. QED BY <1>5, <1>6

\* A field stands in a class.
LEMMA FieldStandsInClass ==
    ASSUME TypeOK, NEW i \in 1..Len(program), program[i].node = "ClassVariable"
    PROVE  \E c \in 1..(i - 1) :
              program[c].node = "ClassDeclaration" /\ Encloses(program, c, i)
  BY Enclosed DEF Around

\* The class entered last gives its name to the fields that follow.
LEMMA ClassEnteredVisit ==
    ASSUME Inv, Visit, ClassEntered
    PROVE  ClassEntered'
  <1>1. /\ TypeOK /\ next \in 1..Len(program) /\ next' = next + 1 /\ program' = program
        /\ Visited = program[next] /\ Len(program) \in Nat /\ next \in Nat
    BY VisitPlace
  <1>2. classNames \in Seq(Name)
    BY <1>1 DEF TypeOK
  <1>3. \A c, n : LastClass(c, n)' <=> LastClass(c, n)
    BY <1>1, SameStatics
  <1>4. SUFFICES ASSUME \E c \in 1..next : program[c].node = "ClassDeclaration"
                 PROVE  /\ Len(classNames') > 0
                        /\ \E c \in 1..Len(program) :
                              /\ LastClass(c, next + 1)
                              /\ classNames'[Len(classNames')] = program[c].id
    <2>1. next' - 1 = next
      BY <1>1
    <2>2. \A c : LastClass(c, next)' <=> LastClass(c, next + 1)
      BY <1>1 DEF LastClass
    <2>. QED BY <1>1, <2>1, <2>2 DEF ClassEntered
  <1>5. CASE Visited.node = "ClassDeclaration"
    <2>1. classNames' = Append(classNames, Visited.id)
      BY <1>5, VisitTables
    <2>2. Len(classNames') = Len(classNames) + 1 /\ Len(classNames) \in Nat
          /\ classNames'[Len(classNames) + 1] = Visited.id
      BY <1>2, <2>1
    <2>3. Len(classNames') > 0
      BY <2>2
    <2>4. LastClass(next, next + 1)
      <3>1. next \in 1..((next + 1) - 1) /\ (next + 1)..((next + 1) - 1) = {}
        BY <1>1
      <3>. QED BY <1>1, <1>5, <3>1 DEF LastClass
    <2>. QED BY <1>1, <2>2, <2>3, <2>4
  <1>6. CASE Visited.node # "ClassDeclaration"
    <2>1. PICK a \in 1..(next - 1) : program[a].node = "ClassDeclaration"
      <3>1. \A c \in 1..next : c = next \/ c \in 1..(next - 1)
        BY <1>1
      <3>. QED BY <1>1, <1>4, <1>6, <3>1
    <2>2. PICK c \in 1..Len(program) :
             LastClass(c, next) /\ classNames[Len(classNames)] = program[c].id
      BY <2>1 DEF ClassEntered
    <2>3. Len(classNames) > 0 /\ classNames' = classNames
      BY <1>6, <2>1, VisitTables DEF ClassEntered
    <2>4. LastClass(c, next + 1)
      <3>1. c \in 1..((next + 1) - 1)
        BY <1>1, <2>2 DEF LastClass
      <3>2. \A k \in (c + 1)..((next + 1) - 1) : k = next \/ k \in (c + 1)..(next - 1)
        BY <1>1, <2>2
      <3>. QED BY <1>1, <1>6, <2>2, <3>1, <3>2 DEF LastClass
    <2>. QED BY <2>2, <2>3, <2>4
  <1>. QED BY <1>5, <1>6

\* Every field passed is defined, or waits to be, as one of its class.
LEMMA NoneLostVisit ==
    ASSUME Inv, Written, Visit, NoneLost, ClassEntered
    PROVE  NoneLost'
  <1>1. PICK s \in Seq(Fragment) : Emit(s) /\ Shape(s)
    BY VisitShape
  <1>2. TypeOK /\ out' = out \o s /\ DefinitionsWait
    BY <1>1 DEF Inv, Emit, Written
  <1>3. /\ next \in 1..Len(program) /\ next' = next + 1 /\ program' = program
        /\ Visited = program[next] /\ next \in Nat
    BY VisitPlace
  <1>4. out \in Seq(Fragment) /\ deferredOutput \in Seq(Fragment)
    BY <1>2 DEF TypeOK
  <1>5. Len(out) \in Nat /\ Len(deferredOutput) \in Nat /\ Len(s) \in Nat
    BY <1>4
  <1>6. Len(out') = Len(out) + Len(s) /\ \A d \in 1..Len(out) : out'[d] = out[d]
    BY <1>2, <1>4, <1>5
  <1>7. \A d \in 1..Len(out) : d \in 1..Len(out')
    BY <1>5, <1>6
  <1>8. SUFFICES
          ASSUME NEW f \in StaticFieldsBefore(next + 1)
          PROVE  \E c \in 1..Len(program) :
                    /\ LastClass(c, f)
                    /\ \/ \E d \in 1..Len(out') : out'[d] = DefinitionOf(f, c)
                       \/ \E d \in 1..Len(deferredOutput') : deferredOutput'[d] = DefinitionOf(f, c)
    <2>1. StaticFieldsBefore(next)' = StaticFieldsBefore(next + 1)
      BY <1>3, SameStatics DEF StaticFieldsBefore
    <2>2. /\ \A c, n : LastClass(c, n)' <=> LastClass(c, n)
          /\ \A e, c : DefinitionOf(e, c)' = DefinitionOf(e, c)
      BY <1>3, SameStatics
    <2>. QED BY <1>3, <2>1, <2>2 DEF NoneLost
  <1>9. CASE f \in StaticFieldsBefore(next)
    <2>1. PICK c \in 1..Len(program) :
             /\ LastClass(c, f)
             /\ \/ \E d \in 1..Len(out) : out[d] = DefinitionOf(f, c)
                \/ \E d \in 1..Len(deferredOutput) : deferredOutput[d] = DefinitionOf(f, c)
      BY <1>9 DEF NoneLost
    <2>2. CASE \E d \in 1..Len(out) : out[d] = DefinitionOf(f, c)
      BY <1>6, <1>7, <2>1, <2>2
    <2>3. CASE \E d \in 1..Len(deferredOutput) : deferredOutput[d] = DefinitionOf(f, c)
      <3>1. PICK d \in 1..Len(deferredOutput) : deferredOutput[d] = DefinitionOf(f, c)
        BY <2>3
      <3>2. CASE Visited.node = "EndClass"
        <4>1. PICK g : g.part = "end" /\ s = <<g>> \o deferredOutput
          BY <1>1, <3>2 DEF Shape
        <4>2. /\ Len(out') = Len(out) + 1 + Len(deferredOutput)
              /\ out'[Len(out) + 1 + d] = deferredOutput[d]
          BY <1>2, <4>1, ClassEndParts
        <4>3. Len(out) + 1 + d \in 1..Len(out')
          BY <1>5, <4>2
        <4>. QED BY <2>1, <3>1, <4>2, <4>3
      <3>3. CASE Visited.node # "EndClass"
        <4>1. deferredOutput' = deferredOutput \/ \E e : deferredOutput' = Append(deferredOutput, e)
          BY <3>3, VisitTables
        <4>2. ASSUME NEW e, deferredOutput' = Append(deferredOutput, e)
              PROVE  d \in 1..Len(deferredOutput') /\ deferredOutput'[d] = deferredOutput[d]
          <5>1. /\ Len(deferredOutput') = Len(deferredOutput) + 1
                /\ deferredOutput'[d] = deferredOutput[d]
            BY <1>4, <4>2
          <5>. QED BY <1>5, <5>1
        <4>3. d \in 1..Len(deferredOutput') /\ deferredOutput'[d] = deferredOutput[d]
          BY <4>1, <4>2
        <4>. QED BY <2>1, <3>1, <4>3
      <3>. QED BY <3>2, <3>3
    <2>. QED BY <2>1, <2>2, <2>3
  <1>10. CASE f \notin StaticFieldsBefore(next)
    <2>1. f = next /\ IsStaticField(Visited)
      BY <1>2, <1>3, <1>8, <1>10, StaticFieldsStep
    <2>2. PICK a \in 1..(next - 1) : program[a].node = "ClassDeclaration"
      BY <1>2, <1>3, <2>1, FieldStandsInClass DEF IsStaticField
    <2>3. PICK c \in 1..Len(program) :
             LastClass(c, next) /\ classNames[Len(classNames)] = program[c].id
      BY <2>2 DEF ClassEntered
    <2>4. deferredOutput' = Append(deferredOutput, DefinitionOf(next, c))
      BY <1>3, <2>1, <2>3, VisitTables DEF DefinitionOf
    <2>5. /\ Len(deferredOutput) + 1 \in 1..Len(deferredOutput')
          /\ deferredOutput'[Len(deferredOutput) + 1] = DefinitionOf(next, c)
      <3>1. PICK e : e = DefinitionOf(next, c)
        OBVIOUS
      <3>. QED BY <1>4, <1>5, <2>4, <3>1
    <2>. QED BY <2>1, <2>3, <2>5
  <1>. QED BY <1>9, <1>10

\* What waits, waits in a class that is still open.
LEMMA WaitingVisit ==
    ASSUME Inv, Visit, WaitingInClass
    PROVE  WaitingInClass'
  <1>1. /\ TypeOK /\ next \in 1..Len(program) /\ next' = next + 1 /\ program' = program
        /\ Visited = program[next] /\ next \in Nat /\ next - 1 \in Nat /\ (next - 1) + 1 = next
    BY VisitPlace
  <1>2. SUFFICES ASSUME deferredOutput' # <<>>
                 PROVE  \E c \in 1..next :
                           /\ program[c].node = "ClassDeclaration"
                           /\ \A j \in c..next : Depth(program, j) >= Depth(program, c)
    <2>1. next' - 1 = next
      BY <1>1
    <2>. QED BY <1>1, <2>1 DEF WaitingInClass
  <1>3. Visited.node # "EndClass"
    BY <1>2, VisitTables
  <1>4. PICK c \in 1..(next - 1) :
           /\ program[c].node = "ClassDeclaration"
           /\ \A j \in c..(next - 1) : Depth(program, j) >= Depth(program, c)
    <2>1. CASE IsStaticField(Visited)
      BY <1>1, <2>1, FieldStandsInClass DEF IsStaticField, Encloses
    <2>2. CASE ~IsStaticField(Visited)
      BY <1>2, <1>3, <2>2, VisitTables DEF WaitingInClass
    <2>. QED BY <2>1, <2>2
  <1>5. \A n \in Nat : Depth(program, n) \in Int
    BY DepthStep
  <1>6. c \in Nat /\ c - 1 \in Nat /\ (c - 1) + 1 = c /\ next - 1 \in c..(next - 1)
    BY <1>1
  <1>7. Depth(program, next) >= Depth(program, c)
    <2>1. Depth(program, next - 1) >= Depth(program, c)
      BY <1>4, <1>6
    <2>2. CASE Visited.node \in Bodies
      <3>1. Depth(program, (next - 1) + 1) = Depth(program, next - 1) + 1
        BY <1>1, <2>2, DepthStep
      <3>. QED BY <1>1, <1>5, <1>6, <2>1, <3>1
    <2>3. CASE Visited.node \notin Bodies \union Ends
      <3>1. Depth(program, (next - 1) + 1) = Depth(program, next - 1)
        BY <1>1, <2>3, DepthStep
      <3>. QED BY <1>1, <2>1, <3>1
    <2>4. CASE Visited.node \in Ends
      <3>1. Visited.node \in {"EndFunction", "EndInterface"}
        BY <1>3, <2>4 DEF Ends
      <3>2. PICK b \in 1..(next - 1) :
               program[b].node \in Around[Visited.node] /\ Encloses(program, b, next)
        BY <1>1, <3>1, Enclosed DEF Around
      <3>3. program[b].node # "ClassDeclaration"
        BY <3>1, <3>2 DEF Around
      <3>4. Depth(program, (next - 1) + 1) = Depth(program, next - 1) - 1
        BY <1>1, <2>4, DepthStep
      <3>5. /\ b \in Nat /\ b - 1 \in Nat /\ (b - 1) + 1 = b /\ b # c
            /\ program[(b - 1) + 1].node \in Bodies /\ program[(c - 1) + 1].node \in Bodies
        <4>1. b \in Nat /\ b - 1 \in Nat /\ (b - 1) + 1 = b
          BY <1>1
        <4>. QED BY <1>4, <1>6, <3>2, <3>3, <4>1 DEF Encloses, Bodies
      <3>6. /\ Depth(program, b) = Depth(program, b - 1) + 1
            /\ Depth(program, c) = Depth(program, c - 1) + 1
        BY <1>6, <3>5, DepthStep
      <3>7. /\ Depth(program, next - 1) = Depth(program, b)
            /\ \A j \in b..(next - 1) : Depth(program, j) >= Depth(program, b)
        BY <3>2 DEF Encloses
      <3>8. ~(b <= c - 1 /\ Depth(program, c) = Depth(program, b))
        <4>. SUFFICES ASSUME b <= c - 1, Depth(program, c) = Depth(program, b) PROVE FALSE
          OBVIOUS
        <4>1. c - 1 \in b..(next - 1)
          BY <1>6, <3>5
        <4>2. Depth(program, c - 1) >= Depth(program, b)
          BY <3>7, <4>1
        <4>. QED BY <1>5, <1>6, <3>5, <3>6, <4>2
      <3>9. ~(c <= b - 1 /\ Depth(program, c) = Depth(program, b))
        <4>. SUFFICES ASSUME c <= b - 1, Depth(program, c) = Depth(program, b) PROVE FALSE
          OBVIOUS
        <4>1. b - 1 \in c..(next - 1)
          BY <1>6, <3>5
        <4>2. Depth(program, b - 1) >= Depth(program, c)
          BY <1>4, <4>1
        <4>. QED BY <1>5, <1>6, <3>5, <3>6, <4>2
      <3>10. b <= c - 1 \/ c <= b - 1
        BY <1>6, <3>5
      <3>11. Depth(program, c) # Depth(program, b)
        BY <3>8, <3>9, <3>10
      <3>. QED BY <1>1, <1>5, <1>6, <2>1, <3>4, <3>5, <3>7, <3>11
    <2>. QED BY <2>2, <2>3, <2>4
  <1>8. c \in 1..next /\ \A j \in c..next : j = next \/ j \in c..(next - 1)
    BY <1>1
  <1>. QED BY <1>4, <1>7, <1>8

\* A visit keeps all of it.
LEMMA StaticsVisit ==
    ASSUME Inv, Written, Statics, Visit
    PROVE  Statics'
  <1>1. Balanced' /\ Accounted' /\ DefinedOutside'
    BY BalancedVisit, AccountedVisit, DefinedOutsideVisit DEF Statics
  <1>2. NoneLost' /\ WaitingInClass' /\ ClassEntered'
    BY NoneLostVisit, WaitingVisit, ClassEnteredVisit DEF Statics
  <1>. QED BY <1>1, <1>2 DEF Statics

\* A walk that begins has written no body and no definition.
Fresh ==
    /\ TypeOK /\ next = 1 /\ deferredOutput = <<>>
    /\ \A i \in 1..Len(out) : out[i].part = "forward"

LEMMA FreshStatics == Fresh => Statics
  <1>. SUFFICES ASSUME Fresh PROVE Statics
    OBVIOUS
  <1>1. /\ Parts("begin") = {} /\ Parts("end") = {} /\ Parts("definition") = {}
    BY DEF Fresh, Parts
  <1>2. next = 1 /\ deferredOutput = <<>> /\ TypeOK
    BY DEF Fresh
  <1>3. 1..(next - 1) = {} /\ next - 1 = 0 /\ Len(deferredOutput) = 0
    BY <1>2
  <1>4. StaticFieldsBefore(next) = {}
    <2>1. Len(program) \in Nat
      BY <1>2, ProgramShape
    <2>2. \A f \in 1..Len(program) : ~(f < 1)
      BY <2>1
    <2>. QED BY <1>2, <2>2 DEF StaticFieldsBefore, StaticFields, Nodes
  <1>5. Balanced
    <2>1. PICK none : none = Cardinality({})
      OBVIOUS
    <2>2. none = 0
      BY <2>1, FS_EmptySet
    <2>3. Depth(program, next - 1) = 0
      BY <1>3, DepthOfNone
    <2>4. Cardinality(Parts("begin")) = 0 /\ Cardinality(Parts("end")) = 0
      BY <1>1, <2>1, <2>2
    <2>. QED BY <2>3, <2>4 DEF Balanced
  <1>6. Accounted
    <2>1. Cardinality(Parts("definition")) = 0 /\ Cardinality(StaticFieldsBefore(next)) = 0
      BY <1>1, <1>4, FS_EmptySet
    <2>. QED BY <1>3, <2>1 DEF Accounted
  <1>7. DefinedOutside /\ NoneLost
    BY <1>1, <1>4 DEF DefinedOutside, NoneLost
  <1>8. WaitingInClass /\ ClassEntered
    BY <1>2, <1>3 DEF WaitingInClass, ClassEntered
  <1>. QED BY <1>5, <1>6, <1>7, <1>8 DEF Statics

\* The same of the state a step leads to.
LEMMA FreshStaticsNext == Fresh' => Statics'
  BY FreshStatics, PTL

\* A step that adds quiet fragments at most and stays where it is.
LEMMA StaticsStay ==
    ASSUME Inv, Statics, NEW s \in Seq(Fragment), Emit(s), AllQuiet(s),
           UNCHANGED <<program, next, classNames, deferredOutput>>
    PROVE  Statics'
  <1>1. TypeOK /\ out' = out \o s
    BY DEF Inv, Emit
  <1>2. \A i \in 1..Len(s) : s[i].part # "begin" /\ s[i].part # "end" /\ s[i].part # "definition"
    BY DEF AllQuiet, Quiet
  <1>3. /\ Parts("begin")' = Parts("begin") /\ Parts("end")' = Parts("end")
        /\ Parts("definition")' = Parts("definition")
    BY <1>1, <1>2, PartKept
  <1>4. Balanced'
    BY <1>3 DEF Statics, Balanced
  <1>5. Accounted'
    <2>1. StaticFieldsBefore(next)' = StaticFieldsBefore(next)
      BY SameStatics DEF StaticFieldsBefore
    <2>. QED BY <1>3, <2>1 DEF Statics, Accounted
  <1>6. DefinedOutside'
    <2>1. ASSUME NEW d \in Parts("definition")
          PROVE  OpenIn(d)' = OpenIn(d)
      <3>1. d \in 1..Len(out)
        BY DEF Parts
      <3>. QED BY <1>1, <3>1, OpenStays
    <2>2. HasLocalClasses' <=> HasLocalClasses
      BY SameStatics
    <2>. QED BY <1>3, <2>1, <2>2 DEF Statics, DefinedOutside
  <1>7. NoneLost'
    <2>1. \A d \in 1..Len(out) : d \in 1..Len(out') /\ out'[d] = out[d]
      <3>1. out \in Seq(Fragment) /\ Len(out) \in Nat /\ Len(s) \in Nat
        BY <1>1, WalkShape
      <3>. QED BY <1>1, <3>1
    <2>2. StaticFieldsBefore(next)' = StaticFieldsBefore(next)
      BY SameStatics DEF StaticFieldsBefore
    <2>3. /\ \A c, n : LastClass(c, n)' <=> LastClass(c, n)
          /\ \A e, c : DefinitionOf(e, c)' = DefinitionOf(e, c)
      BY SameStatics
    <2>. QED BY <2>1, <2>2, <2>3 DEF Statics, NoneLost
  <1>8. WaitingInClass' /\ ClassEntered'
    BY SameStatics DEF Statics, WaitingInClass, ClassEntered, LastClass
  <1>. QED BY <1>4, <1>5, <1>6, <1>7, <1>8 DEF Statics

\* A step that writes nothing.
LEMMA StaticsSilent ==
    ASSUME Inv, Statics, UNCHANGED <<program, next, out, classNames, deferredOutput>>
    PROVE  Statics'
  <1>1. PICK s \in Seq(Fragment) : Emit(s) /\ AllQuiet(s)
    BY NoneAdded DEF Inv
  <1>. QED BY <1>1, StaticsStay

-----------------------------------------------------------------------------
(* The invariant, and the fields.                                             *)

StaticsInv == OutputInv /\ Statics

LEMMA InitialStatics == Init => StaticsInv
  <1>. SUFFICES ASSUME Init PROVE StaticsInv
    OBVIOUS
  <1>1. OutputInv
    BY InitialOutput
  <1>2. TypeOK
    BY <1>1 DEF OutputInv, Inv
  <1>3. next = 1 /\ out = <<>> /\ deferredOutput = <<>>
    BY DEF Init
  <1>4. \A i \in 1..Len(out) : FALSE
    BY <1>3
  <1>5. Fresh
    BY <1>2, <1>3, <1>4 DEF Fresh
  <1>. QED BY <1>1, <1>5, FreshStatics DEF StaticsInv

\* Every step keeps it.
LEMMA NextStatics == StaticsInv /\ [Next]_vars => StaticsInv'
  <1>. SUFFICES ASSUME OutputInv, Statics, [Next]_vars PROVE OutputInv' /\ Statics'
    BY DEF StaticsInv
  <1>1. OutputInv' /\ Inv /\ Written /\ TypeOK'
    BY NextOutput DEF OutputInv, Inv
  <1>2. CASE \/ RefuseCommandLine \/ RefuseSourceFile \/ yyerror \/ RefuseCharLiteral
             \/ UNCHANGED vars \/ (Fail /\ UNCHANGED files)
             \/ generateCMakeListsFile \/ ReportException
    <2>1. UNCHANGED <<program, next, out, classNames, deferredOutput>>
      BY <1>2 DEF RefuseCommandLine, RefuseSourceFile, yyerror, Refuse, RefuseCharLiteral, vars,
           transformVars, input, tables, Fail, generateCMakeListsFile, ReportException
    <2>. QED BY <1>1, <2>1, StaticsSilent
  <1>3. CASE StartPass1 \/ StartPass2
    <2>1. PICK c \in Seq(Name) : /\ next' = 1 /\ deferredOutput' = <<>>
                                 /\ out' = writeClassForwardDeclarations(c)
      <3>1. CASE StartPass1
        <4>1. <<>> \in Seq(Name)
          OBVIOUS
        <4>. QED BY <3>1, <4>1 DEF StartPass1, Construct
      <3>2. CASE StartPass2
        BY <1>1, <3>2 DEF StartPass2, Construct, Inv, TypeOK
      <3>. QED BY <1>3, <3>1, <3>2
    <2>2. /\ Len(out') = Len(c)
          /\ \A i \in 1..Len(c) : out'[i].part = "forward"
      BY <2>1, ForwardsShape
    <2>3. Fresh'
      BY <1>1, <2>1, <2>2 DEF Fresh
    <2>. QED BY <1>1, <2>3, FreshStaticsNext
  <1>4. CASE EndPass1 \/ EndPass2
    <2>. DEFINE g == fragment("factory", moduleName, "", "")
                written == IF bIArbitraryTransitionCurveImport THEN <<g>> ELSE <<>>
    <2>1. /\ Emit(written)
          /\ UNCHANGED <<program, next, classNames, deferredOutput>>
      BY <1>4 DEF EndPass1, EndPass2, writeEpilog, input, tables
    <2>2. g \in Fragment /\ g.part = "factory"
      BY <1>1, FragmentType, NameAssumption DEF Inv, TypeOK, Part, fragment
    <2>3. written \in Seq(Fragment) /\ AllQuiet(written)
      <3>. HIDE DEF g
      <3>1. AllQuiet(<<g>>)
        BY <2>2, OneQuiet
      <3>2. <<g>> \in Seq(Fragment)
        BY <2>2, Singleton
      <3>3. <<>> \in Seq(Fragment) /\ AllQuiet(<<>>)
        BY DEF AllQuiet
      <3>. QED BY <3>1, <3>2, <3>3
    <2>. HIDE DEF written
    <2>. QED BY <1>1, <2>1, <2>3, StaticsStay
  <1>5. CASE Visit /\ UNCHANGED files
    BY <1>1, <1>5, StaticsVisit
  <1>. QED BY <1>1, <1>2, <1>3, <1>4, <1>5 DEF Next

\* The bodies and the static fields of every program are accounted for in
\* every walk.
THEOREM StaticsInvariantHolds == Spec => []StaticsInv
  BY InitialStatics, NextStatics, PTL DEF Spec

\* At the end of the program no definition waits.
LEMMA NothingWaits ==
    ASSUME TypeOK, WaitingInClass, next = Len(program) + 1
    PROVE  deferredOutput = <<>>
  <1>. SUFFICES ASSUME deferredOutput # <<>> PROVE FALSE
    OBVIOUS
  <1>1. PICK n \in Nat : n = Len(program)
    BY ProgramShape
  <1>2. next - 1 = n
    BY <1>1
  <1>3. PICK c \in 1..n :
           /\ program[c].node = "ClassDeclaration"
           /\ \A j \in c..n : Depth(program, j) >= Depth(program, c)
    BY <1>2 DEF WaitingInClass
  <1>4. PICK b \in Nat : b = c - 1
    OBVIOUS
  <1>5. b + 1 = c /\ b \in 0..n /\ n \in c..n
    BY <1>4
  <1>6. Bracketed(program)
    BY ProgramBracketed
  <1>7. Depth(program, n) = 0 /\ Depth(program, b) >= 0
    BY <1>1, <1>5, <1>6 DEF Bracketed
  <1>8. program[b + 1].node \in Bodies
    BY <1>3, <1>5 DEF Bodies
  <1>9. Depth(program, b) \in Int /\ Depth(program, b + 1) = Depth(program, b) + 1
    BY <1>8, DepthStep
  <1>10. Depth(program, n) >= Depth(program, b + 1)
    BY <1>3, <1>5
  <1>. QED BY <1>7, <1>9, <1>10

\* At the end of the program every field has been passed.
LEMMA FieldsPassed ==
    ASSUME TypeOK, next = Len(program) + 1
    PROVE  StaticFieldsBefore(next) = StaticFields
  <1>1. PICK n \in Nat : n = Len(program)
    BY ProgramShape
  <1>2. \A f \in 1..n : f < n + 1
    OBVIOUS
  <1>3. next = n + 1
    BY <1>1
  <1>. QED BY <1>1, <1>2, <1>3 DEF StaticFieldsBefore, StaticFields, Nodes

\* The class entered last before a field is the last one up to it.
LEMMA ClassOfField ==
    ASSUME TypeOK, NEW f \in StaticFields, NEW c, LastClass(c, f)
    PROVE  /\ c \in 1..(f - 1) /\ program[c].node = "ClassDeclaration"
           /\ \A k \in (c + 1)..f : program[k].node # "ClassDeclaration"
  <1>1. f \in 1..Len(program) /\ program[f].node # "ClassDeclaration"
    BY DEF StaticFields, Nodes
  <1>2. f \in Nat
    BY <1>1, ProgramShape
  <1>3. c \in 1..(f - 1)
    BY DEF LastClass
  <1>4. \A k \in (c + 1)..f : k = f \/ k \in (c + 1)..(f - 1)
    BY <1>2, <1>3
  <1>. QED BY <1>1, <1>4 DEF LastClass

\* Then as many fields are defined as there are.
LEMMA AsManyDefined ==
    ASSUME TypeOK, Accounted, deferredOutput = <<>>, StaticFieldsBefore(next) = StaticFields
    PROVE  Cardinality(Parts("definition")) = Cardinality(StaticFields)
  <1>1. PICK defined \in Nat : defined = Cardinality(Parts("definition"))
    BY PartsFinite
  <1>2. Len(deferredOutput) = 0
    OBVIOUS
  <1>3. defined + 0 = Cardinality(StaticFields)
    BY <1>1, <1>2 DEF Accounted
  <1>. QED BY <1>1, <1>3

\* And each is defined, as a field of its class.
LEMMA EachDefined ==
    ASSUME TypeOK, NoneLost, deferredOutput = <<>>, StaticFieldsBefore(next) = StaticFields,
           NEW f \in StaticFields
    PROVE  \E d \in Parts("definition"), c \in 1..(f - 1) :
              /\ program[c].node = "ClassDeclaration"
              /\ \A k \in (c + 1)..f : program[k].node # "ClassDeclaration"
              /\ out[d] = DefinitionOf(f, c)
  <1>1. \A d \in 1..Len(deferredOutput) : FALSE
    OBVIOUS
  <1>2. PICK c \in 1..Len(program) :
           LastClass(c, f) /\ \E d \in 1..Len(out) : out[d] = DefinitionOf(f, c)
    BY <1>1 DEF NoneLost
  <1>3. PICK d \in 1..Len(out) : out[d] = DefinitionOf(f, c)
    BY <1>2
  <1>4. DefinitionOf(f, c).part = "definition"
    BY DEF DefinitionOf, fragment
  <1>5. d \in Parts("definition")
    BY <1>3, <1>4 DEF Parts
  <1>6. /\ c \in 1..(f - 1) /\ program[c].node = "ClassDeclaration"
        /\ \A k \in (c + 1)..f : program[k].node # "ClassDeclaration"
    BY <1>2, ClassOfField
  <1>. QED BY <1>3, <1>5, <1>6

\* In the .cpp file of every program without local classes each initialised
\* static field is defined exactly once, as a field of the class it is declared
\* in and outside of all bodies.
THEOREM StaticsDefinedHolds == Spec => []StaticsDefined
  <1>1. StaticsInv => StaticsDefined
    <2>. SUFFICES ASSUME OutputInv, Statics, phase = "pass2 done", ~HasLocalClasses
                  PROVE  StaticsDefined
      BY DEF StaticsInv, StaticsDefined
    <2>1. TypeOK /\ PhasesAgree
      BY DEF OutputInv, Inv, Knowledge
    <2>2. next = Len(program) + 1
      BY <2>1 DEF PhasesAgree
    <2>3. Accounted /\ DefinedOutside /\ NoneLost /\ WaitingInClass
      BY DEF Statics
    <2>4. deferredOutput = <<>>
      BY <2>1, <2>2, <2>3, NothingWaits
    <2>5. StaticFieldsBefore(next) = StaticFields
      BY <2>1, <2>2, FieldsPassed
    <2>6. Cardinality(Parts("definition")) = Cardinality(StaticFields)
      BY <2>1, <2>3, <2>4, <2>5, AsManyDefined
    <2>7. \A d \in Parts("definition") : OpenIn(d) = 0
      BY <2>3 DEF DefinedOutside
    <2>8. \A f \in StaticFields : \E d \in Parts("definition"), c \in 1..(f - 1) :
             /\ program[c].node = "ClassDeclaration"
             /\ \A k \in (c + 1)..f : program[k].node # "ClassDeclaration"
             /\ out[d] = DefinitionOf(f, c)
      BY <2>1, <2>3, <2>4, <2>5, EachDefined
    <2>. QED BY <2>6, <2>7, <2>8 DEF StaticsDefined, DefinitionOf
  <1>. QED BY <1>1, StaticsInvariantHolds, PTL
==============================================================================
