----------------------------- MODULE NodeTyping -----------------------------
(* What the actions of a grammar make, in a union that does not say what it  *)
(* holds (parser.y 14-49): whether every node is of the class it is read as  *)
(* can be told from the rules, one at a time.                                *)
EXTENDS Derivation, Grammar, NodeClasses

\* The value of phrase i is a node constructed as its class is; it has a null pointer
\* only where the visits test for one; each other part is of the class it is read
\* as, and the value of a nonterminal found before.
NodeFits(found, i) ==
    LET e == found[i].value IN
    /\ Constructed(e)
    /\ \A j \in DOMAIN e.parts :
        IF IsNull(e.parts[j]) THEN PartOf(e, j).optional
        ELSE /\ Fits(e.parts[j], PartOf(e, j).class)
             /\ \E h \in 1..(i - 1) : found[h].symbol \in Nonterminals /\ found[h].value = e.parts[j]

\* Of a file that is accepted every node the actions made fits, and has none but
\* such nodes below it: no visit of the tree reads members of a class the node is
\* not of, or follows a null pointer (the union of parser.y 14-49, default actions
\* of yacc.c 1641, and the constructors and visits of node.h).  Excepted, in a build
\* without assertions, is a file with an escape that char_literal does not know
\* (parser.y 108-115): there a std::string* is read as an Expression*.
NodesFit ==
    result = "accepted" /\ NoneAsserted(phrases) =>
        \A i \in 1..Len(phrases) : phrases[i].symbol \in Nonterminals => NodeFits(phrases, i)

-----------------------------------------------------------------------------
(* Rule by rule.  kinds[A] are the kinds of node that values of A may be of.  *)

LeftHandSides == {Lhs(n) : n \in RuleNumbers \ {0}}

\* A node of a kind, for what does not depend on its text and parts.
Blank(kind) == Node(kind, "", <<>>)

\* Whatever an A is, it may be read as class.
AllFit(kinds, A, class) ==
    A \in DOMAIN kinds /\ \A kind \in kinds[A] : Fits(Blank(kind), class)

\* What is handed on is the value of a nonterminal, and no news to the left side.
HandsOn(kinds, rule) ==
    /\ rule.parts[1] \in 1..Len(rule.rhs)
    /\ rule.rhs[rule.parts[1]] \in DOMAIN kinds
    /\ kinds[rule.rhs[rule.parts[1]]] \subseteq kinds[rule.lhs]

\* The first symbol is the list the element is added to, whatever list it is.
Adds(kinds, rule) ==
    /\ 1 \in 1..Len(rule.rhs) /\ rule.rhs[1] = rule.lhs
    /\ rule.parts[1] \in 1..Len(rule.rhs)
    /\ \A kind \in kinds[rule.lhs] :
        /\ ClassOf(Blank(kind)).each
        /\ AllFit(kinds, rule.rhs[rule.parts[1]], ClassOf(Blank(kind)).parts[1].class)

\* The class does not depend on the text of a token.
Constructs(kinds, rule) ==
    LET class == ClassOf(Node(rule.kind, rule.text, <<>>)) IN
    /\ rule.kind \in kinds[rule.lhs]
    /\ rule.parts \in Seq(0..Len(rule.rhs))
    /\ rule.text = "$1" => rule.kind \in DOMAIN Classes
    /\ class.each \/ Len(rule.parts) = Len(class.parts)
    /\ \A j \in 1..Len(rule.parts) :
        LET part == class.parts[IF class.each THEN 1 ELSE j] IN
        IF rule.parts[j] = 0 THEN part.optional
        ELSE AllFit(kinds, rule.rhs[rule.parts[j]], part.class)

ActionTyped(kinds, rule) ==
    CASE rule.kind = "pass"   -> HandsOn(kinds, rule)
      [] rule.kind = "append" -> Adds(kinds, rule)
      [] OTHER -> Constructs(kinds, rule)

\* No action makes a null pointer a value of its own.
ActionsTyped(kinds) ==
    /\ DOMAIN kinds = LeftHandSides
    /\ \A A \in LeftHandSides : "nullptr" \notin kinds[A]
    /\ \A n \in RuleNumbers \ {0} : ActionTyped(kinds, Rules[n])
=============================================================================
