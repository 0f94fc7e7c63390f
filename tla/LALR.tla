-------------------------------- MODULE LALR --------------------------------
(* The parse tables bison makes of a grammar: the LR(0) automaton, with the  *)
(* LALR(1) lookaheads of its reductions, conflicts resolved as bison         *)
(* resolves them.  A state is its kernel, a set of items; an item <<n, d>>   *)
(* is rule n with the dot behind d symbols.                                  *)
EXTENDS Naturals, Sequences, FiniteSets, FiniteSetsExt, Functions, TLC

CONSTANTS
    Rules,        \* a sequence of records with the fields lhs and rhs
    StartSymbol,  \* %start
    OtherTokens,  \* the tokens that are declared but occur in no rule
    Levels        \* %left, the weakest first: a sequence of sets of terminals

EOF == "$end"

\* The function f itself.  TLC computes the values of the result once, and those
\* of f each time they are asked for.
Table(f) == f @@ <<>>

\* Rule 0 is the one bison adds.
Lhs(n) == IF n = 0 THEN "$accept" ELSE Rules[n].lhs
Rhs(n) == IF n = 0 THEN <<StartSymbol, EOF>> ELSE Rules[n].rhs
RuleNumbers == 0..Len(Rules)

Nonterminals == {Lhs(n) : n \in RuleNumbers}
Symbols == Nonterminals \union UNION {Range(Rhs(n)) : n \in RuleNumbers}
Terminals == (Symbols \ Nonterminals) \union OtherTokens
RulesOf == Table([A \in Nonterminals |-> {n \in RuleNumbers : Lhs(n) = A}])

Nullable == {A \in Nonterminals : \E n \in RulesOf[A] : Rhs(n) = <<>>}

-----------------------------------------------------------------------------
\* The LR(0) automaton.

\* What a derivation from A can begin with.
Leftmost[found \in SUBSET Nonterminals] ==
    LET more == UNION {{Rhs(n)[1] : n \in {m \in RulesOf[A] : Rhs(m) # <<>>}} : A \in found}
                \intersect Nonterminals
    IN  IF more \subseteq found THEN found ELSE Leftmost[found \union more]
LeftCorner == Table([A \in Nonterminals |-> Leftmost[{A}]])

AfterDot(item) == Rhs(item[1])[item[2] + 1]
Complete(item) == item[2] = Len(Rhs(item[1]))

Closure(kernel) ==
    LET next == {AfterDot(item) : item \in {x \in kernel : ~Complete(x)}} \intersect Nonterminals
    IN  kernel \union {<<n, 0>> : n \in UNION {RulesOf[B] : B \in UNION {LeftCorner[A] : A \in next}}}

\* Behind each symbol, the kernel of the state it leads to.
Moves(kernel) ==
    LET open == {item \in Closure(kernel) : ~Complete(item)}
    IN  Table([X \in {AfterDot(item) : item \in open} |->
            {<<item[1], item[2] + 1>> : item \in {x \in open : AfterDot(x) = X}}])

Items == RuleNumbers \X Nat

Reachable[done \in SUBSET SUBSET Items, new \in SUBSET SUBSET Items] ==
    IF new = {} THEN done
    ELSE LET all == done \union new
         IN  Reachable[all, UNION {Range(Moves(k)) : k \in new} \ all]

States  == Reachable[{}, {{<<0, 0>>}}]
Initial == {<<0, 0>>}

ItemsOf == Table([q \in States |-> Closure(q)])

\* Where each symbol leads: shifts and gotos.
Transitions == Table([q \in States |-> Moves(q)])
Final == Transitions[Transitions[Initial][StartSymbol]][EOF]

\* The states from which a step leads to q, and those from which d steps do.
Predecessors ==
    LET steps == UNION {{<<p, Transitions[p][X]>> : X \in DOMAIN Transitions[p]} : p \in States}
    IN  Table([q \in States |-> {step[1] : step \in {t \in steps : t[2] = q}}])

Back[qs \in SUBSET States, d \in Nat] ==
    IF d = 0 THEN qs ELSE Back[UNION {Predecessors[q] : q \in qs}, d - 1]

-----------------------------------------------------------------------------
\* Lookaheads, after DeRemer and Pennello.

NullableRest(n, d) == \A j \in (d + 1)..Len(Rhs(n)) : Rhs(n)[j] \in Nullable

\* The transitions on nonterminals, <<state, nonterminal>>.
Gotos == UNION {{<<q, A>> : A \in DOMAIN Transitions[q] \intersect Nonterminals} : q \in States}

\* What can be read directly after a goto.
Reads == Table([g \in Gotos |-> DOMAIN Transitions[Transitions[g[1]][g[2]]] \intersect Terminals])

\* The gotos whose lookahead is lookahead of g as well: g ends a rule of theirs,
\* or they begin behind g and may be empty.
Includes ==
    Table([g \in Gotos |->
        LET q == Transitions[g[1]][g[2]] IN
        {<<q, A>> : A \in DOMAIN Transitions[q] \intersect Nullable}
        \union UNION {{<<p, Lhs(item[1])>> : p \in Back[{g[1]}, item[2] - 1]} :
                      item \in {x \in q : NullableRest(x[1], x[2]) /\ x[1] # 0}}])

Propagate[follow \in [Gotos -> SUBSET Terminals]] ==
    LET more == [g \in Gotos |-> follow[g] \union UNION {follow[h] : h \in Includes[g]}]
    IN  IF more = follow THEN follow ELSE Propagate[more]
Follow == Propagate[Reads]

\* The reductions of each state, with their lookaheads.
Reductions ==
    Table([q \in States |->
        Table([n \in {item[1] : item \in {x \in ItemsOf[q] : Complete(x) /\ x[1] # 0}} |->
            UNION {Follow[<<p, Lhs(n)>>] : p \in Back[{q}, Len(Rhs(n))]}])])

-----------------------------------------------------------------------------
\* Conflicts.

\* 0 is no precedence.  A rule has that of its last terminal.
LevelOf(t) == Max({0} \union {l \in DOMAIN Levels : t \in Levels[l]})
RuleLevel(n) ==
    LET terminals == {j \in DOMAIN Rhs(n) : Rhs(n)[j] \in Terminals}
    IN  IF terminals = {} THEN 0 ELSE LevelOf(Rhs(n)[Max(terminals)])

\* Seeded fault: on a tie the shift wins, as %right would have it.
ReducesRight(n, t) == RuleLevel(n) # 0 /\ LevelOf(t) # 0 /\ RuleLevel(n) > LevelOf(t)

\* With precedences on both sides the stronger wins, on a tie (%left) the
\* reduction; without, the shift.
Reduces(n, t) == RuleLevel(n) # 0 /\ LevelOf(t) # 0 /\ RuleLevel(n) >= LevelOf(t)

ShiftTo(q)  == [op |-> "shift", state |-> q, rule |-> 0]
ReduceBy(n) == [op |-> "reduce", state |-> {}, rule |-> n]
ErrorAction == [op |-> "error", state |-> {}, rule |-> 0]

\* Of two reductions, that of the earlier rule.
Action ==
    Table([q \in States |->
        LET rules(t) == {n \in DOMAIN Reductions[q] : t \in Reductions[q][n]}
        IN  Table([t \in Terminals |->
                IF t \in DOMAIN Transitions[q] /\ \A n \in rules(t) : ~Reduces(n, t)
                THEN ShiftTo(Transitions[q][t])
                ELSE IF rules(t) # {} THEN ReduceBy(Min(rules(t))) ELSE ErrorAction])])

\* Default reductions: the one with the most lookaheads left, 0 for none.
Default ==
    Table([q \in States |->
        LET rules    == DOMAIN Reductions[q]
            count(n) == Cardinality({t \in Terminals : Action[q][t] = ReduceBy(n)})
        IN  IF rules = {} THEN 0 ELSE Min({n \in rules : \A m \in rules : count(n) >= count(m)})])

\* Seeded fault: shifts are not looked at.
ConsistentDespiteShifts == {q \in States : Cardinality(DOMAIN Reductions[q]) = 1}

\* In a consistent state it is the only action, and no token is read.
Consistent == {q \in States : DOMAIN Transitions[q] = {} /\ Cardinality(DOMAIN Reductions[q]) = 1}

\* What bison writes into the parser.
Tables == [goto |-> Transitions, action |-> Action, default |-> Default,
           consistent |-> Consistent, final |-> Final]
=============================================================================
