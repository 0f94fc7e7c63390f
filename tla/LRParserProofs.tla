--------------------------- MODULE LRParserProofs ---------------------------
(* yyparse() never moves its stack pointers out of its stacks, and accepts   *)
(* only what the rules derive, whatever the grammar, its conflicts and the   *)
(* file.                                                                     *)
EXTENDS NodeTyping, WellFoundedInduction, TLAPS

-----------------------------------------------------------------------------
(* The invariant.                                                            *)

\* There is room for what a push adds.
Room ==
    /\ Len(yyvs) = Len(yyss) - 1
    /\ yystacksize <= YYMAXDEPTH
    /\ Len(yyss) <= yystacksize
    /\ label = "yybackup" => Len(yyss) < yystacksize

\* Where the dot of an item has moved over d symbols, the state d below has the
\* item with the dot d symbols before.
ItemsBelow(stack) ==
    \A j \in 1..Len(stack) : \A item \in ItemsOf[stack[j]] : \A d \in 0..item[2] :
        /\ j - d >= 1
        /\ <<item[1], item[2] - d>> \in ItemsOf[stack[j - d]]

IInv == TypeOK /\ Room /\ ItemsBelow(yyss)

-----------------------------------------------------------------------------
(* Sequences.                                                                *)

\* A sequence is one over any set that has its elements.
LEMMA SequenceOver ==
    ASSUME NEW S, NEW s \in Seq(S), NEW R, \A j \in 1..Len(s) : s[j] \in R
    PROVE  s \in Seq(R)
OBVIOUS

\* Append makes a sequence of whatever it appends.
LEMMA AppendRange ==
    ASSUME NEW s, s \in Seq(Range(s)), NEW v
    PROVE  /\ Append(s, v) \in Seq(Range(Append(s, v)))
           /\ Len(Append(s, v)) = Len(s) + 1
<1> DEFINE t == Append(s, v)
<1>1. s \in Seq(Range(s) \union {v})
  BY DEF Range
<1>2. t \in Seq(Range(s) \union {v}) /\ Len(t) = Len(s) + 1
  BY <1>1
<1> HIDE DEF t
<1>3. \A j \in 1..Len(t) : t[j] \in Range(t)
  BY <1>2 DEF Range
<1>4. t \in Seq(Range(t))
  BY <1>2, <1>3, SequenceOver
<1> QED BY <1>2, <1>4 DEF t

\* So is the beginning of a sequence.
LEMMA PrefixRange ==
    ASSUME NEW s, s \in Seq(Range(s)), NEW n \in 0..Len(s)
    PROVE  /\ SubSeq(s, 1, n) \in Seq(Range(SubSeq(s, 1, n)))
           /\ Len(SubSeq(s, 1, n)) = n
<1> DEFINE t == SubSeq(s, 1, n)
<1>1. t \in Seq(Range(s)) /\ Len(t) = n
  BY DEF Range
<1> HIDE DEF t
<1>2. \A j \in 1..Len(t) : t[j] \in Range(t)
  BY <1>1 DEF Range
<1>3. t \in Seq(Range(t))
  BY <1>1, <1>2, SequenceOver
<1> QED BY <1>1, <1>3 DEF t

-----------------------------------------------------------------------------
(* Stacks of states.                                                         *)

\* The beginning of a stack is one.
LEMMA Pop ==
    ASSUME NEW stack \in Seq(States), ItemsBelow(stack), NEW n \in 1..Len(stack)
    PROVE  /\ SubSeq(stack, 1, n) \in Seq(States)
           /\ Len(SubSeq(stack, 1, n)) = n
           /\ SubSeq(stack, 1, n)[n] = stack[n]
           /\ ItemsBelow(SubSeq(stack, 1, n))
<1> DEFINE s == SubSeq(stack, 1, n)
<1>1. s \in Seq(States) /\ Len(s) = n /\ \A j \in 1..n : s[j] = stack[j]
  OBVIOUS
<1>2. ASSUME NEW j \in 1..Len(s), NEW item \in ItemsOf[s[j]], NEW d \in 0..item[2]
      PROVE  j - d >= 1 /\ <<item[1], item[2] - d>> \in ItemsOf[s[j - d]]
  <2>1. stack[j] \in States /\ j \in 1..Len(stack) /\ s[j] = stack[j]
    BY <1>1
  <2>2. item \in RuleNumbers \X Nat
    BY <2>1, TablesAssumption DEF TablesAssumption
  <2>3. j - d >= 1 /\ <<item[1], item[2] - d>> \in ItemsOf[stack[j - d]]
    BY <2>1 DEF ItemsBelow
  <2>4. j - d \in 1..n
    BY <1>1, <2>2, <2>3
  <2> QED BY <1>1, <2>3, <2>4
<1> QED BY <1>1, <1>2 DEF ItemsBelow

\* So is a stack with the state its top leads to.
LEMMA Push ==
    ASSUME NEW stack \in Seq(States), stack # <<>>, ItemsBelow(stack),
           NEW X \in DOMAIN Tables.goto[stack[Len(stack)]]
    PROVE  LET s == Append(stack, Tables.goto[stack[Len(stack)]][X])
           IN  s \in Seq(States) /\ Len(s) = Len(stack) + 1 /\ ItemsBelow(s)
<1> DEFINE top == stack[Len(stack)]
           q == Tables.goto[top][X]
           s == Append(stack, q)
<1>1. Len(stack) \in Nat /\ Len(stack) >= 1 /\ top \in States
  OBVIOUS
<1>2. q \in States /\ \A item \in ItemsOf[q] :
          item[2] > 0 => <<item[1], item[2] - 1>> \in ItemsOf[top]
  <2>1. Leads(top, X, q)
    BY <1>1, TablesAssumption DEF TablesAssumption
  <2>. QED BY <2>1 DEF Leads
<1>3. /\ s \in Seq(States) /\ Len(s) = Len(stack) + 1 /\ s[Len(stack) + 1] = q
      /\ \A j \in 1..Len(stack) : s[j] = stack[j] /\ stack[j] \in States
  BY <1>2
<1>4. \A p \in States : \A item \in ItemsOf[p] : item \in RuleNumbers \X Nat
  BY TablesAssumption DEF TablesAssumption
<1> HIDE DEF top, q, s
<1>5. ASSUME NEW j \in 1..Len(s), NEW item \in ItemsOf[s[j]], NEW d \in 0..item[2]
      PROVE  j - d >= 1 /\ <<item[1], item[2] - d>> \in ItemsOf[s[j - d]]
  <2>1. CASE j \in 1..Len(stack)
    <3>1. item \in RuleNumbers \X Nat
      BY <1>3, <1>4, <2>1
    <3>2. j - d >= 1 /\ <<item[1], item[2] - d>> \in ItemsOf[stack[j - d]]
      BY <1>3, <2>1 DEF ItemsBelow
    <3>3. j - d \in 1..Len(stack)
      BY <1>1, <2>1, <3>1, <3>2
    <3> QED BY <1>3, <3>2, <3>3
  <2>2. CASE j = Len(stack) + 1 /\ d = 0
    <3>1. item \in RuleNumbers \X Nat
      BY <1>2, <1>3, <1>4, <2>2
    <3>2. item = <<item[1], item[2] - d>> /\ j - d = j
      BY <1>1, <2>2, <3>1
    <3> QED BY <1>1, <2>2, <3>2
  <2>3. CASE j = Len(stack) + 1 /\ d # 0
    <3>1. item \in ItemsOf[q] /\ item[1] \in RuleNumbers /\ item[2] \in Nat
      BY <1>2, <1>3, <1>4, <2>3
    <3>2. d \in Nat /\ d > 0 /\ item[2] > 0 /\ d - 1 \in 0..(item[2] - 1)
      BY <2>3, <3>1
    <3> DEFINE moved == <<item[1], item[2] - 1>>
    <3>3. moved \in ItemsOf[stack[Len(stack)]] /\ moved[1] = item[1] /\ moved[2] = item[2] - 1
      BY <1>2, <3>1, <3>2 DEF top
    <3> HIDE DEF moved
    <3>4. /\ Len(stack) - (d - 1) >= 1
          /\ <<moved[1], moved[2] - (d - 1)>> \in ItemsOf[stack[Len(stack) - (d - 1)]]
      <4>1. Len(stack) \in 1..Len(stack) /\ d - 1 \in 0..moved[2]
        BY <1>1, <3>2, <3>3
      <4> DEFINE e == d - 1
      <4> HIDE DEF e
      <4>2. /\ Len(stack) - e >= 1
            /\ <<moved[1], moved[2] - e>> \in ItemsOf[stack[Len(stack) - e]]
        BY <3>3, <4>1 DEF ItemsBelow, e
      <4> QED BY <4>2 DEF e
    <3>5. /\ j - d = Len(stack) - (d - 1) /\ moved[2] - (d - 1) = item[2] - d
          /\ j - d \in 1..Len(stack)
      BY <1>1, <2>3, <3>1, <3>2, <3>3, <3>4
    <3> QED BY <1>3, <3>3, <3>4, <3>5
  <2> QED BY <1>1, <1>3, <2>1, <2>2, <2>3
<1>6. ItemsBelow(s)
  BY <1>5 DEF ItemsBelow
<1> QED BY <1>3, <1>6 DEF s, q, top

\* What a reduction by rule n finds: its symbols, and a state that knows its
\* left side.
LEMMA Handle ==
    ASSUME NEW stack \in Seq(States), stack # <<>>, ItemsBelow(stack),
           NEW n \in RuleNumbers, n # 0, AtEnd(n) \in ItemsOf[stack[Len(stack)]]
    PROVE  /\ Len(stack) - Len(Rhs(n)) \in 1..Len(stack)
           /\ Lhs(n) \in DOMAIN Tables.goto[stack[Len(stack) - Len(Rhs(n))]]
<1>1. Len(stack) \in Nat /\ Len(stack) >= 1 /\ Len(Rhs(n)) \in Nat
  BY TablesAssumption DEF TablesAssumption
<1> DEFINE below == Len(stack) - Len(Rhs(n))
           item == AtEnd(n)
<1>2. item[1] = n /\ item[2] = Len(Rhs(n))
  BY DEF AtEnd
<1>3. /\ Len(stack) - Len(Rhs(n)) >= 1
      /\ <<item[1], item[2] - Len(Rhs(n))>> \in ItemsOf[stack[Len(stack) - Len(Rhs(n))]]
  <2> HIDE DEF item
  <2>1. Len(Rhs(n)) \in 0..item[2] /\ Len(stack) \in 1..Len(stack)
    BY <1>1, <1>2
  <2>2. item \in ItemsOf[stack[Len(stack)]]
    BY DEF item
  <2> QED BY <2>1, <2>2 DEF ItemsBelow
<1>4. below \in 1..Len(stack) /\ stack[below] \in States
  BY <1>1, <1>3
<1>5. <<n, 0>> \in ItemsOf[stack[below]]
  BY <1>1, <1>2, <1>3
<1>6. <<n, 0>>[1] # 0 /\ <<n, 0>>[2] = 0 => Lhs(<<n, 0>>[1]) \in DOMAIN Tables.goto[stack[below]]
  BY <1>4, <1>5, TablesAssumption DEF TablesAssumption
<1> QED BY <1>4, <1>6

-----------------------------------------------------------------------------
(* What the tables decide.                                                   *)

\* A shift goes where the automaton goes behind the lookahead, which has been read.
LEMMA ShiftDecision ==
    ASSUME TypeOK, Deciding(Tables), Decision(Tables).op = "shift"
    PROVE  /\ yychar # NoToken /\ yychar.kind \in Terminals
           /\ yychar.kind \in DOMAIN Tables.goto[Top]
           /\ Decision(Tables).state = Tables.goto[Top][yychar.kind]
<1>1. Top \in States
  BY DEF TypeOK, Top
<1>2. Top \notin Tables.consistent /\ Decision(Tables) = Tables.action[Top][yychar.kind]
  <2> DEFINE default == [op |-> IF Tables.default[Top] = 0 THEN "error" ELSE "reduce",
                         state |-> Top, rule |-> Tables.default[Top]]
  <2>1. default.op # "shift"
    OBVIOUS
  <2> HIDE DEF default
  <2>2. Decision(Tables) = default \/ (Top \notin Tables.consistent /\ Decision(Tables) = Tables.action[Top][yychar.kind])
    BY DEF Decision, default
  <2> QED BY <2>1, <2>2
<1>3. yychar # NoToken /\ yychar.kind \in Terminals
  BY <1>2, SentencesAssumption DEF Deciding, TypeOK, SentencesAssumption
<1> QED BY <1>1, <1>2, <1>3, TablesAssumption DEF TablesAssumption

\* A reduction is of a rule that ends in the state on top.
LEMMA ReduceDecision ==
    ASSUME TypeOK, Deciding(Tables), Decision(Tables).op = "reduce"
    PROVE  /\ Decision(Tables).rule # 0 /\ Decision(Tables).rule \in RuleNumbers
           /\ AtEnd(Decision(Tables).rule) \in ItemsOf[Top]
<1>1. Top \in States
  BY DEF TypeOK, Top
<1>2. /\ Decision(Tables).rule # 0
      /\ AtEnd(Decision(Tables).rule) \in ItemsOf[Top]
  <2>1. CASE Top \notin Tables.consistent /\ Tables.action[Top][yychar.kind].op # "error"
    <3>1. Decision(Tables) = Tables.action[Top][yychar.kind]
      BY <2>1 DEF Decision
    <3>2. yychar.kind \in Terminals
      BY <2>1, SentencesAssumption DEF Deciding, TypeOK, SentencesAssumption
    <3> QED BY <1>1, <3>1, <3>2, TablesAssumption DEF TablesAssumption
  <2>2. CASE ~(Top \notin Tables.consistent /\ Tables.action[Top][yychar.kind].op # "error")
    <3>1. Decision(Tables) = [op |-> IF Tables.default[Top] = 0 THEN "error" ELSE "reduce",
                      state |-> Top, rule |-> Tables.default[Top]]
      BY <2>2 DEF Decision
    <3>2. Decision(Tables).rule = Tables.default[Top] /\ Tables.default[Top] # 0
      BY <3>1
    <3> QED BY <1>1, <3>2, TablesAssumption DEF TablesAssumption
  <2> QED BY <2>1, <2>2
<1>3. AtEnd(Decision(Tables).rule) \in RuleNumbers \X Nat
  BY <1>1, <1>2, TablesAssumption DEF TablesAssumption
<1> QED BY <1>2, <1>3 DEF AtEnd

-----------------------------------------------------------------------------
(* The steps.                                                                *)

\* Nothing but the program counter and the result.
LEMMA KeepsIInv ==
    ASSUME IInv, UNCHANGED <<input, yychar, yyss, yyvs>>,
           yystacksize' \in Nat, yystacksize' <= YYMAXDEPTH, Len(yyss) <= yystacksize',
           label' \in {"yysetstate", "yybackup", "yyreturn"}, result' \in Results,
           label' = "yybackup" => Len(yyss) < yystacksize'
    PROVE  IInv'
<1>1. TypeOK'
  BY DEF IInv, TypeOK
<1>2. Room'
  BY DEF IInv, Room
<1>3. ItemsBelow(yyss)'
  BY DEF IInv, ItemsBelow
<1> QED BY <1>1, <1>2, <1>3 DEF IInv

LEMMA Lengths ==
    ASSUME IInv
    PROVE  /\ Len(yyss) \in Nat /\ Len(yyss) >= 1 /\ Len(yyvs) \in Nat
           /\ yystacksize \in Nat /\ Len(yyss) <= yystacksize
           /\ yystacksize <= YYMAXDEPTH /\ YYMAXDEPTH \in Nat
           /\ Len(yyvs) = Len(yyss) - 1
BY DepthAssumption DEF IInv, TypeOK, Room, DepthAssumption

LEMMA InitIInv == ASSUME Init PROVE IInv
<1>1. TypeOK
  <2>1. yyss \in Seq(States) /\ yyss # <<>> /\ yyvs \in Seq(Range(yyvs))
    BY TablesAssumption DEF Init, TablesAssumption
  <2> QED BY <2>1, SentencesAssumption, DepthAssumption
          DEF TypeOK, Init, SentencesAssumption, DepthAssumption, Results
<1>2. Room
  BY DepthAssumption DEF Init, Room, DepthAssumption
<1>3. ItemsBelow(yyss)
  BY TablesAssumption DEF Init, ItemsBelow, TablesAssumption
<1> QED BY <1>1, <1>2, <1>3 DEF IInv

\* Wherever yyparse returns.
LEMMA ReturnIInv ==
    ASSUME IInv, NEW r \in Results, Return(r),
           yystacksize' \in Nat, yystacksize' <= YYMAXDEPTH, Len(yyss) <= yystacksize'
    PROVE  IInv'
BY KeepsIInv DEF Return

LEMMA EnterIInv ==
    ASSUME IInv, Enter(Tables),
           yystacksize' \in Nat, yystacksize' <= YYMAXDEPTH, Len(yyss) < yystacksize'
    PROVE  IInv'
<1>1. Len(yyss) <= yystacksize'
  BY Lengths
<1>2. CASE Top = Tables.final
  BY <1>1, <1>2, ReturnIInv DEF Enter, Results
<1>3. CASE Top # Tables.final
  <2>1. UNCHANGED <<input, yychar, yyss, yyvs, result>> /\ label' = "yybackup"
    BY <1>3 DEF Enter
  <2>2. result' \in Results
    BY <2>1 DEF IInv, TypeOK
  <2> QED BY <1>1, <2>1, <2>2, KeepsIInv
<1> QED BY <1>2, <1>3

LEMMA SetStateIInv == ASSUME IInv, SetState(Tables) PROVE IInv'
<1>1. yystacksize' = yystacksize /\ Len(yyss) < yystacksize
  BY Lengths DEF SetState, Full
<1> QED BY <1>1, Lengths, EnterIInv DEF SetState

LEMMA GrowIInv == ASSUME IInv, Grow(Tables) PROVE IInv'
<1>1. /\ Len(yyss) = yystacksize /\ yystacksize' = Twice
      /\ Twice \in Nat /\ Twice <= YYMAXDEPTH /\ yystacksize < Twice
  BY Lengths DEF Grow, Full, Twice
<1>2. Enter(Tables)
  BY <1>1, Lengths DEF Grow
<1> QED BY <1>1, <1>2, Lengths, EnterIInv

LEMMA YyerrorIInv == ASSUME IInv, yyerror PROVE IInv'
BY Lengths, ReturnIInv DEF yyerror, Results

LEMMA ReadTokenIInv == ASSUME IInv, ReadToken(Tables) PROVE IInv'
<1>1. input' \in Seq(Tokens) /\ yychar' \in Tokens
  <2>1. CASE input = <<>>
    <3>1. EndToken \in Tokens
      BY DEF Tokens
    <3> QED BY <2>1, <3>1 DEF ReadToken, IInv, TypeOK
  <2>2. CASE input # <<>>
    <3>1. Head(input) \in Tokens /\ Tail(input) \in Seq(Tokens)
      BY <2>2 DEF IInv, TypeOK
    <3>2. yychar' = Head(input) /\ input' = Tail(input)
      BY <2>2 DEF ReadToken
    <3> QED BY <3>1, <3>2
  <2> QED BY <2>1, <2>2
<1>2. UNCHANGED <<yyss, yyvs, yystacksize, label, result>>
  BY DEF ReadToken
<1>3. TypeOK'
  BY <1>1, <1>2 DEF IInv, TypeOK
<1>4. Room'
  BY <1>2 DEF IInv, Room
<1>5. ItemsBelow(yyss)'
  BY <1>2 DEF IInv, ItemsBelow
<1> QED BY <1>3, <1>4, <1>5 DEF IInv

LEMMA ShiftIInv == ASSUME IInv, Shift(Tables) PROVE IInv'
<1>1. PICK X \in DOMAIN Tables.goto[Top] : Decision(Tables).state = Tables.goto[Top][X]
  BY ShiftDecision DEF IInv, Shift
<1>2. /\ yyss' = Append(yyss, Tables.goto[yyss[Len(yyss)]][X])
      /\ yyvs' = Append(yyvs, yychar) /\ yychar' = NoToken /\ label' = "yysetstate"
      /\ UNCHANGED <<input, yystacksize, result>> /\ label = "yybackup"
  BY <1>1 DEF Shift, Top, Deciding
<1>3. yyss' \in Seq(States) /\ Len(yyss') = Len(yyss) + 1 /\ ItemsBelow(yyss')
  <2>1. yyss \in Seq(States) /\ yyss # <<>> /\ ItemsBelow(yyss)
        /\ X \in DOMAIN Tables.goto[yyss[Len(yyss)]]
    BY <1>1 DEF IInv, TypeOK, Top
  <2> QED BY <1>2, <2>1, Push
<1>4. yyvs' \in Seq(Range(yyvs')) /\ Len(yyvs') = Len(yyvs) + 1
  BY <1>2, AppendRange DEF IInv, TypeOK
<1>5. TypeOK'
  <2>1. yyss' # <<>>
    BY <1>3, Lengths
  <2> QED BY <1>2, <1>3, <1>4, <2>1 DEF IInv, TypeOK
<1>6. Room'
  BY <1>2, <1>3, <1>4, Lengths DEF IInv, Room
<1> QED BY <1>3, <1>5, <1>6 DEF IInv

LEMMA ReduceIInv == ASSUME IInv, Reduce(Tables) PROVE IInv'
<1> DEFINE n     == Decision(Tables).rule
           below == Len(yyss) - Len(Rhs(n))
           A     == Lhs(n)
<1>1. /\ n # 0 /\ n \in RuleNumbers /\ AtEnd(n) \in ItemsOf[yyss[Len(yyss)]]
      /\ yyss \in Seq(States) /\ yyss # <<>> /\ ItemsBelow(yyss)
  BY ReduceDecision DEF Reduce, IInv, TypeOK, Top
<1>2. below \in 1..Len(yyss) /\ A \in DOMAIN Tables.goto[yyss[below]]
  <2> HIDE DEF n
  <2> QED BY <1>1, Handle
<1>3. CASE assertions /\ Asserts(n, Values(n))
  BY <1>3, Lengths, ReturnIInv DEF Reduce, Results
<1>4. CASE ~(assertions /\ Asserts(n, Values(n)))
  <2> DEFINE kept == SubSeq(yyss, 1, below)
             left == SubSeq(yyvs, 1, below - 1)
  <2>1. /\ yyss' = Append(kept, Tables.goto[yyss[below]][A])
        /\ yyvs' = Append(left, Semantic(n, Values(n)))
        /\ label' = "yysetstate" /\ label = "yybackup"
        /\ UNCHANGED <<input, yychar, yystacksize, result>>
    BY <1>4 DEF Reduce, Deciding
  <2> HIDE DEF n, below, A
  <2>2. kept \in Seq(States) /\ Len(kept) = below /\ kept[below] = yyss[below] /\ ItemsBelow(kept)
    BY <1>1, <1>2, Pop
  <2>3. left \in Seq(Range(left)) /\ Len(left) = below - 1
    <3>1. yyvs \in Seq(Range(yyvs)) /\ below - 1 \in 0..Len(yyvs)
      BY <1>2, Lengths DEF IInv, TypeOK
    <3> DEFINE m == below - 1
    <3> HIDE DEF m
    <3>2. SubSeq(yyvs, 1, m) \in Seq(Range(SubSeq(yyvs, 1, m))) /\ Len(SubSeq(yyvs, 1, m)) = m
      BY <3>1, PrefixRange DEF m
    <3> QED BY <3>2 DEF m
  <2> HIDE DEF kept, left
  <2>4. yyss' \in Seq(States) /\ Len(yyss') = below + 1 /\ ItemsBelow(yyss')
    <3>1. kept # <<>> /\ A \in DOMAIN Tables.goto[kept[Len(kept)]]
      BY <1>2, <2>2
    <3>2. yyss' = Append(kept, Tables.goto[kept[Len(kept)]][A])
      BY <2>1, <2>2
    <3> QED BY <2>2, <3>1, <3>2, Push
  <2>5. yyvs' \in Seq(Range(yyvs')) /\ Len(yyvs') = below
    BY <1>2, <2>1, <2>3, AppendRange
  <2>6. TypeOK'
    <3>1. yyss' # <<>>
      BY <1>2, <2>4
    <3> QED BY <2>1, <2>4, <2>5, <3>1 DEF IInv, TypeOK
  <2>7. Room'
    BY <1>2, <2>1, <2>4, <2>5, Lengths DEF IInv, Room
  <2> QED BY <2>4, <2>6, <2>7 DEF IInv
<1> QED BY <1>3, <1>4

LEMMA NextIInv == ASSUME IInv, [Next]_vars PROVE IInv'
<1>1. CASE SetState(Tables)
  BY <1>1, SetStateIInv
<1>2. CASE Grow(Tables)
  BY <1>2, GrowIInv
<1>3. CASE Exhausted
  BY <1>3, YyerrorIInv DEF Exhausted
<1>4. CASE ReadToken(Tables)
  BY <1>4, ReadTokenIInv
<1>5. CASE Shift(Tables)
  BY <1>5, ShiftIInv
<1>6. CASE Reduce(Tables)
  BY <1>6, ReduceIInv
<1>7. CASE SyntaxError(Tables)
  BY <1>7, YyerrorIInv DEF SyntaxError
<1>8. CASE UNCHANGED vars
  <2>1. UNCHANGED <<input, yychar, yyss, yyvs, yystacksize, label, result>>
    BY <1>8 DEF vars
  <2>2. label \in {"yysetstate", "yybackup", "yyreturn"} /\ result \in Results
        /\ (label = "yybackup" => Len(yyss) < yystacksize)
    BY DEF IInv, TypeOK, Room
  <2> QED BY <2>1, <2>2, Lengths, KeepsIInv
<1> QED BY <1>1, <1>2, <1>3, <1>4, <1>5, <1>6, <1>7, <1>8 DEF Next

-----------------------------------------------------------------------------
(* The theorems.                                                             *)

LEMMA Inductive == Spec => []IInv
<1>1. Init => IInv
  BY InitIInv
<1>2. IInv /\ [Next]_vars => IInv'
  BY NextIInv
<1> QED BY <1>1, <1>2, PTL DEF Spec

\* The variables of yyparse() keep their types: the states on its stack are
\* states of the automaton, the lookahead a token of the grammar.
THEOREM TypeCorrect == Spec => []TypeOK
<1>1. IInv => TypeOK
  BY DEF IInv
<1> QED BY <1>1, Inductive, PTL

\* The two stacks of yyparse() stay in step and within their room, up to
\* YYMAXDEPTH; a reduction finds the symbols of its rule on them, and below a
\* state that has a goto for its left side: in every state, and after every step.
THEOREM StacksAreSafe == Spec => []StacksFit /\ StacksHold
<1>1. ASSUME IInv PROVE StacksFit
  <2>1. ASSUME Deciding(Tables), Decision(Tables).op = "reduce"
        PROVE  LET below == Len(yyss) - Len(Rhs(Decision(Tables).rule)) IN
               below >= 1 /\ Lhs(Decision(Tables).rule) \in DOMAIN Tables.goto[yyss[below]]
    <3> DEFINE n == Decision(Tables).rule
    <3>1. /\ n # 0 /\ n \in RuleNumbers /\ AtEnd(n) \in ItemsOf[yyss[Len(yyss)]]
          /\ yyss \in Seq(States) /\ yyss # <<>> /\ ItemsBelow(yyss)
      BY <1>1, <2>1, ReduceDecision DEF IInv, TypeOK, Top
    <3> HIDE DEF n
    <3>2. /\ Len(yyss) - Len(Rhs(n)) \in 1..Len(yyss)
          /\ Lhs(n) \in DOMAIN Tables.goto[yyss[Len(yyss) - Len(Rhs(n))]]
      BY <3>1, Handle
    <3>3. Len(yyss) - Len(Rhs(n)) >= 1
      BY <3>2
    <3> QED BY <3>2, <3>3 DEF n
  <2> QED BY <1>1, <2>1 DEF StacksFit, IInv, Room
<1>2. IInv => StacksFit
  BY <1>1
<1> QED BY <1>2, Inductive, PTL DEF StacksHold

-----------------------------------------------------------------------------
(* The steps as a derivation.                                                *)

\* How many tokens of the file have been read.
Read == Len(sentence) - Len(input)

\* The lookahead is the last token read; behind the last of the file, its end.
Reading ==
    /\ sentence \in Sentences /\ Len(input) <= Len(sentence)
    /\ \A i \in 1..Len(input) : input[i] = sentence[Read + i]
    /\ \/ yychar = NoToken
       \/ yychar = EndToken /\ input = <<>>
       \/ Read > 0 /\ yychar = sentence[Read]

\* How many have been shifted, but for the end.
Shifted == IF yychar \in {NoToken, EndToken} THEN Read ELSE Read - 1

\* The phrases so far are tokens, or follow from earlier ones.
AllDerived ==
    /\ phrases \in Seq(Range(phrases))
    /\ \A i \in 1..Len(phrases) : phrases[i].from \in Nat /\ phrases[i].to \in Nat
    /\ IsDerivation(Text, phrases)

\* Each value on the stack is that of a phrase, whose symbol leads from the state
\* below to the state above; it begins where the one below ends.
Marked ==
    /\ marks \in Seq(1..Len(phrases)) /\ Len(marks) = Len(yyvs)
    /\ yyss[1] = Initial
    /\ \A p \in 1..Len(marks) :
         /\ phrases[marks[p]].value = yyvs[p] /\ phrases[marks[p]].from = Edge(p - 1)
         /\ phrases[marks[p]].symbol \in DOMAIN Tables.goto[yyss[p]]
         /\ yyss[p + 1] = Tables.goto[yyss[p]][phrases[marks[p]].symbol]
         /\ phrases[marks[p]].symbol = EOF => p = Len(marks) /\ label # "yybackup"

\* The end of the file is on top of the stack.
EndShifted == marks # <<>> /\ phrases[marks[Len(marks)]].symbol = EOF

\* The values reach as far as the file has been shifted.
Reached == ~EndShifted => Edge(Len(marks)) = Shifted

\* Of a program alone on the stack, but for the end, the tree is the value.
TreeKept ==
    (Len(marks) = 1 \/ (Len(marks) = 2 /\ EndShifted)) /\ phrases[marks[1]].symbol = StartSymbol
        => programBlock = yyvs[1]

\* Only the final state accepts.
Accepting == result = "accepted" => label = "yyreturn" /\ Top = Tables.final

DInv == IInv /\ Reading /\ AllDerived /\ Marked /\ Reached /\ TreeKept /\ Accepting

-----------------------------------------------------------------------------

\* The numbers the invariant speaks of.
LEMMA Numbers ==
    ASSUME DInv
    PROVE  /\ Len(phrases) \in Nat /\ Len(marks) \in Nat
           /\ Len(yyss) = Len(marks) + 1 /\ Len(yyvs) = Len(marks)
           /\ sentence \in Seq(Tokens) /\ Len(sentence) \in Nat
           /\ input \in Seq(Tokens) /\ Len(input) \in Nat /\ Read \in Nat
           /\ Edge(0) = 0 /\ \A p \in 1..Len(marks) :
                 marks[p] \in 1..Len(phrases) /\ Edge(p) = phrases[marks[p]].to /\ Edge(p) \in Nat
<1>1. Len(phrases) \in Nat /\ Len(marks) \in Nat /\ Len(marks) = Len(yyvs)
  BY DEF DInv, AllDerived, Marked
<1>2. Len(yyss) = Len(marks) + 1
  BY <1>1, Lengths DEF DInv
<1>3. sentence \in Seq(Tokens) /\ Len(sentence) \in Nat
  BY SentencesAssumption DEF DInv, Reading, SentencesAssumption
<1>4. input \in Seq(Tokens) /\ Len(input) \in Nat
  BY DEF DInv, IInv, TypeOK
<1>5. Read \in Nat
  BY <1>3, <1>4 DEF DInv, Reading, Read
<1>6. \A p \in 1..Len(marks) : marks[p] \in 1..Len(phrases)
  BY DEF DInv, Marked
<1>7. \A p \in 1..Len(marks) : Edge(p) = phrases[marks[p]].to /\ Edge(p) \in Nat
  BY <1>1, <1>6 DEF DInv, AllDerived, Edge
<1>. QED BY <1>1, <1>2, <1>3, <1>4, <1>5, <1>6, <1>7 DEF Edge

\* What a token can be.
LEMMA TokenKinds ==
    /\ EndToken.kind = EOF /\ NoToken \notin Tokens /\ EndToken \in Tokens
    /\ \A token \in Tokens : token.kind \in Terminals /\ token.kind \notin Nonterminals
    /\ \A s \in Sentences : \A i \in 1..Len(s) : s[i] \in Tokens /\ s[i].kind # EOF
<1>1. EndToken.kind = EOF /\ EndToken \in Tokens
  BY DEF EndToken, Tokens
<1>2. NoToken \notin Tokens /\ \A token \in Tokens : token.kind \in Terminals
  BY SentencesAssumption DEF SentencesAssumption
<1>3. Terminals \intersect Nonterminals = {}
  BY TablesAssumption DEF TablesAssumption
<1>4. ASSUME NEW s \in Sentences, NEW i \in 1..Len(s) PROVE s[i] \in Tokens /\ s[i].kind # EOF
  <2>1. s \in Seq(Tokens)
    BY SentencesAssumption DEF SentencesAssumption
  <2>. QED BY <2>1, SentencesAssumption DEF SentencesAssumption
<1>. QED BY <1>1, <1>2, <1>3, <1>4

\* Left sides are no tokens.
LEMMA LeftSides == \A n \in RuleNumbers : Lhs(n) # EOF /\ Lhs(n) \in Nonterminals
<1>1. EOF \in Terminals /\ Terminals \intersect Nonterminals = {}
  BY TablesAssumption DEF TablesAssumption
<1>. QED BY <1>1 DEF Nonterminals

\* The items of a state end in the symbol that leads to it.
LEMMA SymbolBefore ==
    ASSUME NEW q \in States, NEW X \in DOMAIN Tables.goto[q],
           NEW item \in ItemsOf[Tables.goto[q][X]], item[2] > 0
    PROVE  Rhs(item[1])[item[2]] = X
<1>1. Leads(q, X, Tables.goto[q][X])
  BY TablesAssumption DEF TablesAssumption
<1>. QED BY <1>1 DEF Leads

\* With the dot moved back an item is one of the state below.
LEMMA ItemBelow ==
    ASSUME DInv, NEW j \in 1..Len(yyss), NEW item \in ItemsOf[yyss[j]], NEW d \in 0..item[2]
    PROVE  j - d >= 1 /\ <<item[1], item[2] - d>> \in ItemsOf[yyss[j - d]]
BY DEF DInv, IInv, ItemsBelow

\* Where a reduction is due the symbols of the right side are on top.
LEMMA HandleSymbols ==
    ASSUME DInv, NEW n \in RuleNumbers, AtEnd(n) \in ItemsOf[Top]
    PROVE  /\ Len(Rhs(n)) \in 0..Len(marks)
           /\ \A k \in 1..Len(Rhs(n)) :
                 phrases[marks[Len(marks) - Len(Rhs(n)) + k]].symbol = Rhs(n)[k]
<1>1. PICK r \in Nat : r = Len(Rhs(n))
  BY TablesAssumption DEF TablesAssumption
<1>2. PICK m \in Nat : m = Len(marks)
  BY Numbers
<1>3. Len(yyss) = m + 1 /\ Top = yyss[m + 1] /\ yyss \in Seq(States)
  BY <1>2, Numbers DEF Top, DInv, IInv, TypeOK
<1>. DEFINE item == <<n, r>>
<1>4. item \in ItemsOf[yyss[m + 1]] /\ item[1] = n /\ item[2] = r
  BY <1>1, <1>3 DEF AtEnd
<1>. HIDE DEF item
<1>5. \A d \in 0..r : m + 1 - d >= 1 /\ <<n, r - d>> \in ItemsOf[yyss[m + 1 - d]]
  <2>1. m + 1 \in 1..Len(yyss)
    BY <1>3
  <2>2. PICK j \in 1..Len(yyss) : j = m + 1
    BY <2>1
  <2>3. item \in ItemsOf[yyss[j]]
    BY <1>4, <2>2
  <2>4. \A d \in 0..item[2] : j - d >= 1 /\ <<item[1], item[2] - d>> \in ItemsOf[yyss[j - d]]
    BY <2>3, ItemBelow
  <2>. QED BY <1>4, <2>2, <2>4
<1>6. r <= m
  <2>1. r \in 0..r
    OBVIOUS
  <2>2. m + 1 - r >= 1
    BY <1>5, <2>1
  <2>. QED BY <2>2
<1>7. ASSUME NEW k \in 1..r PROVE phrases[marks[m - r + k]].symbol = Rhs(n)[k]
  <2>1. PICK p \in 1..m : p = m - r + k
    BY <1>6
  <2>2. r - k \in 0..r /\ m + 1 - (r - k) = p + 1 /\ r - (r - k) = k
    BY <2>1
  <2>3. <<n, k>> \in ItemsOf[yyss[p + 1]]
    BY <1>5, <2>2
  <2>4. /\ phrases[marks[p]].symbol \in DOMAIN Tables.goto[yyss[p]]
        /\ yyss[p + 1] = Tables.goto[yyss[p]][phrases[marks[p]].symbol]
    BY <1>2 DEF DInv, Marked
  <2>5. yyss[p] \in States
    BY <1>3
  <2>6. PICK X : X = phrases[marks[p]].symbol
    OBVIOUS
  <2>7. <<n, k>> \in ItemsOf[Tables.goto[yyss[p]][X]] /\ X \in DOMAIN Tables.goto[yyss[p]]
    BY <2>3, <2>4, <2>6
  <2>8. <<n, k>>[1] = n /\ <<n, k>>[2] = k /\ k > 0
    OBVIOUS
  <2>9. Rhs(n)[k] = X
    BY <2>5, <2>7, <2>8, SymbolBefore
  <2>. QED BY <2>1, <2>6, <2>9
<1>. QED BY <1>1, <1>2, <1>6, <1>7

\* What accepts is a program, and the end behind it.
LEMMA FinalStack ==
    ASSUME DInv, Top = Tables.final
    PROVE  /\ Len(marks) = 2
           /\ phrases[marks[1]].symbol = StartSymbol /\ phrases[marks[2]].symbol = EOF
<1>1. PICK m \in Nat : m = Len(marks)
  BY Numbers
<1>2. Len(yyss) = m + 1 /\ Top = yyss[m + 1] /\ yyss \in Seq(States)
  BY <1>1, Numbers DEF Top, DInv, IInv, TypeOK
<1>3. /\ Len(Rhs(0)) = 2 /\ Rhs(0)[1] = StartSymbol /\ Rhs(0)[2] = EOF
      /\ 0 \in RuleNumbers
  <2>1. Rhs(0) = <<StartSymbol, EOF>>
    BY DEF Rhs
  <2>3. AtEnd(0) \in RuleNumbers \X Nat
    BY TablesAssumption DEF TablesAssumption
  <2>. QED BY <2>1, <2>3 DEF AtEnd
<1>4. AtEnd(0) \in ItemsOf[Top]
  BY TablesAssumption DEF TablesAssumption
<1>5. 2 <= m /\ phrases[marks[m - 2 + 1]].symbol = StartSymbol /\ phrases[marks[m - 2 + 2]].symbol = EOF
  <2>1. Len(Rhs(0)) \in 0..Len(marks) /\ \A k \in 1..Len(Rhs(0)) :
            phrases[marks[Len(marks) - Len(Rhs(0)) + k]].symbol = Rhs(0)[k]
    BY <1>3, <1>4, HandleSymbols
  <2>. QED BY <1>1, <1>3, <2>1
<1>6. <<0, 0>> \in ItemsOf[yyss[m - 1]]
  <2>. DEFINE item == <<0, 2>>
  <2>1. item \in ItemsOf[yyss[m + 1]] /\ item[1] = 0 /\ item[2] = 2
    BY <1>2, <1>3, <1>4 DEF AtEnd
  <2>. HIDE DEF item
  <2>2. PICK j \in 1..Len(yyss) : j = m + 1
    BY <1>2
  <2>3. 2 \in 0..item[2] /\ item \in ItemsOf[yyss[j]]
    BY <2>1, <2>2
  <2>4. <<item[1], item[2] - 2>> \in ItemsOf[yyss[j - 2]]
    BY <2>3, ItemBelow
  <2>5. item[2] - 2 = 0 /\ j - 2 = m - 1
    BY <2>1, <2>2
  <2>. QED BY <2>1, <2>4, <2>5
<1>7. yyss[m - 1] = Initial
  <2>1. yyss[m - 1] \in States
    BY <1>2, <1>5
  <2>. QED BY <1>6, <2>1, TablesAssumption DEF TablesAssumption
<1>8. m = 2
  <2>. SUFFICES ASSUME m > 2 PROVE FALSE
    BY <1>5
  <2>1. PICK p \in 1..m : p = m - 2
    OBVIOUS
  <2>2. /\ phrases[marks[p]].symbol \in DOMAIN Tables.goto[yyss[p]]
        /\ yyss[p + 1] = Tables.goto[yyss[p]][phrases[marks[p]].symbol]
    BY <1>1 DEF DInv, Marked
  <2>3. yyss[p] \in States /\ p + 1 = m - 1
    BY <1>2, <2>1
  <2>4. Leads(yyss[p], phrases[marks[p]].symbol, yyss[p + 1])
    BY <2>2, <2>3, TablesAssumption DEF TablesAssumption
  <2>5. yyss[p + 1] # Initial
    BY <2>4 DEF Leads
  <2>. QED BY <1>7, <2>3, <2>5
<1>. QED BY <1>1, <1>5, <1>8

-----------------------------------------------------------------------------
(* A phrase more.                                                            *)

\* Append leaves what was there.
LEMMA Appended ==
    ASSUME AllDerived, NEW phrase, phrases' = Append(phrases, phrase)
    PROVE  /\ phrases' \in Seq(Range(phrases')) /\ Len(phrases') = Len(phrases) + 1
           /\ phrases'[Len(phrases) + 1] = phrase
           /\ \A i \in 1..Len(phrases) : phrases'[i] = phrases[i]
<1>1. phrases \in Seq(Range(phrases)) /\ Len(phrases) \in Nat
  BY DEF AllDerived
<1>2. phrases' \in Seq(Range(phrases')) /\ Len(phrases') = Len(phrases) + 1
  <2>1. /\ Append(phrases, phrase) \in Seq(Range(Append(phrases, phrase)))
        /\ Len(Append(phrases, phrase)) = Len(phrases) + 1
    BY <1>1, AppendRange
  <2>. QED BY <2>1
<1>3. PICK S : phrases \in Seq(S) /\ phrase \in S
  <2>1. phrases \in Seq(Range(phrases) \union {phrase})
    BY <1>1
  <2>. QED BY <2>1
<1>. QED BY <1>2, <1>3

\* A token stays one.
LEMMA TokenStays ==
    ASSUME NEW text, NEW old, NEW new, NEW i, IsToken(text, old, i), new[i] = old[i]
    PROVE  IsToken(text, new, i)
BY DEF IsToken

\* What follows from phrases still does.
LEMMA RuleStays ==
    ASSUME NEW old, NEW new, NEW i \in Nat, i > 0, FollowsRule(old, i), \A j \in 1..i : new[j] = old[j]
    PROVE  FollowsRule(new, i)
<1>. DEFINE parts  == old[i].parts
            rule   == old[i].rule
            values == PartValues(old, i)
            valuesNow == PartValues(new, i)
<1>1. new[i] = old[i]
  OBVIOUS
<1>2. \A k \in 1..Len(parts) : parts[k] \in 1..(i - 1) /\ new[parts[k]] = old[parts[k]]
  <2>1. ASSUME NEW k \in 1..Len(parts) PROVE parts[k] \in 1..(i - 1)
    BY DEF FollowsRule
  <2>2. \A j \in 1..(i - 1) : new[j] = old[j]
    OBVIOUS
  <2>. QED BY <2>1, <2>2
<1>3. valuesNow = values
  BY <1>1, <1>2 DEF PartValues
<1>4. old[i].value = Semantic(rule, valuesNow)
  BY <1>3 DEF FollowsRule
<1>5. new[i].parts = parts /\ new[i].rule = rule /\ new[i].value = old[i].value
  BY <1>1
<1>6. /\ rule \in RuleNumbers \ {0} /\ new[i].symbol = Lhs(rule) /\ Len(parts) = Len(Rhs(rule))
      /\ \A k \in 1..Len(parts) :
            /\ parts[k] \in 1..(i - 1) /\ new[parts[k]].symbol = Rhs(rule)[k]
            /\ new[parts[k]].from = IF k - 1 = 0 THEN new[i].from ELSE new[parts[k - 1]].to
      /\ new[i].to = IF Len(parts) = 0 THEN new[i].from ELSE new[parts[Len(parts)]].to
  <2>1. /\ rule \in RuleNumbers \ {0} /\ old[i].symbol = Lhs(rule) /\ Len(parts) = Len(Rhs(rule))
        /\ \A k \in 1..Len(parts) :
            /\ parts[k] \in 1..(i - 1) /\ old[parts[k]].symbol = Rhs(rule)[k]
            /\ old[parts[k]].from = IF k - 1 = 0 THEN old[i].from ELSE old[parts[k - 1]].to
        /\ old[i].to = IF Len(parts) = 0 THEN old[i].from ELSE old[parts[Len(parts)]].to
    BY DEF FollowsRule
  <2>2. Len(parts) \in Nat
    BY <2>1, TablesAssumption DEF TablesAssumption
  <2>3. ASSUME NEW k \in 1..Len(parts)
        PROVE  new[parts[k]].from = IF k - 1 = 0 THEN new[i].from ELSE new[parts[k - 1]].to
    <3>1. k - 1 = 0 \/ k - 1 \in 1..Len(parts)
      BY <2>2
    <3>. QED BY <1>1, <1>2, <2>1, <3>1
  <2>4. Len(parts) = 0 \/ Len(parts) \in 1..Len(parts)
    BY <2>2
  <2>. QED BY <1>1, <1>2, <2>1, <2>3, <2>4
<1>. HIDE DEF parts, rule, values, valuesNow
<1>. QED BY <1>4, <1>5, <1>6 DEF FollowsRule, parts, rule, valuesNow

\* With a phrase more the phrases are still derived.
LEMMA StillDerived ==
    ASSUME AllDerived, UNCHANGED sentence, NEW phrase, phrases' = Append(phrases, phrase),
           phrase.from \in Nat, phrase.to \in Nat,
           NEW last, last = Len(phrases) + 1,
           IsToken(Text, phrases', last) \/ FollowsRule(phrases', last)
    PROVE  AllDerived'
<1>1. /\ phrases' \in Seq(Range(phrases')) /\ Len(phrases') = Len(phrases) + 1
      /\ phrases'[last] = phrase /\ \A i \in 1..Len(phrases) : phrases'[i] = phrases[i]
  BY Appended
<1>2. PICK n \in Nat : n = Len(phrases)
  BY DEF AllDerived
<1>3. PICK text, found : text = Text /\ found = phrases'
  OBVIOUS
<1>4. text = Text'
  BY <1>3 DEF Text
<1>5. ASSUME NEW i \in 1..(n + 1)
      PROVE  /\ found[i].from \in Nat /\ found[i].to \in Nat
             /\ IsToken(text, found, i) \/ FollowsRule(found, i)
  <2>1. CASE i = n + 1
    <3>1. i = last
      BY <1>2, <2>1
    <3>2. found[last] = phrase
      BY <1>1, <1>3
    <3>3. IsToken(text, found, last) \/ FollowsRule(found, last)
      BY <1>3
    <3>. QED BY <3>1, <3>2, <3>3
  <2>2. CASE i \in 1..n
    <3>1. found[i] = phrases[i] /\ \A j \in 1..i : found[j] = phrases[j]
      BY <1>1, <1>2, <1>3, <2>2
    <3>2. IsToken(text, phrases, i) \/ FollowsRule(phrases, i)
      BY <1>2, <1>3, <2>2 DEF AllDerived, IsDerivation
    <3>3. IsToken(text, phrases, i) => IsToken(text, found, i)
      BY <3>1, TokenStays
    <3>4. FollowsRule(phrases, i) => FollowsRule(found, i)
      <4>1. i \in Nat /\ i > 0
        BY <2>2
      <4>. QED BY <3>1, <4>1, RuleStays
    <3>5. phrases[i].from \in Nat /\ phrases[i].to \in Nat
      BY <1>2, <2>2 DEF AllDerived
    <3>6. IsToken(text, found, i) \/ FollowsRule(found, i)
      BY <3>2, <3>3, <3>4
    <3>. QED BY <3>1, <3>5, <3>6
  <2>3. i = n + 1 \/ i \in 1..n
    BY <1>2
  <2>. QED BY <2>1, <2>2, <2>3
<1>6. Len(found) = n + 1 /\ found = phrases'
  BY <1>1, <1>2, <1>3
<1>7. IsDerivation(text, found)
  BY <1>5, <1>6 DEF IsDerivation
<1>8. IsDerivation(Text', phrases')
  BY <1>3, <1>4, <1>7
<1>9. \A i \in 1..Len(phrases') : phrases'[i].from \in Nat /\ phrases'[i].to \in Nat
  BY <1>5, <1>6
<1>. QED BY <1>1, <1>8, <1>9 DEF AllDerived

\* A sequence cut short, and one more behind.
LEMMA CutAndAppend ==
    ASSUME NEW S, NEW s \in Seq(S), NEW n \in 0..Len(s), NEW v
    PROVE  LET t == Append(SubSeq(s, 1, n), v)
           IN  /\ t \in Seq(S \union {v}) /\ Len(t) = n + 1 /\ t[n + 1] = v
               /\ \A p \in 1..n : t[p] = s[p]
<1>. DEFINE c == SubSeq(s, 1, n)
<1>1. c \in Seq(S) /\ Len(c) = n /\ \A p \in 1..n : c[p] = s[p]
  OBVIOUS
<1>. HIDE DEF c
<1>. DEFINE t == Append(c, v)
<1>2. c \in Seq(S \union {v})
  BY <1>1
<1>3. t \in Seq(S \union {v}) /\ Len(t) = n + 1 /\ t[n + 1] = v /\ \A p \in 1..n : t[p] = c[p]
  BY <1>1, <1>2
<1>. QED BY <1>1, <1>3 DEF c

\* The stacks and the marks of a step that takes values from the stack and pushes that
\* of a new phrase.
LEMMA StillMarked ==
    ASSUME DInv, label = "yybackup", label' # "yybackup",
           NEW phrase, phrases' = Append(phrases, phrase),
           NEW m \in 0..Len(marks), marks' = Append(SubSeq(marks, 1, m), Len(phrases) + 1),
           yyvs' = Append(SubSeq(yyvs, 1, m), phrase.value),
           phrase.from = Edge(m), phrase.symbol \in DOMAIN Tables.goto[yyss[m + 1]],
           yyss' = Append(SubSeq(yyss, 1, m + 1), Tables.goto[yyss[m + 1]][phrase.symbol])
    PROVE  /\ Marked' /\ Len(marks') = m + 1
           /\ phrases'[marks'[m + 1]] = phrase /\ yyvs'[m + 1] = phrase.value
           /\ \A p \in 1..m : phrases'[marks'[p]] = phrases[marks[p]] /\ yyvs'[p] = yyvs[p]
<1>. DEFINE last == Len(phrases) + 1
            q    == Tables.goto[yyss[m + 1]][phrase.symbol]
<1>1. /\ Len(phrases) \in Nat /\ Len(marks) \in Nat /\ Len(yyss) = Len(marks) + 1
      /\ Len(yyvs) = Len(marks) /\ m \in Nat
  BY Numbers
<1>2. /\ Len(phrases') = last /\ phrases'[last] = phrase
      /\ \A i \in 1..Len(phrases) : phrases'[i] = phrases[i]
  BY Appended DEF DInv
<1>3. /\ marks' \in Seq(1..last) /\ Len(marks') = m + 1 /\ marks'[m + 1] = last
      /\ \A p \in 1..m : marks'[p] = marks[p] /\ marks[p] \in 1..Len(phrases)
  <2>1. marks \in Seq(1..Len(phrases))
    BY DEF DInv, Marked
  <2>2. /\ marks' \in Seq((1..Len(phrases)) \union {last}) /\ Len(marks') = m + 1
        /\ marks'[m + 1] = last /\ \A p \in 1..m : marks'[p] = marks[p]
    BY <2>1, CutAndAppend
  <2>3. (1..Len(phrases)) \union {last} = 1..last
    BY <1>1
  <2>4. \A p \in 1..m : marks[p] \in 1..Len(phrases)
    BY <1>1, <2>1
  <2>. QED BY <2>2, <2>3, <2>4
<1>4. Len(yyvs') = m + 1 /\ yyvs'[m + 1] = phrase.value /\ \A p \in 1..m : yyvs'[p] = yyvs[p]
  <2>1. yyvs \in Seq(Range(yyvs)) /\ m \in 0..Len(yyvs)
    BY <1>1 DEF DInv, IInv, TypeOK
  <2>. QED BY <2>1, CutAndAppend
<1>5. yyss'[m + 2] = q /\ \A p \in 1..(m + 1) : yyss'[p] = yyss[p]
  <2>1. yyss \in Seq(States)
    BY DEF DInv, IInv, TypeOK
  <2>2. PICK n \in 0..Len(yyss) : n = m + 1
    BY <1>1
  <2>3. PICK w : w = q
    OBVIOUS
  <2>4. yyss' = Append(SubSeq(yyss, 1, n), w)
    BY <2>2, <2>3
  <2>5. yyss'[n + 1] = w /\ \A p \in 1..n : yyss'[p] = yyss[p]
    BY <2>1, <2>4, CutAndAppend
  <2>6. n + 1 = m + 2
    BY <1>1, <2>2
  <2>. QED BY <2>2, <2>3, <2>5, <2>6
<1>6. \A p \in 1..m : phrases'[marks'[p]] = phrases[marks[p]]
  BY <1>2, <1>3
<1>7. phrases'[marks'[m + 1]] = phrase
  BY <1>2, <1>3
<1>8. ASSUME NEW p \in 1..(m + 1)
      PROVE  /\ phrases'[marks'[p]].value = yyvs'[p]
             /\ phrases'[marks'[p]].from = IF p - 1 = 0 THEN 0 ELSE phrases'[marks'[p - 1]].to
             /\ phrases'[marks'[p]].symbol \in DOMAIN Tables.goto[yyss'[p]]
             /\ yyss'[p + 1] = Tables.goto[yyss'[p]][phrases'[marks'[p]].symbol]
             /\ phrases'[marks'[p]].symbol = EOF => p = m + 1
  <2>0. p - 1 = 0 \/ p - 1 \in 1..m
    BY <1>1
  <2>1. CASE p = m + 1
    <3>1. phrase.from = IF m = 0 THEN 0 ELSE phrases[marks[m]].to
      BY DEF Edge
    <3>2. p - 1 = m /\ p + 1 = m + 2 /\ (m = 0 \/ m \in 1..m) /\ m + 1 \in 1..(m + 1)
      BY <1>1, <2>1
    <3>3. phrases'[marks'[p]].from = IF p - 1 = 0 THEN 0 ELSE phrases'[marks'[p - 1]].to
      BY <1>6, <1>7, <2>1, <3>1, <3>2
    <3>4. yyss'[p] = yyss[m + 1] /\ yyss'[p + 1] = q
      BY <1>5, <2>1, <3>2
    <3>. QED BY <1>4, <1>7, <2>1, <3>3, <3>4
  <2>2. CASE p \in 1..m
    <3>1. /\ phrases[marks[p]].value = yyvs[p] /\ phrases[marks[p]].from = Edge(p - 1)
          /\ phrases[marks[p]].symbol \in DOMAIN Tables.goto[yyss[p]]
          /\ yyss[p + 1] = Tables.goto[yyss[p]][phrases[marks[p]].symbol]
          /\ phrases[marks[p]].symbol # EOF
      <4>1. p \in 1..Len(marks)
        BY <1>1, <2>2
      <4>. QED BY <4>1 DEF DInv, Marked
    <3>2. p \in 1..(m + 1) /\ p + 1 \in 1..(m + 1)
      BY <1>1, <2>2
    <3>3. Edge(p - 1) = IF p - 1 = 0 THEN 0 ELSE phrases[marks[p - 1]].to
      BY DEF Edge
    <3>4. phrases[marks[p]].from = IF p - 1 = 0 THEN 0 ELSE phrases'[marks'[p - 1]].to
      BY <1>6, <2>0, <3>1, <3>3
    <3>. QED BY <1>4, <1>5, <1>6, <2>2, <3>1, <3>2, <3>4
  <2>3. p = m + 1 \/ p \in 1..m
    BY <1>1
  <2>. QED BY <2>1, <2>2, <2>3
<1>9. yyss'[1] = Initial
  <2>1. 1 \in 1..(m + 1)
    BY <1>1
  <2>. QED BY <1>5, <2>1 DEF DInv, Marked
<1>10. Marked'
  <2>1. marks' \in Seq(1..Len(phrases')) /\ Len(marks') = Len(yyvs') /\ Len(marks') = m + 1
    BY <1>2, <1>3, <1>4
  <2>. HIDE DEF last, q
  <2>. QED BY <1>8, <1>9, <2>1 DEF Marked, Edge
<1>. QED BY <1>3, <1>4, <1>6, <1>7, <1>10

-----------------------------------------------------------------------------
(* The steps of the derivation.                                              *)

\* At the beginning nothing is found.
LEMMA InitDInv == ASSUME HistoryInit PROVE DInv
<1>1. IInv
  BY InitIInv DEF HistoryInit
<1>2. /\ sentence \in Sentences /\ input = sentence /\ yychar = NoToken
      /\ yyss = <<Initial>> /\ yyvs = <<>> /\ result = "none" /\ phrases = <<>> /\ marks = <<>>
  BY DEF HistoryInit, Init
<1>3. sentence \in Seq(Tokens) /\ Len(sentence) \in Nat
  BY <1>2, SentencesAssumption DEF SentencesAssumption
<1>4. Read = 0 /\ Shifted = 0
  BY <1>2, <1>3 DEF Read, Shifted
<1>5. Reading
  BY <1>2, <1>3, <1>4 DEF Reading
<1>6. AllDerived
  BY <1>2 DEF AllDerived, IsDerivation
<1>7. Marked
  BY <1>2 DEF Marked
<1>8. Reached /\ TreeKept
  <2>1. Len(marks) = 0
    BY <1>2
  <2>. QED BY <1>4, <2>1 DEF Reached, TreeKept, Edge
<1>9. Accepting
  BY <1>2 DEF Accepting
<1>. QED BY <1>1, <1>5, <1>6, <1>7, <1>8, <1>9 DEF DInv

\* Where the automaton decides the end of the file is not on its stack.
LEMMA EndNotShifted ==
    ASSUME DInv, label = "yybackup" \/ Top # Tables.final
    PROVE  ~EndShifted /\ \A p \in 1..Len(marks) : phrases[marks[p]].symbol # EOF
<1>1. PICK m \in Nat : m = Len(marks)
  BY Numbers
<1>2. /\ \A p \in 1..m : phrases[marks[p]].symbol = EOF => p = m /\ label # "yybackup"
      /\ marks # <<>> => m \in 1..m
  BY <1>1 DEF DInv, Marked
<1>3. ASSUME m \in 1..m, phrases[marks[m]].symbol = EOF, Top # Tables.final PROVE FALSE
  <2>1. /\ EOF \in DOMAIN Tables.goto[yyss[m]] /\ yyss[m + 1] = Tables.goto[yyss[m]][EOF]
    BY <1>1, <1>3 DEF DInv, Marked
  <2>2. yyss \in Seq(States) /\ Len(yyss) = m + 1
    BY <1>1, Numbers DEF DInv, IInv, TypeOK
  <2>3. yyss[m] \in States /\ Top = yyss[m + 1]
    BY <1>3, <2>2 DEF Top
  <2>. QED BY <1>3, <2>1, <2>3, TablesAssumption DEF TablesAssumption
<1>4. \A p \in 1..m : phrases[marks[p]].symbol # EOF
  BY <1>2, <1>3
<1>. QED BY <1>1, <1>2, <1>4 DEF EndShifted

\* A step that reads, shifts and reduces nothing.
LEMMA KeepsDInv ==
    ASSUME DInv, IInv', UNCHANGED <<sentence, yyss, yyvs, programBlock, phrases, marks>>,
           Reading', Shifted' = Shifted, Accepting',
           label' = "yybackup" => label = "yybackup" \/ Top # Tables.final
    PROVE  DInv'
<1>1. AllDerived'
  <2>1. Text' = Text
    BY DEF Text
  <2>2. IsDerivation(Text', phrases')
    BY <2>1 DEF DInv, AllDerived
  <2>. QED BY <2>2 DEF DInv, AllDerived
<1>2. Marked'
  <2>1. /\ marks \in Seq(1..Len(phrases)) /\ Len(marks) = Len(yyvs) /\ yyss[1] = Initial
        /\ \A p \in 1..Len(marks) :
            /\ phrases[marks[p]].value = yyvs[p] /\ phrases[marks[p]].from = Edge(p - 1)
            /\ phrases[marks[p]].symbol \in DOMAIN Tables.goto[yyss[p]]
            /\ yyss[p + 1] = Tables.goto[yyss[p]][phrases[marks[p]].symbol]
            /\ phrases[marks[p]].symbol = EOF => p = Len(marks) /\ label' # "yybackup"
    BY EndNotShifted DEF DInv, Marked
  <2>. QED BY <2>1 DEF Marked, Edge
<1>3. Reached'
  BY DEF DInv, Reached, EndShifted, Edge
<1>4. TreeKept'
  BY DEF DInv, TreeKept, EndShifted
<1>. QED BY <1>1, <1>2, <1>3, <1>4 DEF DInv

\* Nothing read either.
LEMMA KeepsReading ==
    ASSUME DInv, UNCHANGED <<sentence, input, yychar>>
    PROVE  Reading' /\ Shifted' = Shifted
BY DEF DInv, Reading, Shifted, Read

\* Before the end of yyparse() nothing is accepted.
LEMMA NotAccepted ==
    ASSUME DInv, label # "yyreturn"
    PROVE  result # "accepted"
BY DEF DInv, Accepting

\* yyparse() returns; with success only from the final state.
LEMMA ReturnDInv ==
    ASSUME DInv, IInv', UNCHANGED <<sentence, history>>, NEW r, Return(r), r = "accepted" => Top = Tables.final
    PROVE  DInv'
<1>1. /\ UNCHANGED <<sentence, input, yychar, yyss, yyvs, programBlock, phrases, marks>>
      /\ label' = "yyreturn" /\ result' = r
  BY DEF Return, history
<1>2. Reading' /\ Shifted' = Shifted
  BY <1>1, KeepsReading
<1>3. Accepting'
  BY <1>1 DEF Accepting, Top
<1>. QED BY <1>1, <1>2, <1>3, KeepsDInv

\* It enters a state.
LEMMA EnterDInv ==
    ASSUME DInv, IInv', UNCHANGED <<sentence, history>>, label = "yysetstate", Enter(Tables)
    PROVE  DInv'
<1>1. CASE Top = Tables.final
  BY <1>1, ReturnDInv DEF Enter
<1>2. CASE Top # Tables.final
  <2>1. /\ UNCHANGED <<sentence, input, yychar, yyss, yyvs, programBlock, phrases, marks, result>>
        /\ label' = "yybackup"
    BY <1>2 DEF Enter, history
  <2>2. Reading' /\ Shifted' = Shifted
    BY <2>1, KeepsReading
  <2>3. Accepting'
    BY <2>1, NotAccepted DEF Accepting
  <2>. QED BY <1>2, <2>1, <2>2, <2>3, KeepsDInv
<1>. QED BY <1>1, <1>2

\* It reads a token: that is none shifted yet.
LEMMA ReadTokenDInv ==
    ASSUME DInv, IInv', UNCHANGED <<sentence, history>>, ReadToken(Tables)
    PROVE  DInv'
<1>1. /\ UNCHANGED <<sentence, yyss, yyvs, programBlock, phrases, marks, label, result>>
      /\ label = "yybackup" /\ yychar = NoToken
  BY DEF ReadToken, history
<1>2. /\ sentence \in Seq(Tokens) /\ Len(sentence) \in Nat
      /\ input \in Seq(Tokens) /\ Len(input) \in Nat /\ Len(input) <= Len(sentence)
      /\ sentence \in Sentences /\ \A i \in 1..Len(input) : input[i] = sentence[Read + i]
  BY Numbers DEF DInv, Reading
<1>3. Reading' /\ Shifted' = Shifted
  <2>1. CASE input = <<>>
    <3>1. yychar' = EndToken /\ input' = input
      BY <2>1 DEF ReadToken
    <3>2. Reading'
      BY <1>1, <1>2, <2>1, <3>1 DEF Reading, Read
    <3>3. Shifted' = Shifted
      BY <1>1, <3>1 DEF Shifted, Read
    <3>. QED BY <3>2, <3>3
  <2>2. CASE input # <<>>
    <3>1. yychar' = Head(input) /\ input' = Tail(input)
      BY <2>2 DEF ReadToken
    <3>2. /\ Len(input) >= 1 /\ Len(input') = Len(input) - 1 /\ yychar' = input[1]
          /\ \A i \in 1..Len(input') : input'[i] = input[i + 1]
      BY <1>2, <2>2, <3>1
    <3>3. PICK n \in Nat : n = Len(input)
      BY <1>2
    <3>4. PICK l \in Nat : l = Len(sentence)
      BY <1>2
    <3>5. Read = l - n /\ n >= 1 /\ n <= l /\ Len(input') = n - 1 /\ Read' = l - (n - 1)
      BY <1>1, <1>2, <3>2, <3>3, <3>4 DEF Read
    <3>6. yychar' = sentence[Read'] /\ Read' \in 1..Len(sentence)
      <4>1. 1 \in 1..n /\ Read + 1 = Read'
        BY <3>5
      <4>2. input[1] = sentence[Read + 1]
        BY <1>2, <3>3, <4>1
      <4>. QED BY <3>2, <3>4, <3>5, <4>1, <4>2
    <3>7. ASSUME NEW i \in 1..(n - 1) PROVE input'[i] = sentence[Read' + i]
      <4>1. PICK j \in 1..n : j = i + 1
        BY <3>5
      <4>2. input[j] = sentence[Read + j] /\ Read + j = Read' + i
        BY <1>2, <3>3, <3>5, <4>1
      <4>3. i \in 1..Len(input')
        BY <3>5
      <4>4. input'[i] = input[j]
        BY <3>2, <4>1, <4>3
      <4>. QED BY <4>2, <4>4
    <3>8. Reading'
      <4>1. sentence' \in Sentences /\ Len(input') <= Len(sentence')
        BY <1>1, <1>2, <3>4, <3>5
      <4>2. \A i \in 1..Len(input') : input'[i] = sentence'[Read' + i]
        BY <1>1, <3>5, <3>7
      <4>3. Read' > 0 /\ yychar' = sentence'[Read']
        BY <1>1, <3>4, <3>5, <3>6
      <4>. QED BY <4>1, <4>2, <4>3 DEF Reading
    <3>9. Shifted' = Shifted
      <4>1. yychar' # NoToken /\ yychar' # EndToken
        <5>1. yychar' \in Tokens /\ yychar'.kind # EOF
          BY <1>2, <3>6, TokenKinds
        <5>. QED BY <5>1, TokenKinds
      <4>2. Shifted = l - n
        BY <1>1, <3>5 DEF Shifted
      <4>3. Shifted' = Read' - 1
        BY <4>1 DEF Shifted
      <4>. QED BY <3>5, <4>2, <4>3
    <3>. QED BY <3>8, <3>9
  <2>. QED BY <2>1, <2>2
<1>4. Accepting'
  BY <1>1, NotAccepted DEF Accepting
<1>. QED BY <1>1, <1>3, <1>4, KeepsDInv

\* It pushes the value of a new phrase, a token or one that follows from those found.
LEMMA PushDInv ==
    ASSUME DInv, IInv', UNCHANGED <<sentence, result>>, label = "yybackup", label' = "yysetstate",
           NEW phrase, phrases' = Append(phrases, phrase),
           NEW m \in 0..Len(marks), marks' = Append(SubSeq(marks, 1, m), Len(phrases) + 1),
           yyvs' = Append(SubSeq(yyvs, 1, m), phrase.value),
           phrase.from = Edge(m), phrase.symbol \in DOMAIN Tables.goto[yyss[m + 1]],
           yyss' = Append(SubSeq(yyss, 1, m + 1), Tables.goto[yyss[m + 1]][phrase.symbol]),
           phrase.to \in Nat,
           NEW last, last = Len(phrases) + 1,
           IsToken(Text, phrases', last) \/ FollowsRule(phrases', last),
           Reading',
           phrase.symbol # EOF => phrase.to = Shifted',
           phrase.symbol = EOF => m = Len(marks) /\ programBlock' = programBlock,
           phrase.symbol = StartSymbol => programBlock' = phrase.value
    PROVE  DInv'
<1>1. /\ Marked' /\ Len(marks') = m + 1
      /\ phrases'[marks'[m + 1]] = phrase /\ yyvs'[m + 1] = phrase.value
      /\ \A p \in 1..m : phrases'[marks'[p]] = phrases[marks[p]] /\ yyvs'[p] = yyvs[p]
  BY StillMarked
<1>2. m \in Nat /\ Len(marks) \in Nat /\ Edge(0) = 0 /\ \A p \in 1..Len(marks) : Edge(p) \in Nat
  BY Numbers
<1>3. phrase.from \in Nat
  <2>1. m = 0 \/ m \in 1..Len(marks)
    BY <1>2
  <2>. QED BY <1>2, <2>1
<1>4. AllDerived'
  BY <1>3, StillDerived DEF DInv
<1>5. EndShifted' <=> phrase.symbol = EOF
  <2>1. marks' # <<>>
    <3>1. PICK new : new = marks'
      OBVIOUS
    <3>2. Len(new) # 0
      BY <1>1, <1>2, <3>1
    <3>3. new # <<>>
      BY <3>2
    <3>. QED BY <3>1, <3>3
  <2>. QED BY <1>1, <2>1 DEF EndShifted
<1>6. Reached'
  <2>1. m + 1 # 0
    BY <1>2
  <2>2. Len(marks') # 0 /\ phrases'[marks'[Len(marks')]].to = phrase.to
    BY <1>1, <2>1
  <2>. QED BY <1>5, <2>2 DEF Reached, Edge
<1>7. TreeKept'
  <2>1. CASE m = 0
    BY <1>1, <2>1 DEF TreeKept
  <2>2. CASE m = 1
    <3>1. ASSUME phrase.symbol = EOF, phrases'[marks'[1]].symbol = StartSymbol
          PROVE  programBlock' = yyvs'[1]
      <4>1. Len(marks) = 1 /\ programBlock' = programBlock /\ 1 \in 1..m
        BY <2>2, <3>1
      <4>2. phrases[marks[1]].symbol = StartSymbol /\ yyvs'[1] = yyvs[1]
        BY <1>1, <3>1, <4>1
      <4>3. TreeKept
        BY DEF DInv
      <4>4. programBlock = yyvs[1]
        BY <4>1, <4>2, <4>3 DEF TreeKept
      <4>. QED BY <4>1, <4>2, <4>4
    <3>2. Len(marks') = 2
      BY <1>1, <2>2
    <3>. QED BY <1>5, <3>1, <3>2 DEF TreeKept
  <2>3. CASE m \notin {0, 1}
    <3>1. Len(marks') \notin {1, 2}
      BY <1>1, <1>2, <2>3
    <3>. QED BY <3>1 DEF TreeKept
  <2>. QED BY <2>1, <2>2, <2>3
<1>8. Accepting'
  BY NotAccepted DEF Accepting
<1>. QED BY <1>1, <1>4, <1>6, <1>7, <1>8 DEF DInv

\* What a shift takes from the file.
LEMMA NextToken ==
    ASSUME DInv, yychar # NoToken
    PROVE  /\ Shifted \in Nat /\ Shifted + 1 \in 1..Len(Text) /\ Text[Shifted + 1] = yychar
           /\ yychar.kind # EOF => Shifted + 1 = Read
<1>1. /\ sentence \in Seq(Tokens) /\ Len(sentence) \in Nat /\ Len(input) \in Nat /\ Read \in Nat
      /\ Len(input) <= Len(sentence)
  BY Numbers DEF DInv, Reading
<1>2. /\ Text \in Seq(Tokens) /\ Len(Text) = Len(sentence) + 1 /\ Text[Len(sentence) + 1] = EndToken
      /\ \A i \in 1..Len(sentence) : Text[i] = sentence[i]
  BY <1>1, TokenKinds DEF Text
<1>3. CASE yychar = EndToken
  <2>1. input = <<>>
    <3>1. ASSUME Read > 0, yychar = sentence[Read] PROVE FALSE
      <4>1. Read \in 1..Len(sentence)
        BY <1>1, <3>1 DEF Read
      <4>. QED BY <1>3, <3>1, <4>1, TokenKinds DEF DInv, Reading
    <3>. QED BY <3>1 DEF DInv, Reading
  <2>2. Shifted = Len(sentence)
    BY <1>1, <1>3, <2>1 DEF Shifted, Read
  <2>3. yychar.kind = EOF
    BY <1>3, TokenKinds
  <2>4. Len(sentence) + 1 \in 1..(Len(sentence) + 1)
    BY <1>1
  <2>. QED BY <1>1, <1>2, <1>3, <2>2, <2>3, <2>4
<1>4. CASE yychar # EndToken
  <2>1. Read > 0 /\ yychar = sentence[Read]
    BY <1>4 DEF DInv, Reading
  <2>2. Shifted = Read - 1
    BY <1>4 DEF Shifted
  <2>3. Read \in 1..Len(sentence)
    BY <1>1, <2>1 DEF Read
  <2>4. Shifted \in Nat /\ Shifted + 1 = Read
    BY <1>1, <2>1, <2>2
  <2>5. Shifted + 1 \in 1..Len(Text)
    BY <1>1, <1>2, <2>3, <2>4
  <2>. QED BY <1>2, <2>1, <2>3, <2>4, <2>5
<1>. QED BY <1>3, <1>4

\* It shifts: the phrase is the next token.
LEMMA ShiftDInv ==
    ASSUME DInv, IInv', UNCHANGED sentence, Shift(Tables), NoteToken
    PROVE  DInv'
<1>. DEFINE m == Len(marks)
            phrase == [symbol |-> yychar.kind, from |-> Edge(Len(marks) - Len(<<>>)),
                       to |-> Edge(Len(marks)) + 1, value |-> yyvs'[Len(yyvs')],
                       rule |-> 0, parts |-> <<>>]
<1>1. /\ yyss' = Append(yyss, Decision(Tables).state) /\ yyvs' = Append(yyvs, yychar)
      /\ yychar' = NoToken /\ label = "yybackup" /\ label' = "yysetstate"
      /\ UNCHANGED <<input, programBlock, result>>
  BY DEF Shift, Deciding
<1>2. /\ yychar # NoToken /\ yychar.kind \in Terminals
      /\ yychar.kind \in DOMAIN Tables.goto[Top]
      /\ Decision(Tables).state = Tables.goto[Top][yychar.kind]
  BY ShiftDecision DEF DInv, IInv, Shift
<1>3. /\ Len(phrases) \in Nat /\ m \in Nat /\ Len(yyss) = m + 1 /\ Len(yyvs) = m /\ Read \in Nat
      /\ yyss \in Seq(States) /\ yyvs \in Seq(Range(yyvs)) /\ marks \in Seq(1..Len(phrases))
  BY Numbers DEF DInv, IInv, TypeOK, Marked
<1>4. Edge(m) = Shifted
  BY <1>1, EndNotShifted DEF DInv, Reached
<1>5. /\ Shifted \in Nat /\ Shifted + 1 \in 1..Len(Text) /\ Text[Shifted + 1] = yychar
      /\ yychar.kind # EOF => Shifted + 1 = Read
  BY <1>2, NextToken
<1>6. yyvs'[Len(yyvs')] = yychar
  BY <1>1, <1>3
<1>7. /\ phrases' = Append(phrases, phrase)
      /\ marks' = Append(SubSeq(marks, 1, m - Len(<<>>)), Len(phrases) + 1)
  BY DEF NoteToken, Note
<1>8. m - Len(<<>>) = m
  BY <1>3
<1>9. /\ phrase.symbol = yychar.kind /\ phrase.from = Shifted /\ phrase.to = Shifted + 1
      /\ phrase.value = yychar /\ phrase.rule = 0
  BY <1>4, <1>6, <1>8
<1>. HIDE DEF phrase
<1>10. marks' = Append(SubSeq(marks, 1, m), Len(phrases) + 1)
  BY <1>7, <1>8
<1>11. /\ yyss[m + 1] = Top
       /\ yyss' = Append(SubSeq(yyss, 1, m + 1), Tables.goto[yyss[m + 1]][phrase.symbol])
       /\ yyvs' = Append(SubSeq(yyvs, 1, m), phrase.value)
  <2>1. SubSeq(yyss, 1, m + 1) = yyss /\ SubSeq(yyvs, 1, m) = yyvs /\ yyss[m + 1] = Top
    BY <1>3 DEF Top
  <2>. QED BY <1>1, <1>2, <1>9, <2>1
<1>12. PICK last : last = Len(phrases) + 1
  OBVIOUS
<1>13. IsToken(Text, phrases', last)
  <2>1. phrases'[last] = phrase
    BY <1>7, <1>12, Appended DEF DInv
  <2>. QED BY <1>5, <1>9, <2>1 DEF IsToken
<1>14. Reading' /\ Shifted' = Read
  <2>1. Read' = Read
    BY <1>1 DEF Read
  <2>. QED BY <1>1, <2>1 DEF DInv, Reading, Shifted
<1>15. phrase.symbol # StartSymbol
  BY <1>2, <1>9, TablesAssumption DEF TablesAssumption
<1>16. m \in 0..Len(marks) /\ phrase.to \in Nat /\ phrase.from = Edge(m)
  BY <1>3, <1>4, <1>5, <1>9
<1>17. phrase.symbol # EOF => phrase.to = Shifted'
  BY <1>5, <1>9, <1>14
<1>18. phrase.symbol \in DOMAIN Tables.goto[yyss[m + 1]]
  BY <1>2, <1>9, <1>11
<1>. QED BY <1>1, <1>7, <1>10, <1>11, <1>12, <1>13, <1>14, <1>15, <1>16, <1>17, <1>18, PushDInv

\* The end of a sequence.
LEMMA Suffix ==
    ASSUME NEW S, NEW s \in Seq(S), NEW m \in 0..Len(s), NEW r \in Nat, r = Len(s) - m
    PROVE  /\ SubSeq(s, m + 1, Len(s)) = [k \in 1..r |-> s[m + k]]
           /\ Len(SubSeq(s, m + 1, Len(s))) = r
<1>. DEFINE t == SubSeq(s, m + 1, Len(s))
<1>1. PICK l \in Nat : l = Len(s)
  OBVIOUS
<1>2. m \in Nat /\ m <= l /\ m + r = l
  BY <1>1
<1>3. t \in Seq(S)
  BY <1>1, <1>2
<1>4. Len(t) = r
  BY <1>1, <1>2
<1>5. \A k \in 1..r : t[k] = s[m + k]
  <2>1. ASSUME NEW k \in 1..r PROVE t[k] = s[m + k]
    <3>1. k \in 1..Len(t) /\ m + 1 + k - 1 = m + k
      BY <1>2, <1>4
    <3>2. t[k] = s[m + 1 + k - 1]
      BY <1>1, <1>2, <1>4
    <3>. QED BY <3>1, <3>2
  <2>. QED BY <2>1
<1>. HIDE DEF t
<1>6. t = [k \in 1..r |-> s[m + k]]
  <2>1. t = [k \in 1..Len(t) |-> t[k]]
    BY <1>3
  <2>. QED BY <1>4, <1>5, <2>1
<1>. QED BY <1>4, <1>6 DEF t

\* The parts are the phrases of the last r values, behind m others.
NotedFor(n, parts, found, r, m) ==
    /\ r = Len(Rhs(n)) /\ m = Len(marks) - r
    /\ Len(parts) = r
    /\ \A k \in 1..r : /\ parts[k] = marks[m + k] /\ m + k \in 1..Len(marks)
                      /\ parts[k] \in 1..Len(phrases)
                      /\ found[parts[k]] = phrases[marks[m + k]]
    /\ [k \in 1..Len(parts) |-> found[parts[k]].value] = Values(n)

\* So are those of the phrase a reduction notes.
LEMMA NotedParts ==
    ASSUME DInv, label = "yybackup", NEW n \in RuleNumbers, n # 0, AtEnd(n) \in ItemsOf[Top],
           NEW phrase, phrases' = Append(phrases, phrase),
           phrase.parts = SubSeq(marks, Len(marks) - Len(Rhs(n)) + 1, Len(marks))
    PROVE  \E r, m \in Nat : NotedFor(n, phrase.parts, phrases', r, m)
<1>1. PICK r \in Nat : r = Len(Rhs(n))
  BY TablesAssumption DEF TablesAssumption
<1>2. PICK l \in Nat : l = Len(marks)
  BY Numbers
<1>3. r <= l
  <2>1. Len(Rhs(n)) \in 0..Len(marks)
    BY HandleSymbols
  <2>. QED BY <1>1, <1>2, <2>1
<1>4. PICK m \in Nat : m = l - r
  BY <1>3
<1>5. PICK found : found = phrases'
  OBVIOUS
<1>6. \A i \in 1..Len(phrases) : found[i] = phrases[i]
  BY <1>5, Appended DEF DInv
<1>. DEFINE parts == phrase.parts
<1>7. parts = SubSeq(marks, m + 1, l)
  BY <1>1, <1>2, <1>4
<1>8. /\ Len(parts) = r
      /\ \A k \in 1..r : parts[k] = marks[m + k] /\ m + k \in 1..l
  <2>1. marks \in Seq(1..Len(phrases))
    BY DEF DInv, Marked
  <2>2. m \in 0..Len(marks) /\ r = Len(marks) - m
    BY <1>2, <1>3, <1>4
  <2>. HIDE DEF parts
  <2>3. /\ SubSeq(marks, m + 1, Len(marks)) = [k \in 1..r |-> marks[m + k]]
        /\ Len(SubSeq(marks, m + 1, Len(marks))) = r
    BY <2>1, <2>2, Suffix
  <2>5. parts = [k \in 1..r |-> marks[m + k]] /\ Len(parts) = r
    BY <1>2, <1>7, <2>3
  <2>4. \A k \in 1..r : m + k \in 1..l
    BY <1>2, <1>3, <1>4
  <2>. QED BY <2>4, <2>5
<1>9. \A k \in 1..r : parts[k] \in 1..Len(phrases) /\ found[parts[k]] = phrases[marks[m + k]]
  BY <1>2, <1>6, <1>8, Numbers
<1>10. \A k \in 1..r : phrases[marks[m + k]].value = yyvs[m + k]
  BY <1>2, <1>8 DEF DInv, Marked
<1>11. [k \in 1..Len(parts) |-> found[parts[k]].value] = Values(n)
  <2>1. Len(yyvs) = l /\ yyvs \in Seq(Range(yyvs))
    BY <1>2, Numbers DEF DInv, IInv, TypeOK
  <2>2. Values(n) = SubSeq(yyvs, m + 1, l)
    BY <1>1, <1>4, <2>1 DEF Values
  <2>3. SubSeq(yyvs, m + 1, l) = [k \in 1..r |-> yyvs[m + k]]
    <3>1. m \in 0..Len(yyvs) /\ r = Len(yyvs) - m
      BY <1>2, <1>3, <1>4, <2>1
    <3>. QED BY <2>1, <3>1, Suffix
  <2>4. [k \in 1..Len(parts) |-> found[parts[k]].value] = [k \in 1..r |-> yyvs[m + k]]
    BY <1>8, <1>9, <1>10
  <2>. QED BY <2>2, <2>3, <2>4
<1>. HIDE DEF parts
<1>12. NotedFor(n, parts, found, r, m)
  BY <1>1, <1>2, <1>4, <1>8, <1>9, <1>11 DEF NotedFor
<1>. QED BY <1>5, <1>12 DEF parts

\* What a reduction finds follows from the phrases of the right side.
LEMMA Reduced ==
    ASSUME DInv, label = "yybackup", NEW n \in RuleNumbers, n # 0, AtEnd(n) \in ItemsOf[Top],
           NEW phrase, phrases' = Append(phrases, phrase),
           phrase.symbol = Lhs(n), phrase.from = Edge(Len(marks) - Len(Rhs(n))),
           phrase.to = Edge(Len(marks)), phrase.value = Semantic(n, Values(n)),
           phrase.rule = n,
           phrase.parts = SubSeq(marks, Len(marks) - Len(Rhs(n)) + 1, Len(marks)),
           NEW last, last = Len(phrases) + 1
    PROVE  FollowsRule(phrases', last)
<1>5. PICK found : found = phrases'
  OBVIOUS
<1>0. PICK r, m \in Nat : NotedFor(n, phrase.parts, found, r, m)
  BY <1>5, NotedParts
<1>1. r = Len(Rhs(n))
  BY <1>0 DEF NotedFor
<1>2. PICK l \in Nat : l = Len(marks)
  BY Numbers
<1>3. r <= l /\ \A k \in 1..r : phrases[marks[l - r + k]].symbol = Rhs(n)[k]
  <2>1. /\ Len(Rhs(n)) \in 0..Len(marks)
        /\ \A k \in 1..Len(Rhs(n)) :
              phrases[marks[Len(marks) - Len(Rhs(n)) + k]].symbol = Rhs(n)[k]
    BY HandleSymbols
  <2>. QED BY <1>1, <1>2, <2>1
<1>4. m = l - r
  BY <1>0, <1>2 DEF NotedFor
<1>6. found[last] = phrase /\ \A i \in 1..Len(phrases) : found[i] = phrases[i]
  BY <1>5, Appended DEF DInv
<1>. DEFINE parts == phrase.parts
<1>8. /\ Len(parts) = r
      /\ \A k \in 1..r : parts[k] = marks[m + k] /\ m + k \in 1..l
  BY <1>0, <1>2 DEF NotedFor
<1>9. \A k \in 1..r : parts[k] \in 1..Len(phrases) /\ found[parts[k]] = phrases[marks[m + k]]
  BY <1>0 DEF NotedFor
<1>11. [k \in 1..Len(parts) |-> found[parts[k]].value] = Values(n)
  BY <1>0 DEF NotedFor
<1>12. ASSUME NEW k \in 1..r
       PROVE  found[parts[k]].from = IF k - 1 = 0 THEN phrase.from ELSE found[parts[k - 1]].to
  <2>1. PICK p \in 1..l : p = m + k
    BY <1>8
  <2>2. phrases[marks[p]].from = Edge(p - 1)
    BY <1>2 DEF DInv, Marked
  <2>3. found[parts[k]].from = Edge(p - 1)
    BY <1>9, <2>1, <2>2
  <2>4. CASE k = 1
    <3>1. p - 1 = m /\ m = Len(marks) - Len(Rhs(n))
      BY <1>1, <1>2, <1>4, <2>1, <2>4
    <3>. QED BY <2>3, <2>4, <3>1
  <2>5. CASE k # 1
    <3>1. PICK j \in 1..r : j = k - 1
      BY <2>5
    <3>2. p - 1 = m + j /\ k - 1 # 0 /\ p - 1 \in 1..Len(marks)
      <4>1. p - 1 = m + j
        BY <2>1, <3>1
      <4>2. k - 1 # 0
        BY <2>5
      <4>3. p \in 1..Len(marks) /\ m + j >= 1
        BY <1>2, <3>1
      <4>4. p - 1 \in 1..Len(marks)
        BY <1>2, <4>1, <4>3
      <4>. QED BY <4>1, <4>2, <4>4
    <3>3. Edge(p - 1) = phrases[marks[p - 1]].to
      BY <3>2, Numbers
    <3>4. found[parts[j]] = phrases[marks[p - 1]]
      BY <1>9, <3>2
    <3>. QED BY <2>3, <3>1, <3>2, <3>3, <3>4
  <2>. QED BY <2>4, <2>5
<1>13. phrase.to = IF r = 0 THEN phrase.from ELSE found[parts[r]].to
  <2>1. CASE r = 0
    BY <1>1, <1>2, <2>1
  <2>2. CASE r # 0
    <3>1. m + r = l /\ r \in 1..r /\ l \in 1..Len(marks)
      BY <1>2, <1>3, <1>4, <2>2
    <3>2. Edge(l) = phrases[marks[l]].to
      BY <3>1, Numbers
    <3>3. found[parts[r]] = phrases[marks[l]]
      BY <1>9, <3>1
    <3>. QED BY <1>2, <2>2, <3>2, <3>3
  <2>. QED BY <2>1, <2>2
<1>14. last - 1 = Len(phrases) /\ Len(phrases) \in Nat
  BY Numbers
<1>15. \A k \in 1..r : parts[k] \in 1..(last - 1) /\ found[parts[k]].symbol = Rhs(n)[k]
  BY <1>3, <1>4, <1>9, <1>14
<1>16. PartValues(found, last) = Values(n) /\ phrase.value = Semantic(n, PartValues(found, last))
  BY <1>6, <1>11 DEF PartValues
<1>17. Len(parts) = Len(Rhs(n)) /\ Len(parts) = r
  BY <1>1, <1>8
<1>. HIDE DEF parts
<1>18. FollowsRule(found, last)
  BY <1>6, <1>12, <1>13, <1>15, <1>16, <1>17 DEF FollowsRule, parts
<1>. QED BY <1>5, <1>18

\* It reduces: the phrase follows by the rule.
LEMMA ReduceDInv ==
    ASSUME DInv, IInv', UNCHANGED sentence, Reduce(Tables),
           label' = "yysetstate", NoteRule(Decision(Tables).rule)
    PROVE  DInv'
<1>. DEFINE n == Decision(Tables).rule
<1>1. n # 0 /\ n \in RuleNumbers /\ AtEnd(n) \in ItemsOf[Top] /\ label = "yybackup"
  BY ReduceDecision DEF Reduce, Deciding, DInv, IInv
<1>2. /\ yyss' = Append(SubSeq(yyss, 1, Len(yyss) - Len(Rhs(n))),
                        Tables.goto[yyss[Len(yyss) - Len(Rhs(n))]][Lhs(n)])
      /\ yyvs' = Append(SubSeq(yyvs, 1, Len(yyss) - Len(Rhs(n)) - 1), Semantic(n, Values(n)))
      /\ programBlock' = IF Lhs(n) = StartSymbol THEN Semantic(n, Values(n)) ELSE programBlock
      /\ UNCHANGED <<input, yychar, result>>
  BY DEF Reduce, Return
<1>3. NoteRule(n)
  OBVIOUS
<1>. HIDE DEF n
<1>4. PICK r \in Nat : r = Len(Rhs(n))
  BY <1>1, TablesAssumption DEF TablesAssumption
<1>5. PICK l \in Nat : l = Len(marks)
  BY Numbers
<1>6. /\ Len(phrases) \in Nat /\ Len(yyss) = l + 1 /\ Len(yyvs) = l
      /\ yyss \in Seq(States) /\ yyss # <<>> /\ yyvs \in Seq(Range(yyvs)) /\ marks \in Seq(1..Len(phrases))
      /\ ItemsBelow(yyss)
  BY <1>5, Numbers DEF DInv, IInv, TypeOK, Marked
<1>7. r <= l
  <2>1. Len(Rhs(n)) \in 0..Len(marks)
    BY <1>1, HandleSymbols
  <2>. QED BY <1>4, <1>5, <2>1
<1>8. PICK m \in 0..Len(marks) : m = l - r
  BY <1>5, <1>7
<1>9. Len(yyss) - Len(Rhs(n)) = m + 1 /\ Len(yyss) - Len(Rhs(n)) - 1 = m /\ m \in Nat
  BY <1>4, <1>6, <1>7, <1>8
<1>. DEFINE value  == Semantic(n, Values(n))
            parts  == SubSeq(marks, Len(marks) - Len(Rhs(n)) + 1, Len(marks))
            phrase == [symbol |-> Lhs(n), from |-> Edge(Len(marks) - Len(parts)),
                       to |-> Edge(Len(marks)), value |-> yyvs'[Len(yyvs')],
                       rule |-> n, parts |-> parts]
<1>10. Len(parts) = r /\ Len(marks) - Len(parts) = m /\ Len(marks) - Len(Rhs(n)) = m
  BY <1>4, <1>5, <1>6, <1>7, <1>8
<1>11. yyvs' = Append(SubSeq(yyvs, 1, m), value)
  BY <1>2, <1>9
<1>12. yyvs'[Len(yyvs')] = value
  <2>1. m \in 0..Len(yyvs)
    BY <1>5, <1>6
  <2>2. Len(yyvs') = m + 1 /\ yyvs'[m + 1] = value
    BY <1>6, <1>11, <2>1, CutAndAppend
  <2>. QED BY <2>2
<1>13. phrases' = Append(phrases, phrase) /\ marks' = Append(SubSeq(marks, 1, Len(marks) - Len(parts)), Len(phrases) + 1)
  BY <1>3 DEF NoteRule, Note
<1>14. /\ phrase.symbol = Lhs(n) /\ phrase.from = Edge(m) /\ phrase.to = Edge(Len(marks))
       /\ phrase.value = value /\ phrase.rule = n /\ phrase.parts = parts
  BY <1>10, <1>12
<1>. HIDE DEF phrase
<1>15. marks' = Append(SubSeq(marks, 1, m), Len(phrases) + 1)
  BY <1>10, <1>13
<1>16. PICK last : last = Len(phrases) + 1
  OBVIOUS
<1>17. FollowsRule(phrases', last)
  <2>1. phrase.from = Edge(Len(marks) - Len(Rhs(n)))
    BY <1>10, <1>14
  <2>. QED BY <1>1, <1>2, <1>13, <1>14, <1>16, <2>1, Reduced
<1>18. Lhs(n) \in DOMAIN Tables.goto[yyss[m + 1]]
  <2>1. AtEnd(n) \in ItemsOf[yyss[Len(yyss)]]
    BY <1>1 DEF Top
  <2>2. Lhs(n) \in DOMAIN Tables.goto[yyss[Len(yyss) - Len(Rhs(n))]]
    BY <1>1, <1>6, <2>1, Handle
  <2>. QED BY <1>9, <2>2
<1>19. Reading' /\ Shifted' = Shifted
  BY <1>2, KeepsReading
<1>20. Edge(Len(marks)) = Shifted
  BY <1>1, EndNotShifted DEF DInv, Reached
<1>21. phrase.to \in Nat
  <2>1. l = 0 \/ l \in 1..Len(marks)
    BY <1>5
  <2>. QED BY <1>5, <1>14, <2>1, Numbers
<1>22. /\ phrase.symbol # EOF
       /\ phrase.symbol = StartSymbol => programBlock' = phrase.value
  BY <1>1, <1>2, <1>14, LeftSides
<1>23. yyss' = Append(SubSeq(yyss, 1, m + 1), Tables.goto[yyss[m + 1]][phrase.symbol])
  BY <1>2, <1>9, <1>14
<1>24. /\ yyvs' = Append(SubSeq(yyvs, 1, m), phrase.value)
       /\ phrase.symbol \in DOMAIN Tables.goto[yyss[m + 1]]
       /\ phrase.to = Shifted'
  BY <1>11, <1>14, <1>18, <1>19, <1>20
<1>. QED BY <1>1, <1>2, <1>13, <1>14, <1>15, <1>16, <1>17, <1>19, <1>21, <1>22, <1>23, <1>24, PushDInv

\* Each step is one of these.
LEMMA NextDInv == ASSUME DInv, [HistoryNext]_<<vars, history>> PROVE DInv'
<1>1. IInv'
  <2>1. [Next]_vars
    BY DEF HistoryNext, Next, vars
  <2>. QED BY <2>1, NextIInv DEF DInv
<1>2. CASE UNCHANGED <<vars, history>>
  <2>1. /\ UNCHANGED <<sentence, input, yychar, yyss, yyvs, programBlock, phrases, marks, label, result>>
    BY <1>2 DEF vars, history
  <2>2. Reading' /\ Shifted' = Shifted
    BY <2>1, KeepsReading
  <2>3. Accepting'
    BY <2>1 DEF DInv, Accepting, Top
  <2>. QED BY <1>1, <2>1, <2>2, <2>3, KeepsDInv
<1>3. CASE HistoryNext
  <2>1. sentence' = sentence
    BY <1>3 DEF HistoryNext
  <2>3. CASE SetState(Tables) /\ UNCHANGED history
    BY <1>1, <2>1, <2>3, EnterDInv DEF SetState
  <2>4. CASE Grow(Tables) /\ UNCHANGED history
    <3>1. label = "yysetstate" /\ (Enter(Tables) \/ Return("yyabort"))
      BY <2>4 DEF Grow
    <3>. QED BY <1>1, <2>1, <2>4, <3>1, EnterDInv, ReturnDInv
  <2>5. CASE Exhausted /\ UNCHANGED history
    BY <1>1, <2>1, <2>5, ReturnDInv DEF Exhausted, yyerror
  <2>6. CASE ReadToken(Tables) /\ UNCHANGED history
    BY <1>1, <2>1, <2>6, ReadTokenDInv
  <2>7. CASE Shift(Tables) /\ NoteToken
    BY <1>1, <2>1, <2>7, ShiftDInv
  <2>8. CASE /\ Reduce(Tables)
             /\ IF label' = "yyreturn" THEN UNCHANGED history ELSE NoteRule(Decision(Tables).rule)
    <3>1. CASE label' # "yyreturn"
      <4>1. label' = "yysetstate"
        BY <2>8, <3>1 DEF Reduce, Return
      <4>. QED BY <1>1, <2>1, <2>8, <3>1, <4>1, ReduceDInv
    <3>2. CASE label' = "yyreturn"
      <4>1. Return("aborted")
        BY <2>8, <3>2 DEF Reduce
      <4>. QED BY <1>1, <2>1, <2>8, <3>2, <4>1, ReturnDInv
    <3>. QED BY <3>1, <3>2
  <2>9. CASE SyntaxError(Tables) /\ UNCHANGED history
    <3>1. Return("exit -1")
      BY <2>9 DEF SyntaxError, yyerror
    <3>. QED BY <1>1, <2>1, <2>9, <3>1, ReturnDInv
  <2>. QED BY <1>3, <2>3, <2>4, <2>5, <2>6, <2>7, <2>8, <2>9 DEF HistoryNext
<1>. QED BY <1>2, <1>3

\* With assertions no action has asserted.
Unasserted == assertions => NoneAsserted(phrases)

\* What has not asserted stays so with a phrase more, and neither does that one if
\* it is a token, or if its action does not assert.
LEMMA StillUnasserted ==
    ASSUME DInv, NoneAsserted(phrases), NEW phrase, phrases' = Append(phrases, phrase),
           ~Asserted(phrases', Len(phrases) + 1)
    PROVE  NoneAsserted(phrases')
<1>1. PICK n \in Nat : n = Len(phrases)
  BY Numbers
<1>2. PICK found : found = phrases'
  OBVIOUS
<1>3. Len(found) = n + 1 /\ \A i \in 1..n : found[i] = phrases[i]
  BY <1>1, <1>2, Appended DEF DInv
<1>4. ASSUME NEW i \in 1..n PROVE ~Asserted(found, i)
  <2>1. ~Asserted(phrases, i)
    BY <1>1 DEF NoneAsserted
  <2>2. IsToken(Text, phrases, i) \/ FollowsRule(phrases, i)
    BY <1>1 DEF DInv, AllDerived, IsDerivation
  <2>3. CASE IsToken(Text, phrases, i)
    <3>1. phrases[i].rule = 0
      BY <2>3 DEF IsToken
    <3>. QED BY <1>3, <3>1 DEF Asserted
  <2>4. CASE FollowsRule(phrases, i)
    <3>1. ASSUME NEW k \in 1..Len(phrases[i].parts)
          PROVE  found[phrases[i].parts[k]] = phrases[phrases[i].parts[k]]
      <4>1. phrases[i].parts[k] \in 1..(i - 1)
        BY <2>4 DEF FollowsRule
      <4>2. phrases[i].parts[k] \in 1..n
        BY <4>1
      <4>. QED BY <1>3, <4>2
    <3>2. PartValues(found, i) = PartValues(phrases, i)
      BY <1>3, <3>1 DEF PartValues
    <3>. QED BY <1>3, <2>1, <3>2 DEF Asserted
  <2>. QED BY <2>2, <2>3, <2>4
<1>5. ~Asserted(found, n + 1)
  BY <1>1, <1>2
<1>6. \A i \in 1..(n + 1) : i \in 1..n \/ i = n + 1
  OBVIOUS
<1>7. NoneAsserted(found)
  BY <1>3, <1>4, <1>5, <1>6 DEF NoneAsserted
<1>. QED BY <1>2, <1>7

\* A step that notes a phrase does so with an action that does not assert.
LEMMA NextUnasserted == ASSUME DInv, Unasserted, [HistoryNext]_<<vars, history>> PROVE Unasserted'
<1>. SUFFICES ASSUME assertions' PROVE NoneAsserted(phrases')
  BY DEF Unasserted
<1>1. assertions' = assertions
  BY DEF HistoryNext, vars
<1>2. NoneAsserted(phrases)
  BY <1>1 DEF Unasserted
<1>3. CASE UNCHANGED phrases
  BY <1>2, <1>3
<1>4. CASE Shift(Tables) /\ NoteToken
  <2>. DEFINE phrase == [symbol |-> yychar.kind, from |-> Edge(Len(marks) - Len(<<>>)),
                         to |-> Edge(Len(marks)) + 1, value |-> yyvs'[Len(yyvs')],
                         rule |-> 0, parts |-> <<>>]
  <2>1. phrases' = Append(phrases, phrase) /\ phrase.rule = 0
    BY <1>4 DEF NoteToken, Note
  <2>. HIDE DEF phrase
  <2>2. phrases'[Len(phrases) + 1] = phrase
    BY <2>1, Appended DEF DInv
  <2>3. ~Asserted(phrases', Len(phrases) + 1)
    BY <2>1, <2>2 DEF Asserted
  <2>. QED BY <1>2, <2>1, <2>3, StillUnasserted
<1>5. CASE Reduce(Tables) /\ label' # "yyreturn" /\ NoteRule(Decision(Tables).rule)
  <2>. DEFINE n      == Decision(Tables).rule
              parts  == SubSeq(marks, Len(marks) - Len(Rhs(n)) + 1, Len(marks))
              phrase == [symbol |-> Lhs(n), from |-> Edge(Len(marks) - Len(parts)),
                         to |-> Edge(Len(marks)), value |-> yyvs'[Len(yyvs')],
                         rule |-> n, parts |-> parts]
  <2>1. n # 0 /\ n \in RuleNumbers /\ AtEnd(n) \in ItemsOf[Top] /\ label = "yybackup"
    BY <1>5, ReduceDecision DEF Reduce, Deciding, DInv, IInv
  <2>2. ~Asserts(n, Values(n))
    BY <1>1, <1>5 DEF Reduce, Return
  <2>3. phrases' = Append(phrases, phrase) /\ phrase.rule = n /\ phrase.parts = parts
    BY <1>5 DEF NoteRule, Note
  <2>. HIDE DEF n, parts, phrase
  <2>4. phrases'[Len(phrases) + 1] = phrase
    BY <2>3, Appended DEF DInv
  <2>5. PartValues(phrases', Len(phrases) + 1) = Values(n)
    <3>1. PICK r, m \in Nat : NotedFor(n, phrase.parts, phrases', r, m)
      <4>1. phrase.parts = SubSeq(marks, Len(marks) - Len(Rhs(n)) + 1, Len(marks))
        BY <2>3 DEF parts
      <4>. QED BY <2>1, <2>3, <4>1, NotedParts
    <3>. QED BY <2>4, <3>1 DEF PartValues, NotedFor
  <2>6. ~Asserted(phrases', Len(phrases) + 1)
    BY <2>2, <2>3, <2>4, <2>5 DEF Asserted
  <2>. QED BY <1>2, <2>3, <2>6, StillUnasserted
<1>. QED BY <1>3, <1>4, <1>5 DEF HistoryNext, vars, history

\* What is accepted reaches from the beginning of the file to its end.
LEMMA DInvFileDerived == ASSUME DInv, Unasserted PROVE FileDerived
<1>. SUFFICES ASSUME result = "accepted" 
              PROVE  /\ IsDerivation(Text, phrases)
                     /\ \E i \in 1..Len(phrases) :
                          /\ phrases[i].symbol = StartSymbol /\ phrases[i].value = programBlock
                          /\ phrases[i].from = 0 /\ phrases[i].to = Len(sentence)
  BY DEF FileDerived, Unasserted
<1>1. IsDerivation(Text, phrases)
  BY DEF DInv, AllDerived
<1>2. /\ Len(marks) = 2
      /\ phrases[marks[1]].symbol = StartSymbol /\ phrases[marks[2]].symbol = EOF
  BY FinalStack DEF DInv, Accepting
<1>3. /\ marks[1] \in 1..Len(phrases) /\ marks[2] \in 1..Len(phrases)
      /\ Edge(0) = 0 /\ Edge(1) = phrases[marks[1]].to /\ Edge(1) \in Nat
      /\ sentence \in Seq(Tokens) /\ Len(sentence) \in Nat
  BY <1>2, Numbers
<1>4. /\ phrases[marks[1]].value = yyvs[1] /\ phrases[marks[1]].from = 0
      /\ phrases[marks[2]].from = phrases[marks[1]].to
  <2>1. \A p \in 1..2 : phrases[marks[p]].value = yyvs[p] /\ phrases[marks[p]].from = Edge(p - 1)
    BY <1>2 DEF DInv, Marked
  <2>2. 1 \in 1..2 /\ 2 \in 1..2 /\ 1 - 1 = 0 /\ 2 - 1 = 1
    OBVIOUS
  <2>. QED BY <1>3, <2>1, <2>2
<1>5. programBlock = yyvs[1]
  <2>1. EndShifted
    <3>1. PICK new : new = marks
      OBVIOUS
    <3>2. Len(new) # 0
      BY <1>2, <3>1
    <3>3. new # <<>>
      BY <3>2
    <3>. QED BY <1>2, <3>1, <3>3 DEF EndShifted
  <2>2. TreeKept
    BY DEF DInv
  <2>. QED BY <1>2, <2>1, <2>2 DEF TreeKept
<1>6. IsToken(Text, phrases, marks[2])
  <2>1. IsToken(Text, phrases, marks[2]) \/ FollowsRule(phrases, marks[2])
    BY <1>1, <1>3 DEF IsDerivation
  <2>2. FollowsRule(phrases, marks[2]) => \E n \in RuleNumbers : phrases[marks[2]].symbol = Lhs(n)
    BY DEF FollowsRule
  <2>. QED BY <1>2, <2>1, <2>2, LeftSides
<1>7. phrases[marks[2]].to = Len(sentence) + 1
  <2>1. /\ Text \in Seq(Tokens) /\ Len(Text) = Len(sentence) + 1
        /\ \A i \in 1..Len(sentence) : Text[i] = sentence[i]
    BY <1>3, TokenKinds DEF Text
  <2>2. /\ phrases[marks[2]].to \in 1..Len(Text)
        /\ Text[phrases[marks[2]].to].kind = EOF
    BY <1>2, <1>6 DEF IsToken
  <2>3. sentence \in Sentences
    BY DEF DInv, Reading
  <2>4. phrases[marks[2]].to \notin 1..Len(sentence)
    BY <2>1, <2>2, <2>3, TokenKinds
  <2>. QED BY <1>3, <2>1, <2>2, <2>4
<1>8. phrases[marks[1]].to = Len(sentence)
  <2>1. phrases[marks[2]].to = phrases[marks[1]].to + 1 /\ phrases[marks[1]].to \in Nat
    BY <1>3, <1>4, <1>6 DEF IsToken
  <2>. QED BY <1>3, <1>7, <2>1
<1>. QED BY <1>1, <1>2, <1>3, <1>4, <1>5, <1>8

\* The history changes nothing: with it the steps are those of yyparse().
THEOREM OnlyHistory == HistorySpec => Spec
<1>1. HistoryInit => Init
  BY DEF HistoryInit
<1>2. [HistoryNext]_<<vars, history>> => [Next]_vars
  BY DEF HistoryNext, Next, vars
<1>. QED BY <1>1, <1>2, PTL DEF HistorySpec, Spec

\* Whatever the grammar, the ranks of its tokens and the file, yyparse() accepts only
\* what can be derived from the start symbol by the rules, with every token of the
\* file in its order, and leaves as the tree what their actions make of it; in a build
\* with assertions, of such as assert nothing wrong.
THEOREM FileDerivedHolds == HistorySpec => []FileDerived
<1>1. HistoryInit => DInv
  BY InitDInv
<1>2. DInv /\ [HistoryNext]_<<vars, history>> => DInv'
  BY NextDInv
<1>3. HistoryInit => Unasserted
  BY DEF HistoryInit, Unasserted, NoneAsserted
<1>4. DInv /\ Unasserted /\ [HistoryNext]_<<vars, history>> => Unasserted'
  BY NextUnasserted
<1>5. DInv /\ Unasserted => FileDerived
  BY DInvFileDerived
<1>. QED BY <1>1, <1>2, <1>3, <1>4, <1>5, PTL DEF HistorySpec

-----------------------------------------------------------------------------
(* What the actions make: the classes of the nodes.                          *)

\* What a class says of itself.
LEMMA ClassFields ==
    /\ \A base, parts : Derived(base, parts).base = base /\ Derived(base, parts).each = FALSE
    /\ \A base, part : ListOf(base, part).base = base /\ ListOf(base, part).each = TRUE
BY DEF Derived, ListOf

\* The base of a class goes by its kind, and so does what a list holds.
LEMMA ClassByKind ==
    ASSUME NEW e, NEW b, b.kind = e.kind
    PROVE  /\ ClassOf(b).base = ClassOf(e).base /\ (ClassOf(b).each <=> ClassOf(e).each)
           /\ ClassOf(e).each => ClassOf(b).parts[1] = ClassOf(e).parts[1]
<1>1. CASE e.kind \in DOMAIN Classes
  BY <1>1 DEF ClassOf
<1>2. CASE e.kind \notin DOMAIN Classes /\ e.kind \in DOMAIN Collections("")
  <2>1. ClassOf(b) = Collections(b.text)[e.kind] /\ ClassOf(e) = Collections(e.text)[e.kind]
    <3>1. /\ b.kind = e.kind /\ b.kind \notin DOMAIN Classes
          /\ b.kind \in DOMAIN Collections("") /\ e.kind \in DOMAIN Collections("")
      BY <1>2, Zenon
    <3>2. ClassOf(e) = Collections(e.text)[e.kind]
      BY <1>2, <3>1, Zenon DEF ClassOf
    <3>3. ClassOf(b) = Collections(b.text)[b.kind]
      BY <3>1, Zenon DEF ClassOf
    <3>. QED BY <3>1, <3>2, <3>3, Zenon
  <2>2. e.kind \in {"CollectionParamterDeclaration", "CollectionVariableDeclaration"}
    BY <1>2 DEF Collections
  <2>3. ASSUME NEW text PROVE
          /\ Collections(text).CollectionParamterDeclaration.base = "Statement"
          /\ Collections(text).CollectionParamterDeclaration.each = FALSE
          /\ Collections(text).CollectionVariableDeclaration.base = "VariableDeclaration"
          /\ Collections(text).CollectionVariableDeclaration.each = FALSE
    <3>1. \E parts : Collections(text).CollectionParamterDeclaration = Derived("Statement", parts)
      BY Zenon DEF Collections
    <3>2. \E parts : Collections(text).CollectionVariableDeclaration = Derived("VariableDeclaration", parts)
      BY Zenon DEF Collections
    <3>. QED BY <3>1, <3>2, ClassFields
  <2>4. CASE e.kind = "CollectionParamterDeclaration"
    BY <2>1, <2>3, <2>4
  <2>5. CASE e.kind = "CollectionVariableDeclaration"
    BY <2>1, <2>3, <2>5
  <2>. QED BY <2>2, <2>4, <2>5
<1>3. CASE /\ e.kind \notin DOMAIN Classes /\ e.kind \notin DOMAIN Collections("")
           /\ e.kind \in DOMAIN Switches("")
  <2>1. ClassOf(b) = Switches(b.text)[e.kind] /\ ClassOf(e) = Switches(e.text)[e.kind]
    <3>1. /\ b.kind = e.kind /\ b.kind \notin DOMAIN Classes /\ b.kind \notin DOMAIN Collections("")
          /\ b.kind \in DOMAIN Switches("") /\ e.kind \in DOMAIN Switches("")
      BY <1>3, Zenon
    <3>2. ClassOf(e) = Switches(e.text)[e.kind]
      BY <1>3, <3>1, Zenon DEF ClassOf
    <3>3. ClassOf(b) = Switches(b.text)[b.kind]
      BY <3>1, Zenon DEF ClassOf
    <3>. QED BY <3>1, <3>2, <3>3, Zenon
  <2>2. e.kind \in {"SwitchLabel", "SwitchSection", "SwitchSections", "SwitchStatement"}
    BY <1>3 DEF Switches
  <2>3. ASSUME NEW text PROVE
          /\ Switches(text).SwitchLabel.base = "Node" /\ Switches(text).SwitchLabel.each = FALSE
          /\ Switches(text).SwitchSection.base = "Node" /\ Switches(text).SwitchSection.each = FALSE
          /\ Switches(text).SwitchSections = ListOf("Node", Ref("SwitchSection"))
          /\ Switches(text).SwitchStatement.base = "Statement" /\ Switches(text).SwitchStatement.each = FALSE
    <3>1. \E parts : Switches(text).SwitchLabel = Derived("Node", parts)
      BY Zenon DEF Switches
    <3>2. \E parts : Switches(text).SwitchSection = Derived("Node", parts)
      BY Zenon DEF Switches
    <3>3. Switches(text).SwitchSections = ListOf("Node", Ref("SwitchSection"))
      BY Zenon DEF Switches
    <3>4. \E parts : Switches(text).SwitchStatement = Derived("Statement", parts)
      BY Zenon DEF Switches
    <3>. QED BY <3>1, <3>2, <3>3, <3>4, ClassFields
  <2>4. CASE e.kind = "SwitchLabel"
    BY <2>1, <2>3, <2>4
  <2>5. CASE e.kind = "SwitchSection"
    BY <2>1, <2>3, <2>5
  <2>6. CASE e.kind = "SwitchSections"
    BY <2>1, <2>3, <2>6
  <2>7. CASE e.kind = "SwitchStatement"
    BY <2>1, <2>3, <2>7
  <2>. QED BY <2>2, <2>4, <2>5, <2>6, <2>7
<1>4. CASE /\ e.kind \notin DOMAIN Classes /\ e.kind \notin DOMAIN Collections("")
           /\ e.kind \notin DOMAIN Switches("")
  BY <1>4 DEF ClassOf
<1>. QED BY <1>1, <1>2, <1>3, <1>4

\* A node of a kind is of that kind.
LEMMA BlankKind == ASSUME NEW kind PROVE Blank(kind).kind = kind
BY Zenon DEF Blank, Node

\* So does what it may be read as.
LEMMA FitsByKind ==
    ASSUME NEW e, NEW b, b.kind = e.kind, NEW class, Fits(b, class)
    PROVE  Fits(e, class)
BY ClassByKind DEF Fits, IsA, Chain, IsNode

\* The text of a node does not matter to the classes of this kind.
LEMMA ClassOfTokens ==
    ASSUME NEW e, NEW b, b.kind = e.kind, b.text = e.text \/ e.kind \in DOMAIN Classes
    PROVE  ClassOf(e) = ClassOf(b)
BY DEF ClassOf

\* There is a least number in a set of numbers.
LEMMA Least ==
    ASSUME NEW T, T \subseteq Nat, T # {}
    PROVE  \E m \in T : \A k \in T : ~(k < m)
<1>. DEFINE R == {pair \in Nat \X Nat : pair[1] < pair[2]}
<1>1. IsWellFoundedOn(R, Nat)
  BY NatLessThanWellFounded DEF OpToRel
<1>2. PICK m \in T : \A k \in T : <<k, m>> \notin R
  BY <1>1, WFMin
<1>. QED BY <1>2

\* The actions do what the rules name, but where they assert.
ActionsOfRules ==
    \A n \in RuleNumbers \ {0} : \A values :
        ~Asserts(n, values) => Semantic(n, values) = ValueOf(Rules, n, values)

\* The value of phrase i of found, if it is of a nonterminal, is a node of one of its
\* kinds, which fits.
Sound(kinds, found, i) ==
    LET e == found[i].value IN
    found[i].symbol \in Nonterminals =>
        /\ found[i].symbol \in DOMAIN kinds /\ e.kind \in kinds[found[i].symbol]
        /\ e = Node(e.kind, e.text, e.parts) /\ e.parts \in Seq(Range(e.parts))
        /\ NodeFits(found, i)

\* What a phrase that follows from a rule has from it.
LEMMA RuleFacts ==
    ASSUME NEW kinds, ActionsTyped(kinds), ActionsOfRules, NEW found, NEW i, FollowsRule(found, i),
           ~Asserted(found, i)
    PROVE  LET rule  == Rules[found[i].rule]
               parts == found[i].parts
           IN  /\ found[i].symbol = rule.lhs /\ rule.lhs \in LeftHandSides
               /\ ActionTyped(kinds, rule)
               /\ Len(rule.rhs) \in Nat
               /\ \A k \in 1..Len(rule.rhs) : parts[k] \in 1..(i - 1) /\ found[parts[k]].symbol = rule.rhs[k]
               /\ found[i].value = ValueOf(Rules, found[i].rule,
                                           [k \in 1..Len(rule.rhs) |-> found[parts[k]].value])
<1>. DEFINE n == found[i].rule
<1>1. n \in RuleNumbers \ {0} /\ found[i].symbol = Lhs(n) /\ Len(found[i].parts) = Len(Rhs(n))
  BY DEF FollowsRule
<1>2. Lhs(n) = Rules[n].lhs /\ Rhs(n) = Rules[n].rhs
  BY <1>1 DEF Lhs, Rhs
<1>3. Len(Rhs(n)) \in Nat
  BY <1>1, TablesAssumption DEF TablesAssumption
<1>4. Lhs(n) \in LeftHandSides /\ ActionTyped(kinds, Rules[n])
  BY <1>1 DEF LeftHandSides, ActionsTyped
<1>5. \A k \in 1..Len(Rhs(n)) : found[i].parts[k] \in 1..(i - 1) /\ found[found[i].parts[k]].symbol = Rhs(n)[k]
  BY <1>1 DEF FollowsRule
<1>6. found[i].value = ValueOf(Rules, n, [k \in 1..Len(Rhs(n)) |-> found[found[i].parts[k]].value])
  <2>1. PartValues(found, i) = [k \in 1..Len(Rhs(n)) |-> found[found[i].parts[k]].value]
    BY <1>1 DEF PartValues
  <2>2. found[i].value = Semantic(n, PartValues(found, i)) /\ ~Asserts(n, PartValues(found, i))
    BY <1>1 DEF FollowsRule, Asserted
  <2>. QED BY <1>1, <2>1, <2>2 DEF ActionsOfRules
<1>. HIDE DEF n
<1>. QED BY <1>1, <1>2, <1>3, <1>4, <1>5, <1>6 DEF n

\* A value that a rule may use is a node found before, of the kinds of its symbol.
LEMMA PartFacts ==
    ASSUME NEW kinds, ActionsTyped(kinds), NEW found, NEW i \in Nat,
           \A h \in 1..(i - 1) : Sound(kinds, found, h),
           NEW h \in 1..(i - 1), found[h].symbol \in DOMAIN kinds
    PROVE  LET e == found[h].value IN
           /\ found[h].symbol \in Nonterminals
           /\ e.kind \in kinds[found[h].symbol] /\ ~IsNull(e)
           /\ e = Node(e.kind, e.text, e.parts) /\ e.parts \in Seq(Range(e.parts))
           /\ NodeFits(found, h)
           /\ \A class : AllFit(kinds, found[h].symbol, class) => Fits(e, class)
<1>1. found[h].symbol \in Nonterminals /\ found[h].symbol \in LeftHandSides
  BY DEF ActionsTyped, LeftHandSides, Nonterminals
<1>2. /\ found[h].value.kind \in kinds[found[h].symbol]
      /\ found[h].value = Node(found[h].value.kind, found[h].value.text, found[h].value.parts)
      /\ found[h].value.parts \in Seq(Range(found[h].value.parts))
      /\ NodeFits(found, h)
  BY <1>1 DEF Sound
<1>3. ~IsNull(found[h].value)
  BY <1>1, <1>2 DEF ActionsTyped, IsNull
<1>4. ASSUME NEW class, AllFit(kinds, found[h].symbol, class) PROVE Fits(found[h].value, class)
  <2>1. Fits(Blank(found[h].value.kind), class)
    BY <1>2, <1>4 DEF AllFit
  <2>2. Blank(found[h].value.kind).kind = found[h].value.kind
    BY BlankKind
  <2>. QED BY <2>1, <2>2, FitsByKind
<1>. QED BY <1>1, <1>2, <1>3, <1>4

\* Handing on a value of fewer kinds.
LEMMA SoundPass ==
    ASSUME NEW kinds, ActionsTyped(kinds), NEW found, NEW i \in Nat,
           \A h \in 1..(i - 1) : Sound(kinds, found, h), found[i].symbol \in DOMAIN kinds,
           NEW h \in 1..(i - 1), found[h].symbol \in DOMAIN kinds,
           kinds[found[h].symbol] \subseteq kinds[found[i].symbol], found[i].value = found[h].value
    PROVE  Sound(kinds, found, i)
<1>. DEFINE e == found[h].value
<1>1. /\ e.kind \in kinds[found[h].symbol] /\ e = Node(e.kind, e.text, e.parts)
      /\ e.parts \in Seq(Range(e.parts)) /\ NodeFits(found, h)
  BY PartFacts
<1>2. \A g \in 1..(h - 1) : g \in 1..(i - 1)
  OBVIOUS
<1>3. NodeFits(found, i)
  BY <1>1, <1>2 DEF NodeFits
<1>. QED BY <1>1, <1>3 DEF Sound

\* The list e has a part more than list.
IsLonger(list, added, e) ==
    /\ e = Node(list.kind, list.text, e.parts)
    /\ e.parts \in Seq(Range(e.parts)) /\ Len(e.parts) = Len(list.parts) + 1
    /\ Len(list.parts) \in Nat
    /\ e.parts[Len(list.parts) + 1] = added
    /\ \A j \in 1..Len(list.parts) : e.parts[j] = list.parts[j]

\* A part is added at the end.
LEMMA Longer ==
    ASSUME NEW list, list.parts \in Seq(Range(list.parts)), NEW added,
           NEW e, e = Node(list.kind, list.text, Append(list.parts, added))
    PROVE  IsLonger(list, added, e)
<1>. DEFINE parts == list.parts
<1>1. e.parts = Append(parts, added) /\ e = Node(list.kind, list.text, e.parts)
  BY DEF Node
<1>. HIDE DEF parts
<1>2. /\ Append(parts, added) \in Seq(Range(Append(parts, added)))
      /\ Len(Append(parts, added)) = Len(parts) + 1 /\ Len(parts) \in Nat
  BY AppendRange DEF parts
<1>3. PICK S : parts \in Seq(S) /\ added \in S
  <2>1. parts \in Seq(Range(parts) \union {added})
    BY DEF parts
  <2>. QED BY <2>1
<1>4. /\ Append(parts, added)[Len(parts) + 1] = added
      /\ \A j \in 1..Len(parts) : Append(parts, added)[j] = parts[j]
  BY <1>3
<1>. QED BY <1>1, <1>2, <1>4 DEF parts, IsLonger

\* Adding to a list what every list of its kind may hold.
LEMMA SoundAppend ==
    ASSUME NEW kinds, ActionsTyped(kinds), NEW found, NEW i \in Nat,
           \A h \in 1..(i - 1) : Sound(kinds, found, h), found[i].symbol \in DOMAIN kinds,
           NEW l \in 1..(i - 1), found[l].symbol = found[i].symbol,
           NEW h \in 1..(i - 1), found[h].symbol \in DOMAIN kinds,
           \A kind \in kinds[found[i].symbol] :
               /\ ClassOf(Blank(kind)).each
               /\ AllFit(kinds, found[h].symbol, ClassOf(Blank(kind)).parts[1].class),
           found[i].value = [found[l].value EXCEPT !.parts = Append(@, found[h].value)]
    PROVE  Sound(kinds, found, i)
<1>. DEFINE list  == found[l].value
            added == found[h].value
            e     == found[i].value
            blank == Blank(list.kind)
<1>1. /\ list.kind \in kinds[found[i].symbol] /\ list = Node(list.kind, list.text, list.parts)
      /\ list.parts \in Seq(Range(list.parts)) /\ NodeFits(found, l)
  <2>1. found[l].symbol \in DOMAIN kinds
    OBVIOUS
  <2>2. /\ list.kind \in kinds[found[l].symbol] /\ list = Node(list.kind, list.text, list.parts)
        /\ list.parts \in Seq(Range(list.parts)) /\ NodeFits(found, l)
    BY <2>1, PartFacts
  <2>. QED BY <2>2
<1>2. /\ found[h].symbol \in Nonterminals /\ ~IsNull(added)
      /\ \A class : AllFit(kinds, found[h].symbol, class) => Fits(added, class)
  BY PartFacts
<1>3. e = [list EXCEPT !.parts = Append(@, added)]
  OBVIOUS
<1>. HIDE DEF e, list, added, blank
<1>4. /\ e = Node(list.kind, list.text, e.parts)
      /\ e.parts \in Seq(Range(e.parts)) /\ Len(e.parts) = Len(list.parts) + 1
      /\ Len(list.parts) \in Nat
      /\ e.parts[Len(list.parts) + 1] = added
      /\ \A j \in 1..Len(list.parts) : e.parts[j] = list.parts[j]
  <2>1. e = Node(list.kind, list.text, Append(list.parts, added))
    BY <1>1, <1>3 DEF Node
  <2>2. IsLonger(list, added, e)
    BY <1>1, <2>1, Longer
  <2>. QED BY <2>2 DEF IsLonger
<1>5. e.kind = list.kind /\ e.text = list.text
  BY <1>4 DEF Node
<1>6. ClassOf(e) = ClassOf(list)
  BY <1>5, ClassOfTokens
<1>7. ClassOf(list).each /\ ClassOf(blank).parts[1] = ClassOf(list).parts[1]
  <2>1. blank.kind = list.kind /\ ClassOf(blank).each
    BY <1>1, BlankKind DEF blank
  <2>. QED BY <2>1, ClassByKind
<1>8. \A j : PartOf(e, j) = ClassOf(list).parts[1] /\ PartOf(list, j) = ClassOf(list).parts[1]
  BY <1>6, <1>7 DEF PartOf
<1>9. Fits(added, ClassOf(list).parts[1].class)
  <2>1. AllFit(kinds, found[h].symbol, ClassOf(blank).parts[1].class)
    BY <1>1 DEF blank
  <2>. QED BY <1>2, <1>7, <2>1
<1>10. ASSUME NEW j \in DOMAIN e.parts
       PROVE  IF IsNull(e.parts[j]) THEN PartOf(e, j).optional
              ELSE /\ Fits(e.parts[j], PartOf(e, j).class)
                   /\ \E g \in 1..(i - 1) : found[g].symbol \in Nonterminals /\ found[g].value = e.parts[j]
  <2>1. j \in 1..Len(list.parts) \/ j = Len(list.parts) + 1
    BY <1>4
  <2>2. CASE j \in 1..Len(list.parts)
    <3>1. j \in DOMAIN list.parts /\ e.parts[j] = list.parts[j]
      BY <1>1, <1>4, <2>2
    <3>2. IF IsNull(list.parts[j]) THEN PartOf(list, j).optional
          ELSE /\ Fits(list.parts[j], PartOf(list, j).class)
               /\ \E g \in 1..(l - 1) : found[g].symbol \in Nonterminals /\ found[g].value = list.parts[j]
      BY <1>1, <3>1 DEF NodeFits, list
    <3>3. PartOf(e, j) = PartOf(list, j)
      BY <1>8
    <3>4. \A g \in 1..(l - 1) : g \in 1..(i - 1)
      OBVIOUS
    <3>. QED BY <3>1, <3>2, <3>3, <3>4
  <2>3. CASE j = Len(list.parts) + 1
    <3>1. e.parts[j] = added /\ PartOf(e, j) = ClassOf(list).parts[1]
      BY <1>4, <1>8, <2>3
    <3>. QED BY <1>2, <1>9, <3>1 DEF added
  <2>. QED BY <2>1, <2>2, <2>3
<1>11. Constructed(e)
  BY <1>6, <1>7 DEF Constructed
<1>12. NodeFits(found, i)
  BY <1>10, <1>11 DEF NodeFits, e
<1>13. e = Node(e.kind, e.text, e.parts) /\ e.kind \in kinds[found[i].symbol]
  BY <1>1, <1>4, <1>5
<1>. QED BY <1>4, <1>12, <1>13 DEF Sound, e

\* A function on the first numbers is a sequence.
LEMMA Tuple ==
    ASSUME NEW n \in Nat, NEW s, s = [j \in 1..n |-> s[j]]
    PROVE  s \in Seq(Range(s)) /\ Len(s) = n /\ DOMAIN s = 1..n
<1>1. \A j \in 1..n : s[j] \in Range(s)
  BY DEF Range
<1>2. s \in [1..n -> Range(s)]
  BY <1>1
<1>. QED BY <1>2

LEMMA NullIsNull == IsNull(Null)
BY Zenon DEF IsNull, Null, Node

LEMMA NodeFields ==
    ASSUME NEW kind, NEW text, NEW parts, NEW e, e = Node(kind, text, parts)
    PROVE  e.kind = kind /\ e.text = text /\ e.parts = parts /\ e = Node(e.kind, e.text, e.parts)
BY DEF Node

\* What a rule names of the phrases at.
Given(found, rule, at) ==
    [j \in DOMAIN rule.parts |-> IF rule.parts[j] = 0 THEN Null ELSE found[at[rule.parts[j]]].value]

\* Constructing a node of what the rule names.
LEMMA SoundNew ==
    ASSUME NEW kinds, ActionsTyped(kinds), NEW found, NEW i \in Nat,
           \A h \in 1..(i - 1) : Sound(kinds, found, h),
           NEW rule, Constructs(kinds, rule), Len(rule.rhs) \in Nat,
           found[i].symbol = rule.lhs, rule.lhs \in LeftHandSides,
           NEW at, \A k \in 1..Len(rule.rhs) : at[k] \in 1..(i - 1) /\ found[at[k]].symbol = rule.rhs[k],
           NEW text, text = rule.text \/ rule.kind \in DOMAIN Classes,
           found[i].value = Node(rule.kind, text, Given(found, rule, at))
    PROVE  Sound(kinds, found, i)
<1>. DEFINE e     == found[i].value
            blank == Node(rule.kind, rule.text, <<>>)
            given(j) == IF rule.parts[j] = 0 THEN Null ELSE found[at[rule.parts[j]]].value
<1>1. /\ rule.parts \in Seq(0..Len(rule.rhs)) /\ Len(rule.parts) \in Nat
      /\ DOMAIN rule.parts = 1..Len(rule.parts)
      /\ \A j \in 1..Len(rule.parts) : rule.parts[j] \in 0..Len(rule.rhs)
  BY DEF Constructs
<1>2. e = Node(rule.kind, text, [j \in 1..Len(rule.parts) |-> given(j)])
  BY <1>1 DEF Given
<1>. HIDE DEF e, given, blank
<1>3. /\ e.kind = rule.kind /\ e.text = text /\ e.parts = [j \in 1..Len(rule.parts) |-> given(j)]
      /\ e = Node(e.kind, e.text, e.parts)
  BY <1>2, NodeFields
<1>4. e.parts \in Seq(Range(e.parts)) /\ Len(e.parts) = Len(rule.parts) /\ DOMAIN e.parts = 1..Len(rule.parts)
  <2>1. e.parts = [j \in 1..Len(rule.parts) |-> e.parts[j]]
    BY <1>3
  <2>. QED BY <1>1, <2>1, Tuple
<1>5. ClassOf(e) = ClassOf(blank)
  <2>1. blank.kind = rule.kind /\ blank.text = rule.text
    BY NodeFields DEF blank
  <2>. QED BY <1>3, <2>1, ClassOfTokens
<1>6. Constructed(e) /\ rule.kind \in kinds[rule.lhs]
  BY <1>4, <1>5 DEF Constructed, Constructs, blank
<1>7. ASSUME NEW j \in DOMAIN e.parts
      PROVE  IF IsNull(e.parts[j]) THEN PartOf(e, j).optional
             ELSE /\ Fits(e.parts[j], PartOf(e, j).class)
                  /\ \E h \in 1..(i - 1) : found[h].symbol \in Nonterminals /\ found[h].value = e.parts[j]
  <2>1. j \in 1..Len(rule.parts) /\ e.parts[j] = given(j) /\ rule.parts[j] \in 0..Len(rule.rhs)
    BY <1>1, <1>3, <1>4
  <2>2. IF rule.parts[j] = 0 THEN PartOf(e, j).optional
        ELSE AllFit(kinds, rule.rhs[rule.parts[j]], PartOf(e, j).class)
    BY <1>5, <2>1 DEF Constructs, PartOf, blank
  <2>3. CASE rule.parts[j] = 0
    BY <2>1, <2>2, <2>3, NullIsNull DEF given
  <2>4. CASE rule.parts[j] # 0
    <3>1. rule.parts[j] \in 1..Len(rule.rhs)
      BY <2>1, <2>4
    <3>. DEFINE h == at[rule.parts[j]]
    <3>2. h \in 1..(i - 1) /\ found[h].symbol = rule.rhs[rule.parts[j]] /\ e.parts[j] = found[h].value
      BY <2>1, <2>4, <3>1 DEF given
    <3>. HIDE DEF h
    <3>3. found[h].symbol \in DOMAIN kinds /\ AllFit(kinds, found[h].symbol, PartOf(e, j).class)
      BY <2>2, <2>4, <3>2 DEF AllFit
    <3>4. /\ found[h].symbol \in Nonterminals /\ ~IsNull(found[h].value)
          /\ \A class : AllFit(kinds, found[h].symbol, class) => Fits(found[h].value, class)
      BY <3>2, <3>3, PartFacts
    <3>. QED BY <3>2, <3>3, <3>4
  <2>. QED BY <2>3, <2>4
<1>8. NodeFits(found, i)
  BY <1>6, <1>7 DEF NodeFits, e
<1>9. found[i].symbol \in DOMAIN kinds
  BY DEF ActionsTyped
<1>. QED BY <1>3, <1>4, <1>6, <1>8, <1>9 DEF Sound, e

\* What follows from a rule is sound, if what was found before is.
LEMMA RuleSound ==
    ASSUME NEW kinds, ActionsTyped(kinds), ActionsOfRules, NEW found, NEW i \in Nat,
           \A h \in 1..(i - 1) : Sound(kinds, found, h), FollowsRule(found, i), ~Asserted(found, i)
    PROVE  Sound(kinds, found, i)
<1>. DEFINE n      == found[i].rule
            rule   == Rules[n]
            at     == found[i].parts
            values == [k \in 1..Len(rule.rhs) |-> found[at[k]].value]
<1>1. /\ found[i].symbol = rule.lhs /\ rule.lhs \in LeftHandSides /\ ActionTyped(kinds, rule)
      /\ Len(rule.rhs) \in Nat
      /\ \A k \in 1..Len(rule.rhs) : at[k] \in 1..(i - 1) /\ found[at[k]].symbol = rule.rhs[k]
      /\ found[i].value = ValueOf(Rules, n, values)
  BY RuleFacts
<1>2. DOMAIN kinds = LeftHandSides
  BY DEF ActionsTyped
<1>3. \A k \in 1..Len(rule.rhs) : values[k] = found[at[k]].value
  OBVIOUS
<1>. HIDE DEF n, at, values
<1>4. CASE rule.kind = "pass"
  <2>1. HandsOn(kinds, rule)
    BY <1>1, <1>4 DEF ActionTyped
  <2>2. found[i].value = values[rule.parts[1]]
    BY <1>1, <1>4 DEF ValueOf
  <2>. DEFINE h == at[rule.parts[1]]
  <2>3. /\ h \in 1..(i - 1) /\ found[h].symbol = rule.rhs[rule.parts[1]]
        /\ found[i].value = found[h].value
        /\ found[h].symbol \in DOMAIN kinds /\ kinds[found[h].symbol] \subseteq kinds[found[i].symbol]
    BY <1>1, <1>3, <2>1, <2>2 DEF HandsOn
  <2>4. found[i].symbol \in DOMAIN kinds
    BY <1>1, <1>2
  <2>. HIDE DEF h, rule
  <2>. QED BY <2>3, <2>4, SoundPass
<1>5. CASE rule.kind = "append"
  <2>1. Adds(kinds, rule)
    BY <1>1, <1>5 DEF ActionTyped
  <2>2. found[i].value = [values[1] EXCEPT !.parts = Append(@, values[rule.parts[1]])]
    BY <1>1, <1>5 DEF ValueOf
  <2>. DEFINE l == at[1]
              h == at[rule.parts[1]]
  <2>3. /\ l \in 1..(i - 1) /\ found[l].symbol = found[i].symbol /\ values[1] = found[l].value
        /\ h \in 1..(i - 1) /\ found[h].symbol = rule.rhs[rule.parts[1]]
        /\ values[rule.parts[1]] = found[h].value
    BY <1>1, <1>3, <2>1 DEF Adds
  <2>4. found[i].value = [found[l].value EXCEPT !.parts = Append(@, found[h].value)]
    BY <2>2, <2>3
  <2>5. found[i].symbol \in DOMAIN kinds
    BY <1>1, <1>2
  <2>6. /\ found[h].symbol \in DOMAIN kinds
        /\ \A kind \in kinds[found[i].symbol] :
               /\ ClassOf(Blank(kind)).each
               /\ AllFit(kinds, found[h].symbol, ClassOf(Blank(kind)).parts[1].class)
    <3>1. \E kind : kind \in kinds[found[l].symbol]
      <4>1. found[l].symbol \in Nonterminals
        BY <2>3, <2>5 DEF ActionsTyped, LeftHandSides, Nonterminals
      <4>. QED BY <2>3, <4>1 DEF Sound
    <3>2. \A kind \in kinds[found[i].symbol] :
               /\ ClassOf(Blank(kind)).each
               /\ AllFit(kinds, found[h].symbol, ClassOf(Blank(kind)).parts[1].class)
      BY <1>1, <2>1, <2>3 DEF Adds
    <3>. QED BY <2>3, <3>1, <3>2 DEF AllFit
  <2>. HIDE DEF h, l, rule
  <2>. QED BY <2>3, <2>4, <2>5, <2>6, SoundAppend
<1>6. CASE rule.kind # "pass" /\ rule.kind # "append"
  <2>1. Constructs(kinds, rule)
    BY <1>1, <1>6 DEF ActionTyped
  <2>. DEFINE text == IF rule.text = "$1" THEN values[1].text ELSE rule.text
  <2>2. text = rule.text \/ rule.kind \in DOMAIN Classes
    BY <2>1 DEF Constructs
  <2>3. ASSUME NEW j \in DOMAIN rule.parts, rule.parts[j] # 0
        PROVE  values[rule.parts[j]] = found[at[rule.parts[j]]].value
    <3>1. rule.parts[j] \in 1..Len(rule.rhs)
      BY <1>1, <2>1, <2>3 DEF Constructs
    <3>. QED BY <1>3, <3>1
  <2>4. [j \in DOMAIN rule.parts |-> IF rule.parts[j] = 0 THEN Null ELSE values[rule.parts[j]]]
        = Given(found, rule, at)
    BY <2>3 DEF Given
  <2>5. found[i].value = Node(rule.kind, text, Given(found, rule, at))
    BY <1>1, <1>6, <2>4 DEF ValueOf
  <2>. HIDE DEF text, rule
  <2>. QED BY <1>1, <2>1, <2>2, <2>5, SoundNew
<1>. QED BY <1>4, <1>5, <1>6

\* In a derivation every node is sound: a least one that is not would be of a rule.
LEMMA DerivationSound ==
    ASSUME NEW kinds, ActionsTyped(kinds), ActionsOfRules,
           NEW text, \A j \in 1..Len(text) : text[j].kind \in Terminals,
           NEW found, Len(found) \in Nat, IsDerivation(text, found), NoneAsserted(found)
    PROVE  \A i \in 1..Len(found) : Sound(kinds, found, i)
<1>. DEFINE Wrong == {i \in 1..Len(found) : ~Sound(kinds, found, i)}
<1>. SUFFICES ASSUME Wrong # {} PROVE FALSE
  OBVIOUS
<1>1. PICK i \in Wrong : \A k \in Wrong : ~(k < i)
  <2>1. Wrong \subseteq Nat
    OBVIOUS
  <2>. HIDE DEF Wrong
  <2>. QED BY <2>1, Least
<1>2. i \in 1..Len(found) /\ i \in Nat /\ \A h \in 1..(i - 1) : Sound(kinds, found, h)
  <2>1. i \in 1..Len(found) /\ i \in Nat
    BY <1>1
  <2>2. ASSUME NEW h \in 1..(i - 1) PROVE Sound(kinds, found, h)
    <3>1. h \in 1..Len(found) /\ h < i
      BY <2>1
    <3>. QED BY <1>1, <3>1
  <2>. QED BY <2>1, <2>2
<1>3. CASE IsToken(text, found, i)
  <2>1. found[i].symbol \in Terminals
    BY <1>3 DEF IsToken
  <2>2. found[i].symbol \notin Nonterminals
    BY <2>1, TablesAssumption DEF TablesAssumption
  <2>. QED BY <1>1, <2>2 DEF Sound
<1>4. CASE FollowsRule(found, i)
  <2>1. ~Asserted(found, i)
    BY <1>2 DEF NoneAsserted
  <2>. QED BY <1>1, <1>2, <1>4, <2>1, RuleSound
<1>. QED BY <1>2, <1>3, <1>4 DEF IsDerivation

\* If each action of the grammar makes nodes that fit of such nodes as its symbols may
\* have, then in no file yyparse() accepts is there a node that does not fit: nothing
\* is read as what it is not, however the rules are combined.
THEOREM NodesFitHolds ==
    ASSUME NEW kinds, ActionsTyped(kinds), ActionsOfRules
    PROVE  HistorySpec => []NodesFit
<1>1. HistoryInit => DInv
  BY InitDInv
<1>2. DInv /\ [HistoryNext]_<<vars, history>> => DInv'
  BY NextDInv
<1>3. ASSUME DInv, NoneAsserted(phrases) PROVE NodesFit
  <2>1. Len(phrases) \in Nat /\ IsDerivation(Text, phrases)
    BY <1>3, Numbers DEF DInv, AllDerived
  <2>2. \A j \in 1..Len(Text) : Text[j].kind \in Terminals
    BY <1>3, Numbers, TokenKinds DEF Text
  <2>3. \A i \in 1..Len(phrases) : Sound(kinds, phrases, i)
    BY <1>3, <2>1, <2>2, DerivationSound
  <2>. QED BY <2>3 DEF NodesFit, Sound
<1>4. DInv => NodesFit
  BY <1>3 DEF NodesFit
<1>. QED BY <1>1, <1>2, <1>4, PTL DEF HistorySpec

=============================================================================
