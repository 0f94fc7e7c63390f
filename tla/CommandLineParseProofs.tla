----------------------- MODULE CommandLineParseProofs -----------------------
(* What a parse that returns has understood, and what it was given, for every *)
(* set of Args, set-up and command line.                                     *)
EXTENDS CommandLineProofs, WellFoundedInduction

-----------------------------------------------------------------------------
(* Types.                                                                    *)

\* What TypeOK leaves open, and which parse it is.
TypeInv ==
    /\ TypeOK /\ UsageInv
    /\ words \in Seq(Word) /\ values \in [Arg -> Seq(Word)]
    /\ status = "ready" => parses < MaxParses
    /\ parses = 0 => allowMore = {} /\ ~ignoreRest /\ status \in {"ready", "specification error"}

\* An Arg of the list is offered a word of the command line.
LEMMA Offered ==
    ASSUME TypeInv, Trying
    PROVE  /\ A \in Arg /\ W \in Word /\ status = "parsing"
           /\ i \in 1..Len(words) /\ k \in 1..Len(argList)
<1>1. i \in 1..Len(words) /\ k \in 1..Len(argList) /\ argList \in Seq(Arg) /\ words \in Seq(Word)
  <2>1. argList \in Seq(Arg) /\ words \in Seq(Word)
    BY DEF TypeInv, TypeOK
  <2>2. i \in 1..(Len(words) + 1) /\ k \in 1..(Len(argList) + 1)
    BY DEF TypeInv, TypeOK
  <2>3. i <= Len(words) /\ k <= Len(argList)
    BY DEF Trying
  <2>4. Len(words) \in Nat /\ Len(argList) \in Nat
    BY <2>1
  <2> QED BY <2>1, <2>2, <2>3, <2>4
<1> QED BY <1>1 DEF Trying, A, W

LEMMA ElementsFinite ==
    ASSUME NEW S, NEW s \in Seq(S)
    PROVE  Elements(s) \subseteq S /\ IsFiniteSet(Elements(s))
<1>1. Len(s) \in Nat /\ s \in [1..Len(s) -> S] /\ DOMAIN s = 1..Len(s)
  OBVIOUS
<1>2. s \in Surjection(1..Len(s), Elements(s))
  BY <1>1 DEF Surjection, Elements
<1>3. IsFiniteSet(Elements(s))
  BY <1>1, <1>2, FS_NatSurjection DEF ExistsSurjection
<1> QED BY <1>1, <1>3 DEF Elements

\* The group of an Arg, when the set-up is over.
LEMMA GroupsAreFinite ==
    ASSUME UsageInv, InUse, NEW a
    PROVE  /\ XorGroup(a) \subseteq Elements(argList) /\ XorGroup(a) \subseteq Arg
           /\ IsFiniteSet(XorGroup(a)) /\ Cardinality(XorGroup(a)) \in Nat
           /\ \A g \in xorList : a \in g => XorGroup(a) = g
           /\ a \notin UNION xorList => XorGroup(a) = {}
<1>1. /\ \A g \in xorList : g \subseteq Elements(argList)
      /\ \A g, h \in xorList : g # h => g \intersect h = {}
      /\ argList \in Seq(Arg)
  BY NothingPending DEF UsageInv, SetupTypes
<1>2. XorGroup(a) \subseteq Elements(argList)
  BY <1>1 DEF XorGroup
<1>3. XorGroup(a) \subseteq Arg /\ IsFiniteSet(XorGroup(a))
  BY <1>1, <1>2, ElementsFinite, FS_Subset
<1>4. Cardinality(XorGroup(a)) \in Nat
  BY <1>3, FS_CardinalityType
<1>5. ASSUME NEW g \in xorList, a \in g PROVE XorGroup(a) = g
  <2>1. \A h \in xorList : a \in h => h = g
    <3>1. ASSUME NEW h \in xorList, a \in h PROVE h = g
      <4>1. a \in g \intersect h
        BY <1>5, <3>1
      <4> QED BY <1>1, <4>1
    <3> QED BY <3>1
  <2>2. {h \in xorList : a \in h} = {g}
    BY <1>5, <2>1
  <2> QED BY <2>2 DEF XorGroup
<1>6. a \notin UNION xorList => XorGroup(a) = {}
  BY DEF XorGroup
<1> QED BY <1>2, <1>3, <1>4, <1>5, <1>6

\* Everything of TypeInv that a parse can change.
ParseTypes ==
    /\ ignoreRest \in BOOLEAN
    /\ alreadySet \subseteq Arg /\ xorSet \subseteq alreadySet \intersect UNION xorList
    /\ allowMore \subseteq UNION xorList
    /\ count \in [Arg -> Nat]
    /\ \A a \in Arg : values[a] # <<>> => a \in alreadySet
    /\ i \in 1..(Len(words) + 1) /\ k \in 1..(Len(argList) + 1)
    /\ requiredCount \in Nat
    /\ uses \subseteq [word : 1..Len(words), by : Arg, as : {"flag", "value"}]
    /\ status \in Status /\ parses \in 0..MaxParses
    /\ words \in Seq(Word) /\ values \in [Arg -> Seq(Word)]
    /\ status = "ready" => parses < MaxParses
    /\ parses = 0 => allowMore = {} /\ ~ignoreRest /\ status \in {"ready", "specification error"}

SetupOK ==
    /\ argList \in Seq(Arg) /\ required \subseteq Arg /\ numRequired \in Nat
    /\ xorList \subseteq SUBSET Arg /\ alreadyOptional \in BOOLEAN

LEMMA TypeParts == TypeInv <=> UsageInv /\ SetupOK /\ ParseTypes
BY DEF TypeInv, TypeOK, SetupOK, ParseTypes

LEMMA TypePartsNext == UsageInv' /\ SetupOK' /\ ParseTypes' => TypeInv'
BY DEF TypeInv, TypeOK, SetupOK, ParseTypes

\* An Arg is one of the switches every command line has, or the program's.
LEMMA HowDeclared ==
    ASSUME NEW a \in Arg
    PROVE  \/ Declared(a).kind = "SwitchArg" /\ Declared(a).required = FALSE
           \/ /\ a \in DOMAIN ArgObjects /\ Declared(a) = ArgObjects[a]
              /\ ArgObjects[a] \in ArgDeclaration
<1>1. CASE a \in DOMAIN BuiltIn
  <2>1. /\ BuiltIn.help.kind = "SwitchArg" /\ BuiltIn.help.required = FALSE
        /\ BuiltIn.version.kind = "SwitchArg" /\ BuiltIn.version.required = FALSE
        /\ BuiltIn.ignore.kind = "SwitchArg" /\ BuiltIn.ignore.required = FALSE
    BY DEF BuiltIn, SwitchArg, Construct
  <2>2. BuiltIn[a] \in {BuiltIn.help, BuiltIn.version, BuiltIn.ignore}
    <3>1. a \in {"help", "version", "ignore"}
      BY <1>1 DEF BuiltIn
    <3> QED BY <3>1
  <2> QED BY <1>1, <2>1, <2>2 DEF Declared
<1>2. CASE a \notin DOMAIN BuiltIn
  <2>1. a \in DOMAIN ArgObjects
    BY <1>2 DEF Arg
  <2> QED BY <1>2, <2>1, ArgObjectsAreConstructed DEF Declared, ArgObjectsAssumption
<1> QED BY <1>1, <1>2

LEMMA KindsAreKnown ==
    \A a \in Arg : Declared(a).kind \in ArgKind /\ Declared(a).required \in BOOLEAN
BY HowDeclared DEF ArgDeclaration, ArgKind

LEMMA WeightsAreNumbers ==
    ASSUME UsageInv, InUse, NEW a PROVE RequiredWeight(a) \in Nat
BY GroupsAreFinite DEF RequiredWeight

\* What XorHandler::check leaves of the types.
LEMMA MatchedTypes ==
    ASSUME TypeInv, status = "parsing", NEW a \in Arg, NEW next \in 1..(Len(words) + 1),
           Matched(a, next), UNCHANGED setupVars
    PROVE  /\ a \in alreadySet' /\ alreadySet \subseteq alreadySet' /\ alreadySet' \subseteq Arg
           /\ xorSet' \subseteq alreadySet' \intersect UNION xorList'
           /\ allowMore' \subseteq UNION xorList'
           /\ i' \in 1..(Len(words) + 1) /\ k' \in 1..(Len(argList') + 1)
           /\ requiredCount' \in Nat
<1>1. UsageInv /\ SetupOK /\ ParseTypes /\ InUse
  BY TypeParts DEF InUse
<1>2. XorGroup(a) \subseteq Arg /\ XorGroup(a) \subseteq UNION xorList
  BY <1>1, GroupsAreFinite DEF XorGroup
<1>3. alreadySet' \subseteq Arg /\ a \in alreadySet' /\ alreadySet \subseteq alreadySet'
  BY <1>1, <1>2 DEF Matched, ParseTypes
<1>4. xorSet' \subseteq alreadySet' \intersect UNION xorList'
  BY <1>1, <1>2 DEF Matched, ParseTypes, setupVars
<1>5. allowMore' \subseteq UNION xorList'
  <2>1. XorGroup(a) # {} => a \in UNION xorList
    BY DEF XorGroup
  <2> QED BY <1>1, <2>1 DEF Matched, ParseTypes, setupVars
<1>6. requiredCount' \in Nat
  <2>1. requiredCount \in Nat /\ RequiredWeight(a) \in Nat
    BY <1>1, WeightsAreNumbers DEF ParseTypes
  <2> QED BY <2>1 DEF Matched
<1>7. k' \in 1..(Len(argList') + 1)
  <2>1. argList' \in Seq(Arg)
    BY <1>1 DEF SetupOK, setupVars
  <2>2. Len(argList') \in Nat
    BY <2>1
  <2> QED BY <2>2 DEF Matched
<1> QED BY <1>3, <1>4, <1>5, <1>6, <1>7 DEF Matched

LEMMA OfferedTypes ==
    ASSUME TypeInv, Trying, UNCHANGED setupVars, k' = k + 1
    PROVE  k' \in 1..(Len(argList') + 1)
<1>1. argList' \in Seq(Arg) /\ k \in 1..Len(argList')
  BY Offered, TypeParts DEF SetupOK, setupVars
<1>2. Len(argList') \in Nat
  BY <1>1
<1> QED BY <1>1, <1>2

LEMMA UsesTypes ==
    ASSUME NEW n, uses \subseteq [word : 1..n, by : Arg, as : {"flag", "value"}],
           NEW a \in Arg, NEW flags \in SUBSET (1..n), NEW taken \in SUBSET (1..n),
           Uses(a, flags, taken)
    PROVE  uses' \subseteq [word : 1..n, by : Arg, as : {"flag", "value"}]
<1>1. \A j \in 1..n : \A as \in {"flag", "value"} :
        [word |-> j, by |-> a, as |-> as] \in [word : 1..n, by : Arg, as : {"flag", "value"}]
  OBVIOUS
<1>2. \A u \in uses' :
        \/ u \in uses
        \/ \E j \in flags : u = [word |-> j, by |-> a, as |-> "flag"]
        \/ \E j \in taken : u = [word |-> j, by |-> a, as |-> "value"]
  BY DEF Uses
<1> QED BY <1>1, <1>2

LEMMA ThrowTypes == TypeInv /\ status = "parsing" /\ Throw => ParseTypes'
<1> SUFFICES ASSUME TypeInv, status = "parsing", Throw PROVE ParseTypes'
  OBVIOUS
<1>1. ParseTypes /\ parses # 0
  BY TypeParts DEF ParseTypes
<1>2. UNCHANGED <<setupVars, argVars, loopVars, parses>> /\ status' = "exit 1"
  BY DEF Throw
<1> QED BY <1>1, <1>2 DEF ParseTypes, setupVars, argVars, loopVars, Status

LEMMA VisitTypes ==
    ASSUME TypeInv, status = "parsing", NEW a, Visit(a)
    PROVE  ignoreRest' \in BOOLEAN /\ status' \in {"parsing", "exit 0"} /\ parses # 0
<1>1. ignoreRest \in BOOLEAN /\ parses # 0
  BY DEF TypeInv, TypeOK
<1>2. ignoreRest' \in BOOLEAN
  BY <1>1 DEF Visit, BeginsIgnoring
<1> QED BY <1>1, <1>2 DEF Visit

\* The steps that leave the words as they are, but for one that is blanked.
LEMMA TakeSwitchTypes == TypeInv /\ TakeSwitch => ParseTypes'
<1> SUFFICES ASSUME TypeInv, TakeSwitch, ~Throw PROVE ParseTypes'
  BY ThrowTypes DEF TakeSwitch, Trying
<1>1. /\ status = "parsing" /\ UNCHANGED <<setupVars, values, words, parses>>
      /\ count' = [count EXCEPT ![A] = @ + 1]
      /\ Visit(A) /\ Matched(A, i + 1) /\ Uses(A, {i}, {})
  BY DEF TakeSwitch, Trying
<1>2. A \in Arg /\ i \in 1..Len(words) /\ ParseTypes
  BY Offered, TypeParts DEF TakeSwitch
<1> HIDE DEF A
<1>3. i + 1 \in 1..(Len(words) + 1)
  <2>1. words \in Seq(Word)
    BY <1>2 DEF ParseTypes
  <2>2. Len(words) \in Nat
    BY <2>1
  <2> QED BY <1>2, <2>2
<1>4. /\ A \in alreadySet' /\ alreadySet \subseteq alreadySet' /\ alreadySet' \subseteq Arg
      /\ xorSet' \subseteq alreadySet' \intersect UNION xorList'
      /\ allowMore' \subseteq UNION xorList'
      /\ i' \in 1..(Len(words) + 1) /\ k' \in 1..(Len(argList') + 1)
      /\ requiredCount' \in Nat
  BY <1>1, <1>2, <1>3, MatchedTypes
<1>5. ignoreRest' \in BOOLEAN /\ status' \in {"parsing", "exit 0"} /\ parses # 0
  BY <1>1, VisitTypes
<1>6. count' \in [Arg -> Nat]
  BY <1>1, <1>2 DEF ParseTypes
<1>7. uses' \subseteq [word : 1..Len(words), by : Arg, as : {"flag", "value"}]
  BY <1>1, <1>2, UsesTypes DEF ParseTypes
<1> QED BY <1>1, <1>2, <1>4, <1>5, <1>6, <1>7 DEF ParseTypes, Status

\* Some natural numbers have a smallest among them.
Below == {p \in Nat \X Nat : p[1] < p[2]}
LEMMA SmallestOf ==
    ASSUME NEW S \in SUBSET Nat, S # {}
    PROVE  \E m \in S : \A x \in S : m <= x
<1>1. IsWellFoundedOn(Below, Nat)
  BY NatLessThanWellFounded DEF Below, OpToRel
<1>2. PICK m \in S : \A x \in S : ~(<<x, m>> \in Below)
  BY <1>1, WFMin
<1>3. \A x \in S : ~(x < m)
  BY <1>2 DEF Below
<1> QED BY <1>2, <1>3

LEMMA FunctionIsSeq ==
    ASSUME NEW S, NEW n \in Nat, NEW f \in [1..n -> S] PROVE f \in Seq(S) /\ Len(f) = n
OBVIOUS

LEMMA ExceptSeq ==
    ASSUME NEW S, NEW s \in Seq(S), NEW j \in 1..Len(s), NEW x \in S
    PROVE  [s EXCEPT ![j] = x] \in Seq(S) /\ Len([s EXCEPT ![j] = x]) = Len(s)
OBVIOUS

\* combinedSwitchesMatch blanks one letter, and leaves the others.
LEMMA LetterIsTaken ==
    ASSUME NEW w \in Word, NEW a, CombinedSwitchesMatch(a, w)
    PROVE  /\ TakeLetter(a, w) \in Word
           /\ TakeLetter(a, w).form = "short" /\ TakeLetter(a, w).value = NoValue
           /\ Len(TakeLetter(a, w).letters) = Len(w.letters)
           /\ HasBlanks(TakeLetter(a, w))
<1> DEFINE S == {j \in DOMAIN w.letters : w.letters[j] = Declared(a).flag}
           IsFirst(f) == f \in S /\ \A x \in 1..(f - 1) : w.letters[x] # Declared(a).flag
           first == CHOOSE f : IsFirst(f)
           rest == [w EXCEPT !.letters[first] = Blank]
<1>1. w.letters \in Seq(STRING \union {Blank}) /\ w.form = "short" /\ w.value = NoValue
      /\ w = [form |-> "short", letters |-> w.letters, value |-> NoValue]
  BY DEF CombinedSwitchesMatch, Word
<1>2. S # {} /\ S \subseteq Nat /\ DOMAIN w.letters = 1..Len(w.letters) /\ Len(w.letters) \in Nat
  BY <1>1 DEF CombinedSwitchesMatch
<1>3. PICK m \in S : \A x \in S : m <= x
  <2> HIDE DEF S
  <2> QED BY <1>2, SmallestOf
<1>4. m \in 1..Len(w.letters)
  BY <1>2
<1>5. \A x \in 1..(m - 1) : x \in DOMAIN w.letters /\ ~(m <= x)
  BY <1>2, <1>4
<1>6. IsFirst(m)
  BY <1>3, <1>5
<1>7. IsFirst(first)
  <2> HIDE DEF IsFirst
  <2> QED BY <1>6
<1>8. TakeLetter(a, w) = rest
  <2>1. first = CHOOSE f \in DOMAIN w.letters :
                    /\ w.letters[f] = Declared(a).flag
                    /\ \A x \in 1..(f - 1) : w.letters[x] # Declared(a).flag
    OBVIOUS
  <2> QED BY <2>1 DEF TakeLetter
<1>9. first \in 1..Len(w.letters)
  BY <1>2, <1>7
<1> HIDE DEF S, IsFirst, first
<1>10. /\ rest.form = "short" /\ rest.value = NoValue
       /\ rest.letters = [w.letters EXCEPT ![first] = Blank]
       /\ rest = [form |-> "short", letters |-> rest.letters, value |-> NoValue]
  BY <1>1
<1>11. /\ rest.letters \in Seq(STRING \union {Blank}) /\ Len(rest.letters) = Len(w.letters)
       /\ first \in DOMAIN rest.letters /\ rest.letters[first] = Blank
  <2> HIDE DEF rest
  <2>2. rest.letters \in Seq(STRING \union {Blank}) /\ Len(rest.letters) = Len(w.letters)
    BY <1>1, <1>9, <1>10, ExceptSeq
  <2>3. first \in DOMAIN rest.letters /\ rest.letters[first] = Blank
    BY <1>2, <1>9, <1>10
  <2> QED BY <2>2, <2>3
<1>12. rest \in Word
  BY <1>10, <1>11 DEF Word
<1> HIDE DEF rest
<1> QED BY <1>8, <1>10, <1>11, <1>12 DEF HasBlanks

\* MultiSwitchArg blanks all of its letters.
LEMMA LettersAreTaken ==
    ASSUME NEW w \in Word, NEW a, CombinedSwitchesMatch(a, w)
    PROVE  /\ TakeAllLetters(a, w) \in Word
           /\ TakeAllLetters(a, w).form = "short" /\ TakeAllLetters(a, w).value = NoValue
           /\ Len(TakeAllLetters(a, w).letters) = Len(w.letters)
           /\ HasBlanks(TakeAllLetters(a, w))
           /\ Cardinality(Occurrences(a, w)) \in Nat
<1> DEFINE rest == TakeAllLetters(a, w)
           letters == [j \in DOMAIN w.letters |-> IF j \in Occurrences(a, w) THEN Blank ELSE w.letters[j]]
<1>1. w.letters \in Seq(STRING \union {Blank}) /\ w.form = "short" /\ w.value = NoValue
      /\ w = [form |-> "short", letters |-> w.letters, value |-> NoValue]
  BY DEF CombinedSwitchesMatch, Word
<1>2. DOMAIN w.letters = 1..Len(w.letters) /\ Len(w.letters) \in Nat
  BY <1>1
<1>3. PICK j \in DOMAIN w.letters : j \in Occurrences(a, w)
  BY DEF CombinedSwitchesMatch, Occurrences
<1>4. letters \in Seq(STRING \union {Blank}) /\ Len(letters) = Len(w.letters) /\ j \in DOMAIN letters /\ letters[j] = Blank
  <2>2. letters \in [1..Len(w.letters) -> STRING \union {Blank}]
    BY <1>1, <1>2
  <2>3. letters[j] = Blank /\ j \in DOMAIN letters
    BY <1>3
  <2> HIDE DEF letters
  <2>4. letters \in Seq(STRING \union {Blank}) /\ Len(letters) = Len(w.letters)
    BY <1>2, <2>2, FunctionIsSeq
  <2> QED BY <2>3, <2>4
<1>5. rest = [form |-> "short", letters |-> letters, value |-> NoValue]
  BY <1>1 DEF TakeAllLetters
<1> HIDE DEF letters
<1>6. rest.form = "short" /\ rest.value = NoValue /\ rest.letters = letters
  BY <1>5
<1>7. rest \in Word
  <2>1. letters \in Seq(STRING \union {Blank})
    BY <1>4
  <2> HIDE DEF rest
  <2> QED BY <1>5, <2>1 DEF Word
<1>8. Cardinality(Occurrences(a, w)) \in Nat
  <2>1. Occurrences(a, w) \subseteq 1..Len(w.letters) /\ IsFiniteSet(1..Len(w.letters))
    BY <1>2, FS_Interval DEF Occurrences
  <2> QED BY <2>1, FS_Subset, FS_CardinalityType
<1> QED BY <1>4, <1>6, <1>7, <1>8 DEF HasBlanks

\* A word that is blanked stays a word.
LEMMA BlankedWords ==
    ASSUME TypeInv, Trying, NEW w \in Word, words' = [words EXCEPT ![i] = w]
    PROVE  /\ words' \in Seq(Word) /\ Len(words') = Len(words)
           /\ words'[i] = w /\ \A j \in 1..Len(words) : j # i => words'[j] = words[j]
<1>1. words \in Seq(Word) /\ i \in 1..Len(words)
  BY Offered DEF TypeInv
<1> QED BY <1>1

LEMMA CombineSwitchTypes == TypeInv /\ CombineSwitch => ParseTypes'
<1> SUFFICES ASSUME TypeInv, CombineSwitch, ~Throw PROVE ParseTypes'
  BY ThrowTypes DEF CombineSwitch, Trying
<1> DEFINE rest == TakeLetter(A, W)
<1>1. /\ Trying /\ status = "parsing" /\ UNCHANGED <<setupVars, values, parses>>
      /\ CombinedSwitchesMatch(A, W)
      /\ words' = [words EXCEPT ![i] = rest]
      /\ count' = [count EXCEPT ![A] = @ + 1]
      /\ Visit(A) /\ Uses(A, {i}, {})
      /\ Matched(A, i + 1) \/ OfferedOn(A)
  BY DEF CombineSwitch, Trying
<1>2. A \in Arg /\ W \in Word /\ i \in 1..Len(words) /\ UsageInv /\ SetupOK /\ ParseTypes
  BY <1>1, Offered, TypeParts
<1>3. rest \in Word
  BY <1>1, <1>2, LetterIsTaken
<1> HIDE DEF A, W, rest
<1>4. words' \in Seq(Word) /\ Len(words') = Len(words)
  BY <1>1, <1>3, BlankedWords
<1>5. i \in 1..(Len(words) + 1) /\ i + 1 \in 1..(Len(words) + 1)
  <2>1. words \in Seq(Word)
    BY <1>2 DEF ParseTypes
  <2>2. Len(words) \in Nat
    BY <2>1
  <2> QED BY <1>2, <2>2
<1>6. /\ A \in alreadySet' /\ alreadySet \subseteq alreadySet' /\ alreadySet' \subseteq Arg
      /\ xorSet' \subseteq alreadySet' \intersect UNION xorList'
      /\ allowMore' \subseteq UNION xorList'
      /\ i' \in 1..(Len(words) + 1) /\ k' \in 1..(Len(argList') + 1)
      /\ requiredCount' \in Nat
  <2>1. CASE Matched(A, i + 1)
    BY <1>1, <1>2, <1>5, <2>1, MatchedTypes
  <2>2. CASE OfferedOn(A)
    <3>1. k' \in 1..(Len(argList') + 1)
      BY <1>1, <2>2, OfferedTypes DEF OfferedOn
    <3> QED BY <1>1, <1>2, <1>5, <2>2, <3>1 DEF OfferedOn, ParseTypes, setupVars
  <2> QED BY <1>1, <2>1, <2>2
<1>7. ignoreRest' \in BOOLEAN /\ status' \in {"parsing", "exit 0"} /\ parses # 0
  BY <1>1, VisitTypes
<1>8. count' \in [Arg -> Nat]
  BY <1>1, <1>2 DEF ParseTypes
<1>9. uses' \subseteq [word : 1..Len(words), by : Arg, as : {"flag", "value"}]
  BY <1>1, <1>2, UsesTypes DEF ParseTypes
<1> QED BY <1>1, <1>2, <1>4, <1>6, <1>7, <1>8, <1>9 DEF ParseTypes, Status

LEMMA CombineMultiSwitchTypes == TypeInv /\ CombineMultiSwitch => ParseTypes'
<1> SUFFICES ASSUME TypeInv, CombineMultiSwitch PROVE ParseTypes'
  OBVIOUS
<1> DEFINE rest == TakeAllLetters(A, W)
           n == Cardinality(Occurrences(A, W))
<1>1. /\ Trying /\ status = "parsing" /\ UNCHANGED <<setupVars, values, parses>>
      /\ CombinedSwitchesMatch(A, W)
      /\ words' = [words EXCEPT ![i] = rest]
      /\ count' = [count EXCEPT ![A] = @ + n]
      /\ Visit(A) /\ Uses(A, {i}, {}) /\ OfferedOn(A)
  BY DEF CombineMultiSwitch, Trying
<1>2. A \in Arg /\ W \in Word /\ i \in 1..Len(words) /\ UsageInv /\ SetupOK /\ ParseTypes
  BY <1>1, Offered, TypeParts
<1>3. rest \in Word /\ n \in Nat
  BY <1>1, <1>2, LettersAreTaken
<1> HIDE DEF A, W, rest, n
<1>4. words' \in Seq(Word) /\ Len(words') = Len(words)
  BY <1>1, <1>3, BlankedWords
<1>5. k' \in 1..(Len(argList') + 1)
  BY <1>1, OfferedTypes DEF OfferedOn
<1>6. ignoreRest' \in BOOLEAN /\ status' \in {"parsing", "exit 0"} /\ parses # 0
  BY <1>1, VisitTypes
<1>7. count' \in [Arg -> Nat]
  <2>1. count[A] \in Nat
    BY <1>2 DEF ParseTypes
  <2>2. count[A] + n \in Nat
    BY <1>3, <2>1
  <2> QED BY <1>1, <1>2, <2>2 DEF ParseTypes
<1>8. uses' \subseteq [word : 1..Len(words), by : Arg, as : {"flag", "value"}]
  BY <1>1, <1>2, UsesTypes DEF ParseTypes
<1> QED BY <1>1, <1>2, <1>4, <1>5, <1>6, <1>7, <1>8 DEF ParseTypes, Status, OfferedOn, setupVars

\* A value that follows in the word is a word, like any other.
LEMMA ValueIsWord ==
    ASSUME NEW w \in Word, HasInlineValue(w) PROVE Text(w.value) \in Word
<1>1. w.value \in STRING
  BY DEF Word, HasInlineValue
<1> QED BY <1>1 DEF Word, Text

LEMMA ValuesTypes ==
    ASSUME TypeInv, NEW a \in Arg, NEW value \in Word,
           values' = [values EXCEPT ![a] = Append(@, value)]
    PROVE  /\ values' \in [Arg -> Seq(Word)]
           /\ \A b \in Arg : values'[b] # <<>> => b = a \/ b \in alreadySet
<1>1. values \in [Arg -> Seq(Word)] /\ \A b \in Arg : values[b] # <<>> => b \in alreadySet
  BY DEF TypeInv, TypeOK
<1>2. Append(values[a], value) \in Seq(Word)
  BY <1>1
<1> QED BY <1>1, <1>2

LEMMA GiveValueTypes ==
    ASSUME TypeInv, Trying, NEW a \in Arg, GiveValue(a) PROVE ParseTypes'
<1> SUFFICES ASSUME ~Throw PROVE ParseTypes'
  BY ThrowTypes DEF Trying
<1> DEFINE inline == HasInlineValue(W)
           value  == IF inline THEN Text(W.value) ELSE words[i + 1]
           next   == IF inline THEN i + 1 ELSE i + 2
<1>1. /\ status = "parsing" /\ UNCHANGED <<setupVars, count, words, parses>>
      /\ inline \/ i < Len(words)
      /\ values' = [values EXCEPT ![a] = Append(@, value)]
      /\ Visit(a) /\ Matched(a, next) /\ Uses(a, {i}, (i + 1)..(next - 1))
  BY DEF GiveValue, Trying
<1>2. W \in Word /\ i \in 1..Len(words) /\ UsageInv /\ SetupOK /\ ParseTypes
  BY <1>1, Offered, TypeParts
<1>3. words \in Seq(Word)
  BY <1>2 DEF ParseTypes
<1>4. Len(words) \in Nat
  BY <1>3
<1>5. value \in Word
  <2>1. CASE inline
    BY <1>2, <2>1, ValueIsWord
  <2>2. CASE ~inline
    <3>1. i + 1 \in 1..Len(words)
      BY <1>1, <1>2, <1>4, <2>2
    <3>2. words[i + 1] \in Word
      BY <1>3, <3>1
    <3> QED BY <2>2, <3>2
  <2> QED BY <2>1, <2>2
<1>6. next \in 1..(Len(words) + 1) /\ (i + 1)..(next - 1) \subseteq 1..Len(words)
  <2> HIDE DEF inline
  <2> QED BY <1>1, <1>2, <1>4
<1> HIDE DEF inline, value, next
<1>7. /\ a \in alreadySet' /\ alreadySet \subseteq alreadySet' /\ alreadySet' \subseteq Arg
      /\ xorSet' \subseteq alreadySet' \intersect UNION xorList'
      /\ allowMore' \subseteq UNION xorList'
      /\ i' \in 1..(Len(words) + 1) /\ k' \in 1..(Len(argList') + 1)
      /\ requiredCount' \in Nat
  BY <1>1, <1>6, MatchedTypes
<1>8. ignoreRest' \in BOOLEAN /\ status' \in {"parsing", "exit 0"} /\ parses # 0
  BY <1>1, VisitTypes
<1>9. uses' \subseteq [word : 1..Len(words), by : Arg, as : {"flag", "value"}]
  BY <1>1, <1>2, <1>6, UsesTypes DEF ParseTypes
<1>10. /\ values' \in [Arg -> Seq(Word)]
       /\ \A b \in Arg : values'[b] # <<>> => b \in alreadySet'
  BY <1>1, <1>5, <1>7, ValuesTypes
<1> QED BY <1>1, <1>2, <1>7, <1>8, <1>9, <1>10 DEF ParseTypes, Status

LEMMA GiveWordTypes ==
    ASSUME TypeInv, Trying, NEW a \in Arg, GiveWord(a) PROVE ParseTypes'
<1> SUFFICES ASSUME ~Throw PROVE ParseTypes'
  BY ThrowTypes DEF Trying
<1>1. /\ status = "parsing" /\ UNCHANGED <<setupVars, count, ignoreRest, words, status, parses>>
      /\ values' = [values EXCEPT ![a] = Append(@, W)]
      /\ Matched(a, i + 1) /\ Uses(a, {}, {i})
  BY DEF GiveWord, Trying
<1>2. W \in Word /\ i \in 1..Len(words) /\ UsageInv /\ SetupOK /\ ParseTypes
  BY <1>1, Offered, TypeParts
<1>3. words \in Seq(Word)
  BY <1>2 DEF ParseTypes
<1>4. Len(words) \in Nat
  BY <1>3
<1>5. i + 1 \in 1..(Len(words) + 1)
  BY <1>2, <1>4
<1> HIDE DEF W
<1>6. /\ a \in alreadySet' /\ alreadySet \subseteq alreadySet' /\ alreadySet' \subseteq Arg
      /\ xorSet' \subseteq alreadySet' \intersect UNION xorList'
      /\ allowMore' \subseteq UNION xorList'
      /\ i' \in 1..(Len(words) + 1) /\ k' \in 1..(Len(argList') + 1)
      /\ requiredCount' \in Nat
  BY <1>1, <1>5, MatchedTypes
<1>7. uses' \subseteq [word : 1..Len(words), by : Arg, as : {"flag", "value"}]
  BY <1>1, <1>2, UsesTypes DEF ParseTypes
<1>8. /\ values' \in [Arg -> Seq(Word)]
      /\ \A b \in Arg : values'[b] # <<>> => b \in alreadySet'
  BY <1>1, <1>2, <1>6, ValuesTypes
<1> QED BY <1>1, <1>2, <1>6, <1>7, <1>8 DEF ParseTypes

LEMMA PassOnTypes == TypeInv /\ PassOn => ParseTypes'
<1> SUFFICES ASSUME TypeInv, PassOn PROVE ParseTypes'
  OBVIOUS
<1>1. /\ Trying /\ k' = k + 1
      /\ UNCHANGED <<setupVars, argVars, words, i, requiredCount, uses, status, parses>>
  BY DEF PassOn
<1>2. k' \in 1..(Len(argList') + 1)
  BY <1>1, OfferedTypes
<1>3. ParseTypes
  BY TypeParts
<1> QED BY <1>1, <1>2, <1>3 DEF ParseTypes, argVars, setupVars

LEMMA UnmatchedTypes == TypeInv /\ Unmatched => ParseTypes'
<1> SUFFICES ASSUME TypeInv, Unmatched, ~Throw PROVE ParseTypes'
  BY ThrowTypes DEF Unmatched
<1>1. /\ i <= Len(words) /\ i' = i + 1 /\ k' = 1
      /\ UNCHANGED <<setupVars, argVars, words, requiredCount, uses, status, parses>>
  BY DEF Unmatched
<1>2. ParseTypes /\ argList' \in Seq(Arg)
  BY <1>1, TypeParts DEF SetupOK, setupVars
<1>3. words \in Seq(Word) /\ i \in 1..(Len(words) + 1)
  BY <1>2 DEF ParseTypes
<1>4. Len(words) \in Nat /\ Len(argList') \in Nat
  BY <1>2, <1>3
<1>5. i' \in 1..(Len(words) + 1) /\ k' \in 1..(Len(argList') + 1)
  BY <1>1, <1>3, <1>4
<1> QED BY <1>1, <1>2, <1>5 DEF ParseTypes, argVars, setupVars

LEMMA FinishParseTypes == TypeInv /\ FinishParse => ParseTypes'
<1> SUFFICES ASSUME TypeInv, FinishParse PROVE ParseTypes'
  OBVIOUS
<1>1. /\ UNCHANGED <<setupVars, argVars, loopVars, parses>>
      /\ status = "parsing" /\ status' \in {"parsed", "exit 1"}
  BY DEF FinishParse
<1>2. ParseTypes /\ parses # 0
  BY <1>1, TypeParts DEF ParseTypes
<1> QED BY <1>1, <1>2 DEF ParseTypes, argVars, setupVars, loopVars, Status

LEMMA ParseStartTypes == TypeInv /\ parse => ParseTypes'
<1> SUFFICES ASSUME TypeInv, parse PROVE ParseTypes'
  OBVIOUS
<1>1. /\ status = "ready" /\ status' = "parsing" /\ words' \in CommandLines
      /\ i' = 1 /\ k' = 1 /\ requiredCount' = 0 /\ uses' = {} /\ parses' = parses + 1
      /\ UNCHANGED <<setupVars, argVars>>
  BY DEF parse
<1>2. ParseTypes /\ argList' \in Seq(Arg) /\ words' \in Seq(Word)
  BY <1>1, TypeParts, LinesAreWords DEF SetupOK, setupVars, CommandLinesAssumption
<1>3. Len(words') \in Nat /\ Len(argList') \in Nat
  BY <1>2
<1>4. i' \in 1..(Len(words') + 1) /\ k' \in 1..(Len(argList') + 1)
  BY <1>1, <1>3
<1>5. parses' \in 0..MaxParses /\ parses' # 0
  BY <1>1, <1>2, MaxParsesIsPositive DEF ParseTypes
<1>6. UNION xorList' = UNION xorList
  BY <1>1 DEF setupVars
<1> QED BY <1>1, <1>2, <1>4, <1>5, <1>6 DEF ParseTypes, argVars, Status

LEMMA ResetTypes == TypeInv /\ reset => ParseTypes'
<1> SUFFICES ASSUME TypeInv, reset PROVE ParseTypes'
  OBVIOUS
<1>1. /\ status = "parsed" /\ parses < MaxParses /\ status' = "ready"
      /\ alreadySet' = {a \in alreadySet : KeepsFlags(a)}
      /\ xorSet' = {a \in xorSet : KeepsFlags(a)}
      /\ count' = [a \in Arg |-> 0] /\ values' = [a \in Arg |-> <<>>]
      /\ UNCHANGED <<setupVars, allowMore, ignoreRest, loopVars, parses>>
  BY DEF reset
<1>2. ParseTypes /\ parses # 0
  BY <1>1, TypeParts DEF ParseTypes
<1>3. UNION xorList' = UNION xorList /\ argList' = argList
  BY <1>1 DEF setupVars
<1>4. /\ alreadySet' \subseteq Arg /\ xorSet' \subseteq alreadySet' \intersect UNION xorList'
      /\ values' \in [Arg -> Seq(Word)] /\ \A a \in Arg : values'[a] = <<>>
      /\ count' \in [Arg -> Nat]
  BY <1>1, <1>2, <1>3 DEF ParseTypes
<1> QED BY <1>1, <1>2, <1>3, <1>4 DEF ParseTypes, loopVars, Status

\* While the program is set up, nothing of a parse is there.
LEMMA AddTypes ==
    ASSUME TypeInv, status = "ready", NEW a \in Arg, NEW isRequired \in BOOLEAN, Add(a, isRequired)
    PROVE  /\ argList' \in Seq(Arg) /\ required' \subseteq Arg /\ numRequired' \in Nat
           /\ alreadyOptional' \in BOOLEAN /\ Len(argList) <= Len(argList')
           /\ status' \in {"ready", "specification error"}
<1>1. SetupOK
  BY TypeParts
<1>2. CASE UNCHANGED <<argList, required, numRequired, alreadyOptional>> /\ status' = "specification error"
  <2>1. argList' = argList /\ argList \in Seq(Arg)
    BY <1>1, <1>2 DEF SetupOK
  <2>2. Len(argList) \in Nat
    BY <2>1
  <2>3. Len(argList) <= Len(argList')
    BY <2>1, <2>2
  <2>4. /\ required' \subseteq Arg /\ numRequired' \in Nat /\ alreadyOptional' \in BOOLEAN
        /\ status' = "specification error"
    BY <1>1, <1>2 DEF SetupOK
  <2> QED BY <2>1, <2>3, <2>4
<1>3. CASE /\ argList' = AddedToList(a)
           /\ required' = IF isRequired THEN required \union {a} ELSE required
           /\ numRequired' = numRequired + (IF isRequired THEN 1 ELSE 0)
           /\ alreadyOptional' = (alreadyOptional \/ BecomesOptional(a))
           /\ UNCHANGED status
  <2>1. argList' = Append(argList, a) \/ argList' = <<a>> \o argList
    BY <1>3 DEF AddedToList
  <2>2. argList \in Seq(Arg) /\ <<a>> \in Seq(Arg) /\ Len(<<a>>) = 1
    BY <1>1 DEF SetupOK
  <2>3. argList' \in Seq(Arg) /\ Len(argList') = Len(argList) + 1 /\ Len(argList) \in Nat
    <3>1. CASE argList' = Append(argList, a)
      BY <2>2, <3>1
    <3>2. CASE argList' = <<a>> \o argList
      BY <2>2, <3>2
    <3> QED BY <2>1, <3>1, <3>2
  <2>4. required' \subseteq Arg /\ numRequired' \in Nat
    BY <1>1, <1>3 DEF SetupOK
  <2>5. alreadyOptional' \in BOOLEAN /\ status' = "ready"
    BY <1>3
  <2>6. Len(argList) <= Len(argList')
    BY <2>3
  <2> QED BY <2>3, <2>4, <2>5, <2>6
<1> QED BY <1>2, <1>3 DEF Add

LEMMA SetupTypesStep ==
    ASSUME TypeInv, add \/ xorAdd \/ xorAddNext PROVE SetupOK' /\ ParseTypes'
<1>1. UsageInv /\ SetupOK /\ ParseTypes /\ status = "ready"
  BY TypeParts DEF add, xorAdd, xorAddNext
<1>2. UNCHANGED <<argVars, loopVars, parses>>
  BY DEF add, xorAdd, xorAddNext
<1>3. /\ argList' \in Seq(Arg) /\ required' \subseteq Arg /\ numRequired' \in Nat
      /\ alreadyOptional' \in BOOLEAN /\ Len(argList) <= Len(argList')
      /\ status' \in {"ready", "specification error"}
      /\ xorList \subseteq xorList' /\ xorList' \subseteq SUBSET Arg
  <2>1. CASE add
    <3> DEFINE a == Head(calls).args[1]
    <3>1. calls \in Seq(Call) /\ calls # <<>>
      BY <1>1, <2>1 DEF add, UsageInv, SetupTypes
    <3>2. Head(calls) \in Call
      BY <3>1
    <3>3. Head(calls).args \in Seq(Arg) /\ Head(calls).args # <<>>
      BY <3>2 DEF Call
    <3>4. a \in Arg
      BY <3>3
    <3>5. Declared(a).required \in BOOLEAN
      BY <3>4, KindsAreKnown
    <3>6. Add(a, Declared(a).required) /\ xorList' = xorList
      BY <2>1 DEF add
    <3> HIDE DEF a
    <3> QED BY <1>1, <3>4, <3>5, <3>6, AddTypes DEF SetupOK
  <2>2. CASE xorAdd
    <3>1. calls \in Seq(Call) /\ calls # <<>>
      BY <1>1, <2>2 DEF xorAdd, UsageInv, SetupTypes
    <3>2. Head(calls) \in Call
      BY <3>1
    <3>3. Head(calls).args \in Seq(Arg)
      BY <3>2 DEF Call
    <3>4. Elements(Head(calls).args) \subseteq Arg
      BY <3>3 DEF Elements
    <3>5. /\ xorList' = xorList \union {Elements(Head(calls).args)}
          /\ UNCHANGED <<argList, required, numRequired, alreadyOptional, status>>
      BY <2>2 DEF xorAdd, Elements
    <3>6. Len(argList) <= Len(argList')
      <4>1. argList \in Seq(Arg)
        BY <1>1 DEF SetupOK
      <4>2. Len(argList) \in Nat
        BY <4>1
      <4> QED BY <3>5, <4>2
    <3> QED BY <1>1, <3>4, <3>5, <3>6 DEF SetupOK
  <2>3. CASE xorAddNext
    <3>1. pending \in Seq(Arg) /\ pending # <<>>
      BY <1>1, <2>3 DEF xorAddNext, UsageInv, SetupTypes
    <3>2. Head(pending) \in Arg
      BY <3>1
    <3>3. Add(Head(pending), TRUE) /\ xorList' = xorList
      BY <2>3 DEF xorAddNext
    <3> QED BY <1>1, <3>2, <3>3, AddTypes DEF SetupOK
  <2> QED BY <2>1, <2>2, <2>3
<1>4. k' \in 1..(Len(argList') + 1)
  <2>1. /\ argList \in Seq(Arg) /\ argList' \in Seq(Arg)
        /\ k' = k /\ k \in 1..(Len(argList) + 1) /\ Len(argList) <= Len(argList')
    BY <1>1, <1>2, <1>3 DEF ParseTypes, loopVars, SetupOK
  <2>2. Len(argList) \in Nat /\ Len(argList') \in Nat
    BY <2>1
  <2> QED BY <2>1, <2>2
<1>5. UNION xorList \subseteq UNION xorList'
  BY <1>3
<1>6. status' = "ready" => parses' < MaxParses
  BY <1>1, <1>2 DEF ParseTypes
<1>7. SetupOK'
  BY <1>3 DEF SetupOK
<1>8. ParseTypes'
  BY <1>1, <1>2, <1>3, <1>4, <1>5, <1>6 DEF ParseTypes, argVars, loopVars, Status
<1> QED BY <1>7, <1>8

LEMMA TypeInit == Init => TypeInv
<1> SUFFICES ASSUME Init PROVE TypeInv
  OBVIOUS
<1>1. SetupOK /\ UsageInv
  BY UsageInit DEF Init, SetupOK, UsageInv, SetupTypes
<1>2. Len(argList) \in Nat
  <2>1. argList \in Seq(Arg)
    BY <1>1 DEF SetupOK
  <2> QED BY <2>1
<1>3. k \in 1..(Len(argList) + 1) /\ i \in 1..(Len(words) + 1)
  BY <1>2 DEF Init
<1>4. /\ count \in [Arg -> Nat] /\ values \in [Arg -> Seq(Word)]
      /\ \A a \in Arg : values[a] = <<>>
      /\ words \in Seq(Word) /\ uses = {}
  BY DEF Init
<1>5. parses < MaxParses /\ parses \in 0..MaxParses
  BY MaxParsesIsPositive DEF Init
<1>6. ParseTypes
  BY <1>3, <1>4, <1>5 DEF Init, ParseTypes, Status
<1> QED BY <1>1, <1>6, TypeParts

LEMMA TypeStep == TypeInv /\ [Next]_vars => TypeInv'
<1> SUFFICES ASSUME TypeInv, [Next]_vars PROVE TypeInv'
  OBVIOUS
<1>1. UsageInv'
  BY UsageStep, TypeParts
<1>2. CASE add \/ xorAdd \/ xorAddNext
  <2>1. SetupOK' /\ ParseTypes'
    BY <1>2, SetupTypesStep
  <2> QED BY <1>1, <2>1, TypePartsNext
<1>3. CASE UNCHANGED vars
  <2>1. SetupOK /\ ParseTypes
    BY TypeParts
  <2>2. SetupOK' /\ ParseTypes'
    BY <1>3, <2>1 DEF SetupOK, ParseTypes, vars, setupVars, argVars, loopVars
  <2> QED BY <1>1, <2>2, TypePartsNext
<1>4. CASE Parsing
  <2>1. UNCHANGED setupVars
    BY <1>4 DEF Parsing, parse, PassOn, TakeSwitch, CombineSwitch, CombineMultiSwitch, TakeValue, TakeFurtherValue,
         TakeUnlabeled, TakeFurtherUnlabeled, GiveValue, GiveWord, Unmatched, FinishParse, reset, Throw
  <2>2. SetupOK'
    BY <2>1, TypeParts DEF SetupOK, setupVars
  <2>3. Trying => A \in Arg
    BY Offered
  <2>4. ParseTypes'
    <3>1. CASE parse
      BY <3>1, ParseStartTypes
    <3>2. CASE PassOn
      BY <3>2, PassOnTypes
    <3>3. CASE TakeSwitch
      BY <3>3, TakeSwitchTypes
    <3>4. CASE CombineSwitch
      BY <3>4, CombineSwitchTypes
    <3>5. CASE CombineMultiSwitch
      BY <3>5, CombineMultiSwitchTypes
    <3>6. CASE TakeValue
      BY <2>3, <3>6, GiveValueTypes, ThrowTypes DEF TakeValue, Trying
    <3>7. CASE TakeFurtherValue
      BY <2>3, <3>7, GiveValueTypes DEF TakeFurtherValue
    <3>8. CASE TakeUnlabeled
      BY <2>3, <3>8, GiveWordTypes DEF TakeUnlabeled
    <3>9. CASE TakeFurtherUnlabeled
      BY <2>3, <3>9, GiveWordTypes DEF TakeFurtherUnlabeled
    <3>10. CASE Unmatched
      BY <3>10, UnmatchedTypes
    <3>11. CASE FinishParse
      BY <3>11, FinishParseTypes
    <3>12. CASE reset
      BY <3>12, ResetTypes
    <3> QED BY <1>4, <3>1, <3>2, <3>3, <3>4, <3>5, <3>6, <3>7, <3>8, <3>9, <3>10, <3>11, <3>12 DEF Parsing
  <2> QED BY <1>1, <2>2, <2>4, TypePartsNext
<1> QED BY <1>2, <1>3, <1>4 DEF Next, Parsing

\* The variables of a parse have their types, a value belongs to an Arg that is
\* set, and what is marked because of a group is in one.
THEOREM TypesHold == Spec => []TypeOK
<1>1. TypeInv => TypeOK
  BY DEF TypeInv
<1> QED BY TypeInit, TypeStep, <1>1, PTL DEF Spec

-----------------------------------------------------------------------------
(* The two sums.                                                             *)

\* What is required is in the list; it was declared so, or is in a group.
RequiredOnce ==
    /\ required \subseteq Elements(argList) /\ numRequired = Cardinality(required)
    /\ \A a \in required : a \in UNION xorList \/ Declared(a).required
    /\ Elements(pending) \subseteq UNION xorList /\ {} \notin xorList
    /\ status # "specification error" =>
        \A g \in xorList : g \subseteq required \union Elements(pending)

\* One Arg of the group was met, and the others have been marked because of it.
Chosen(g) == g \subseteq alreadySet /\ \E b \in g : g \ xorSet = {b}

\* A MultiArg that is set has been counted, and will not be again.
MultiArgsCounted ==
    \A a \in alreadySet : IsMultiArg(a) =>
        IF a \in UNION xorList THEN a \in xorSet \union allowMore ELSE values[a] # <<>>

\* The required Args that may have been counted: no fewer than the sum.
Answered ==
    {a \in required : IF a \in UNION xorList THEN Chosen(XorGroup(a)) ELSE a \in alreadySet}

\* The required Args that must have been: no more than the sum.
MetAlone(g) == \E u \in uses : u.by \in g /\ Alone(u)
Credited ==
    {a \in required : IF a \in UNION xorList THEN MetAlone(XorGroup(a)) ELSE a \in alreadySet}

\* What is known of the sum while words are read, and after.
Counted ==
    /\ \A g \in xorList : g \intersect xorSet # {} => Chosen(g)
    /\ MultiArgsCounted
    /\ requiredCount <= Cardinality(Answered)
    /\ parses = 1 => /\ Cardinality(Credited) <= requiredCount
                     /\ \A a \in allowMore : MetAlone({a})

CountInv ==
    /\ RequiredOnce
    /\ status = "ready" => \A a \in alreadySet : KeepsFlags(a)
    /\ status = "parsed" => requiredCount = numRequired
    /\ status \in {"parsing", "parsed"} /\ GroupsCountOnce => Counted

\* Of two sets, one of which takes what the other has and more.
LEMMA AtLeast ==
    ASSUME NEW Z, IsFiniteSet(Z), NEW X \in SUBSET Z, NEW Y \in SUBSET Z, X \intersect Y = {}
    PROVE  Cardinality(X) + Cardinality(Y) <= Cardinality(Z)
<1>1. IsFiniteSet(X) /\ IsFiniteSet(Y) /\ X \union Y \in SUBSET Z
  BY FS_Subset
<1>2. Cardinality(X) \in Nat /\ Cardinality(Y) \in Nat /\ Cardinality(Z) \in Nat
  BY <1>1, FS_CardinalityType
<1>3. Cardinality(X \intersect Y) = 0
  BY FS_EmptySet
<1>4. Cardinality(X \union Y) = Cardinality(X) + Cardinality(Y)
  <2>1. Cardinality(X \union Y) = Cardinality(X) + Cardinality(Y) - Cardinality(X \intersect Y)
    BY <1>1, FS_Union
  <2> QED BY <1>2, <1>3, <2>1
<1>5. Cardinality(X \union Y) <= Cardinality(Z)
  BY <1>1, FS_Subset
<1> QED BY <1>4, <1>5

LEMMA AtMost ==
    ASSUME NEW X, IsFiniteSet(X), NEW Y, IsFiniteSet(Y), NEW Z \in SUBSET (X \union Y)
    PROVE  Cardinality(Z) <= Cardinality(X) + Cardinality(Y)
<1>1. IsFiniteSet(X \union Y) /\ IsFiniteSet(X \intersect Y) /\ IsFiniteSet(Z)
  <2>1. IsFiniteSet(X \union Y)
    BY FS_Union
  <2>2. X \intersect Y \in SUBSET X
    OBVIOUS
  <2> QED BY <2>1, <2>2, FS_Subset
<1>2. /\ Cardinality(X) \in Nat /\ Cardinality(Y) \in Nat /\ Cardinality(Z) \in Nat
      /\ Cardinality(X \intersect Y) \in Nat
  BY <1>1, FS_CardinalityType
<1>3. Cardinality(X \union Y) = Cardinality(X) + Cardinality(Y) - Cardinality(X \intersect Y)
  BY FS_Union
<1>4. Cardinality(Z) <= Cardinality(X \union Y)
  BY <1>1, FS_Subset
<1> QED BY <1>2, <1>3, <1>4

\* Both counts are of required Args, and of these there are finitely many.
LEMMA CountsAreFinite ==
    ASSUME UsageInv, RequiredOnce
    PROVE  /\ IsFiniteSet(required) /\ IsFiniteSet(Answered) /\ IsFiniteSet(Credited)
           /\ Answered \subseteq required /\ Credited \subseteq required
           /\ Cardinality(required) \in Nat
           /\ Cardinality(Answered) \in Nat /\ Cardinality(Credited) \in Nat
<1>1. argList \in Seq(Arg) /\ required \subseteq Elements(argList)
  BY DEF UsageInv, SetupTypes, RequiredOnce
<1>2. IsFiniteSet(required)
  BY <1>1, ElementsFinite, FS_Subset
<1>3. Answered \subseteq required /\ Credited \subseteq required
  BY DEF Answered, Credited
<1>4. IsFiniteSet(Answered) /\ IsFiniteSet(Credited)
  BY <1>2, <1>3, FS_Subset
<1> QED BY <1>2, <1>3, <1>4, FS_CardinalityType

LEMMA Between == \A x, y, z \in Nat : x <= y /\ y <= z => x <= z
OBVIOUS

\* When they are equal, both sums are all that is required.
LEMMA AllAnswered ==
    ASSUME UsageInv, RequiredOnce, NEW S, S \subseteq required,
           Cardinality(required) <= Cardinality(S)
    PROVE  S = required
<1>1. IsFiniteSet(required) /\ Cardinality(required) \in Nat
  BY CountsAreFinite
<1>2. IsFiniteSet(S) /\ Cardinality(S) <= Cardinality(required)
  BY <1>1, FS_Subset
<1>3. Cardinality(S) \in Nat
  BY <1>2, FS_CardinalityType
<1>4. Cardinality(required) = Cardinality(S)
  BY <1>1, <1>2, <1>3
<1> QED BY <1>1, <1>4, FS_Subset

\* The groups, once the set-up is over.
LEMMA GroupsAreRequired ==
    ASSUME UsageInv, RequiredOnce, InUse
    PROVE  \A g \in xorList : g # {} /\ g \subseteq required
<1>1. pending = <<>>
  BY DEF UsageInv, SetUp, InUse
<1>2. Elements(<<>>) = {}
  BY DEF Elements
<1> QED BY <1>1, <1>2 DEF RequiredOnce, InUse

LEMMA CompleteWhenAccepted == TypeInv /\ CountInv => AcceptedIsComplete
<1> SUFFICES ASSUME TypeInv, CountInv, status = "parsed", GroupsCountOnce
             PROVE  /\ \A a \in required \ UNION xorList : IsSet(a)
                    /\ \A g \in xorList : Cardinality({a \in g : IsSet(a)}) = 1
  BY DEF AcceptedIsComplete
<1>1. UsageInv /\ RequiredOnce /\ InUse /\ Counted
  BY DEF TypeInv, CountInv, InUse
<1>2. Answered = required
  <2>1. requiredCount = Cardinality(required) /\ requiredCount <= Cardinality(Answered)
    BY <1>1 DEF CountInv, Counted, RequiredOnce
  <2>2. Answered \subseteq required
    BY <1>1, CountsAreFinite
  <2> QED BY <1>1, <2>1, <2>2, AllAnswered
<1>3. ASSUME NEW a \in required \ UNION xorList PROVE IsSet(a)
  <2>1. a \in alreadySet
    BY <1>2, <1>3 DEF Answered
  <2>2. a \notin xorSet
    BY <1>3 DEF TypeInv, TypeOK
  <2> QED BY <2>1, <2>2 DEF IsSet
<1>4. ASSUME NEW g \in xorList PROVE Cardinality({a \in g : IsSet(a)}) = 1
  <2>1. PICK a \in g : a \in required
    BY <1>1, GroupsAreRequired
  <2>2. XorGroup(a) = g
    BY <1>1, <2>1, GroupsAreFinite
  <2>3. Chosen(g)
    BY <1>2, <2>1, <2>2 DEF Answered
  <2>4. PICK b \in g : g \ xorSet = {b}
    BY <2>3 DEF Chosen
  <2>5. {c \in g : IsSet(c)} = {b}
    BY <2>3, <2>4 DEF Chosen, IsSet
  <2> QED BY <2>5, FS_Singleton
<1> QED BY <1>3, <1>4

LEMMA AcceptedWhenComplete == TypeInv /\ CountInv => CompleteIsAccepted
<1> SUFFICES ASSUME TypeInv, CountInv, status = "parsing", parses = 1, GroupsCountOnce,
                    \A a \in required \ UNION xorList : IsSet(a),
                    \A g \in xorList : \E u \in uses : u.by \in g /\ Alone(u)
             PROVE  requiredCount = numRequired
  BY DEF CompleteIsAccepted
<1>1. UsageInv /\ RequiredOnce /\ InUse /\ Counted
  BY DEF TypeInv, CountInv, InUse
<1>2. Credited = required
  <2>1. ASSUME NEW a \in required, a \in UNION xorList PROVE MetAlone(XorGroup(a))
    BY <1>1, <2>1, GroupsAreFinite DEF MetAlone
  <2> QED BY <2>1 DEF Credited, IsSet
<1>3. Cardinality(required) <= requiredCount /\ requiredCount <= Cardinality(Answered)
  BY <1>1, <1>2 DEF Counted
<1>4. Cardinality(Answered) <= Cardinality(required) /\ Cardinality(Answered) \in Nat
  BY <1>1, CountsAreFinite, FS_Subset
<1>5. requiredCount \in Nat /\ Cardinality(required) \in Nat
  BY <1>1, CountsAreFinite DEF TypeInv, TypeOK
<1>6. requiredCount = Cardinality(required)
  BY <1>3, <1>4, <1>5
<1> QED BY <1>1, <1>6 DEF RequiredOnce

\* A combination is of two letters or more: no Arg is met alone in it.
LEMMA CombinationIsLong ==
    ASSUME NEW w \in Word, NEW a, CombinedSwitchesMatch(a, w), ~WholeMatch(a, w)
    PROVE  w.form = "short" /\ w.value = NoValue /\ Len(w.letters) > 1
<1>1. w.form = "short" /\ w.value = NoValue /\ w.letters \in Seq(STRING \union {Blank})
  BY DEF CombinedSwitchesMatch, Word
<1>2. Len(w.letters) \in Nat /\ DOMAIN w.letters = 1..Len(w.letters)
  BY <1>1
<1>3. PICK j \in DOMAIN w.letters : w.letters[j] = Declared(a).flag
  BY DEF CombinedSwitchesMatch
<1>4. Len(w.letters) # 1
  <2> SUFFICES ASSUME Len(w.letters) = 1 PROVE FALSE
    OBVIOUS
  <2>1. w.letters[1] = Declared(a).flag
    BY <1>2, <1>3
  <2>2. w.letters = <<Declared(a).flag>>
    BY <1>1, <2>1
  <2> QED BY <1>1, <2>2 DEF WholeMatch, ArgMatches
<1>5. Len(w.letters) # 0
  BY <1>2, <1>3
<1>6. Len(w.letters) > 1
  <2>1. \A n \in Nat : n # 0 /\ n # 1 => n > 1
    OBVIOUS
  <2>2. Len(w.letters) \in Nat
    BY <1>2
  <2> QED BY <1>4, <1>5, <2>1, <2>2
<1> QED BY <1>1, <1>6

LEMMA NobodyMatchesLong ==
    ASSUME NEW w, w.form = "short", Len(w.letters) > 1, NEW a PROVE ~ArgMatches(a, w)
<1> SUFFICES ASSUME ArgMatches(a, w) PROVE FALSE
  OBVIOUS
<1>1. w.letters = <<Declared(a).flag>>
  BY DEF ArgMatches
<1>2. Len(w.letters) = 1
  BY <1>1
<1> QED BY <1>2

\* Whether an Arg was met alone does not change when a letter is taken, and the
\* one that takes it is not.
LEMMA AloneStays ==
    ASSUME TypeInv, Trying, CombinedSwitchesMatch(A, W), ~WholeMatch(A, W),
           NEW w, w.form = "short", Len(w.letters) = Len(W.letters),
           words' = [words EXCEPT ![i] = w]
    PROVE  /\ \A u \in uses : Alone(u)' <=> Alone(u)
           /\ \A u : u.word = i /\ u.as = "flag" => ~Alone(u)'
<1>1. W \in Word /\ i \in 1..Len(words) /\ words \in Seq(Word)
  BY Offered DEF TypeInv
<1>2. W.form = "short" /\ Len(W.letters) > 1
  BY <1>1, CombinationIsLong
<1>3. words'[i] = w /\ \A j \in 1..Len(words) : j # i => words'[j] = words[j]
  BY <1>1
<1>4. \A a : ~ArgMatches(a, W) /\ ~ArgMatches(a, w)
  BY <1>2, NobodyMatchesLong
<1>5. \A u \in uses : u.word \in 1..Len(words)
  BY DEF TypeInv, TypeOK
<1>6. ASSUME NEW u \in uses PROVE Alone(u)' <=> Alone(u)
  <2>1. CASE u.word = i
    BY <1>3, <1>4, <2>1 DEF Alone, W
  <2>2. CASE u.word # i
    <3>1. words'[u.word] = words[u.word]
      BY <1>3, <1>5, <2>2
    <3> QED BY <3>1 DEF Alone, ArgMatches
  <2> QED BY <2>1, <2>2
<1>7. ASSUME NEW u, u.word = i, u.as = "flag" PROVE ~Alone(u)'
  BY <1>3, <1>4, <1>7 DEF Alone
<1> QED BY <1>6, <1>7

\* A switch is required only by its group.
LEMMA SwitchesAreOptional ==
    ASSUME NEW a \in Arg, IsSwitch(a) PROVE ~Declared(a).required
BY HowDeclared, ArgObjectsAreConstructed DEF ArgObjectsAssumption

\* What is the same before and after an Arg is met.
LEMMA CountContext ==
    ASSUME TypeInv, CountInv, GroupsCountOnce, status = "parsing", UNCHANGED setupVars
    PROVE  /\ UsageInv /\ RequiredOnce /\ InUse /\ Counted
           /\ required' = required /\ xorList' = xorList /\ IsFiniteSet(required)
           /\ RequiredOnce' /\ GroupsCountOnce'
           /\ \A a : XorGroup(a)' = XorGroup(a)
           /\ Answered' \subseteq required /\ Credited' \subseteq required
<1>1. UsageInv /\ RequiredOnce /\ InUse /\ Counted
  BY DEF TypeInv, CountInv, InUse
<1>2. required' = required /\ xorList' = xorList /\ argList' = argList /\ pending' = pending
      /\ numRequired' = numRequired
  BY DEF setupVars
<1>3. IsFiniteSet(required)
  BY <1>1, CountsAreFinite
<1>4. RequiredOnce' /\ GroupsCountOnce' /\ \A a : XorGroup(a)' = XorGroup(a)
  BY <1>1, <1>2 DEF RequiredOnce, InUse, GroupsCountOnce, XorGroup
<1>5. Answered' \subseteq required /\ Credited' \subseteq required
  BY <1>2 DEF Answered, Credited
<1> QED BY <1>1, <1>2, <1>3, <1>4, <1>5

\* Who is marked stays marked, and who was met alone was.
LEMMA UsesGrow ==
    ASSUME NEW a, NEW flags, NEW taken, Uses(a, flags, taken),
           \A u \in uses : Alone(u)' <=> Alone(u)
    PROVE  /\ \A g : MetAlone(g) => MetAlone(g)'
           /\ \A g : a \notin g /\ MetAlone(g)' => MetAlone(g)
<1>1. uses \subseteq uses' /\ \A u \in uses' : u \in uses \/ u.by = a
  BY DEF Uses
<1> QED BY <1>1 DEF MetAlone

\* An Arg that is in no group.
LEMMA CountSingle ==
    ASSUME TypeInv, CountInv, GroupsCountOnce, status = "parsing", NEW a \in Arg, NEW next,
           a \notin UNION xorList, Matched(a, next), UNCHANGED <<setupVars, parses>>,
           TakesOnce(a) => a \notin alreadySet,
           NEW flags, NEW taken, Uses(a, flags, taken),
           \A u \in uses : Alone(u)' <=> Alone(u),
           IsMultiArg(a) => values'[a] # <<>>,
           \A b : b # a => values'[b] = values[b]
    PROVE  Counted'
<1>1. /\ UsageInv /\ RequiredOnce /\ InUse /\ Counted
      /\ required' = required /\ xorList' = xorList /\ IsFiniteSet(required)
      /\ RequiredOnce' /\ GroupsCountOnce'
      /\ \A b : XorGroup(b)' = XorGroup(b)
      /\ Answered' \subseteq required /\ Credited' \subseteq required
  BY CountContext
<1>2. XorGroup(a) = {}
  BY <1>1, GroupsAreFinite
<1>3. /\ alreadySet' = alreadySet \union {a} /\ xorSet' = xorSet /\ allowMore' = allowMore
      /\ requiredCount' = requiredCount + (IF StillRequired(a) THEN 1 ELSE 0)
  BY <1>2 DEF Matched, RequiredWeight
<1>4. \A g \in xorList : Chosen(g)' <=> Chosen(g)
  BY <1>3 DEF Chosen
<1>5. \A g \in xorList : MetAlone(g)' <=> MetAlone(g)
  <2>1. \A g \in xorList : a \notin g
    OBVIOUS
  <2> QED BY <2>1, UsesGrow
<1>6. \A b \in UNION xorList : XorGroup(b) \in xorList
  BY <1>1, GroupsAreFinite
<1>7. Answered' = Answered \union ({a} \intersect required)
  BY <1>1, <1>3, <1>4, <1>6 DEF Answered
<1>8. Credited' = Credited \union ({a} \intersect required)
  BY <1>1, <1>3, <1>5, <1>6 DEF Credited
<1>9. StillRequired(a) => a \in required /\ a \notin alreadySet
  <2> SUFFICES ASSUME StillRequired(a), a \in alreadySet PROVE FALSE
    BY DEF StillRequired
  <2>1. a \in required /\ (IsMultiArg(a) => values[a] = <<>>)
    BY DEF StillRequired
  <2>2. ~IsMultiArg(a)
    BY <1>1, <2>1 DEF Counted, MultiArgsCounted
  <2>3. Declared(a).required
    BY <1>1, <2>1 DEF RequiredOnce
  <2>4. Declared(a).kind \in ArgKind
    BY KindsAreKnown
  <2>5. ~IsSwitch(a)
    BY <2>3, SwitchesAreOptional
  <2> QED BY <2>2, <2>4, <2>5 DEF TakesOnce, IsMultiArg, IsSwitch, ArgKind
<1>10. ~StillRequired(a) /\ a \in required => a \in alreadySet
  BY DEF StillRequired, TypeInv, TypeOK
<1>11. /\ requiredCount \in Nat /\ Cardinality(Answered) \in Nat
       /\ Cardinality(Credited) \in Nat
       /\ requiredCount <= Cardinality(Answered)
       /\ parses = 1 => Cardinality(Credited) <= requiredCount
  BY <1>1, CountsAreFinite DEF TypeInv, TypeOK, Counted
<1>12. requiredCount' <= Cardinality(Answered')
       /\ (parses' = 1 => Cardinality(Credited') <= requiredCount')
  <2>1. CASE StillRequired(a)
    <3>1. Answered' = Answered \union {a} /\ Credited' = Credited \union {a}
          /\ a \notin Answered /\ a \notin Credited
      BY <1>7, <1>8, <1>9, <2>1 DEF Answered, Credited
    <3>2. Cardinality(Answered') = Cardinality(Answered) + 1
          /\ Cardinality(Credited') = Cardinality(Credited) + 1
      BY <1>1, <3>1, CountsAreFinite, FS_AddElement
    <3>3. requiredCount' = requiredCount + 1
      BY <1>3, <2>1
    <3> QED BY <1>11, <3>2, <3>3
  <2>2. CASE ~StillRequired(a)
    <3>1. Answered' = Answered /\ Credited' = Credited
      BY <1>7, <1>8, <1>10, <2>2 DEF Answered, Credited
    <3>2. requiredCount' = requiredCount
      BY <1>3, <1>11, <2>2
    <3> QED BY <1>11, <3>1, <3>2
  <2> QED BY <2>1, <2>2
<1>13. \A g \in xorList' : g \intersect xorSet' # {} => Chosen(g)'
  BY <1>1, <1>3, <1>4 DEF Counted
<1>14. MultiArgsCounted'
  BY <1>1, <1>3 DEF Counted, MultiArgsCounted
<1>15. parses' = 1 => \A b \in allowMore' : MetAlone({b})'
  BY <1>1, <1>3, UsesGrow DEF Counted
<1> QED BY <1>12, <1>13, <1>14, <1>15 DEF Counted

\* An Arg of a group: it is the first of it, or a MultiArg that was.
LEMMA CountOfGroup ==
    ASSUME TypeInv, CountInv, GroupsCountOnce, status = "parsing", NEW a \in Arg, NEW next,
           a \in UNION xorList, ~ExitsBy(a), Matched(a, next), UNCHANGED <<setupVars, parses>>,
           TakesOnce(a) => a \notin alreadySet,
           NEW flags, NEW taken, Uses(a, flags, taken),
           \A u \in uses : Alone(u)' <=> Alone(u),
           IsMultiArg(a) => MetAlone({a})',
           \A b : b # a => values'[b] = values[b]
    PROVE  Counted'
<1>1. /\ UsageInv /\ RequiredOnce /\ InUse /\ Counted
      /\ required' = required /\ xorList' = xorList /\ IsFiniteSet(required)
      /\ RequiredOnce' /\ GroupsCountOnce'
      /\ \A b : XorGroup(b)' = XorGroup(b)
      /\ Answered' \subseteq required /\ Credited' \subseteq required
  BY CountContext
<1>2. PICK g \in xorList : a \in g
  OBVIOUS
<1>3. XorGroup(a) = g /\ g # {} /\ g \subseteq required /\ IsFiniteSet(g) /\ Cardinality(g) \in Nat
  BY <1>1, <1>2, GroupsAreFinite, GroupsAreRequired
<1>4. /\ alreadySet' = alreadySet \union g /\ xorSet' = xorSet \union (g \ {a})
      /\ allowMore' = IF IsMultiArg(a) THEN allowMore \union {a} ELSE allowMore
      /\ requiredCount' = requiredCount + (IF AllowsMore(a) THEN 0 ELSE Cardinality(g))
  BY <1>2, <1>3 DEF Matched, RequiredWeight
<1>5. \A b \in g \ {a} : b \notin alreadySet \ xorSet
  BY <1>3 DEF Matched, MutuallyExclusive
<1>6. a \notin xorSet
  <2> SUFFICES ASSUME a \in xorSet PROVE FALSE
    OBVIOUS
  <2>1. Chosen(g)
    BY <1>1, <1>2 DEF Counted
  <2>2. PICK b \in g : g \ xorSet = {b}
    BY <2>1 DEF Chosen
  <2>3. b # a /\ b \in alreadySet \ xorSet
    BY <2>1, <2>2 DEF Chosen
  <2> QED BY <1>5, <2>3
<1>7. Chosen(g)'
  <2>1. g \ xorSet' = {a}
    <3>1. \A b \in g : b \in xorSet' \/ b = a
      BY <1>4
    <3>2. a \notin xorSet'
      BY <1>4, <1>6
    <3> QED BY <1>2, <3>1, <3>2
  <2> QED BY <1>2, <1>4, <2>1 DEF Chosen
<1>8. ASSUME Chosen(g) PROVE AllowsMore(a)
  <2>1. PICK b \in g : g \ xorSet = {b}
    BY <1>8 DEF Chosen
  <2>2. b = a /\ a \in alreadySet
    BY <1>2, <1>5, <1>6, <1>8, <2>1 DEF Chosen
  <2>3. IsMultiArg(a)
    <3>1. Declared(a).kind \in ArgKind /\ Declared(a).kind # "MultiSwitchArg" /\ ~TakesOnce(a)
      BY <1>2, <2>2, KindsAreKnown DEF GroupsCountOnce
    <3> QED BY <3>1 DEF TakesOnce, IsMultiArg, ArgKind
  <2>4. a \in allowMore
    BY <1>1, <1>6, <2>2, <2>3 DEF Counted, MultiArgsCounted
  <2> QED BY <2>3, <2>4 DEF AllowsMore
<1>9. \A h \in xorList : h # g => h \intersect g = {}
  BY <1>1, NothingPending
<1>10. \A h \in xorList : h # g => (Chosen(h)' <=> Chosen(h)) /\ (MetAlone(h)' <=> MetAlone(h))
  <2> SUFFICES ASSUME NEW h \in xorList, h # g
               PROVE  (Chosen(h)' <=> Chosen(h)) /\ (MetAlone(h)' <=> MetAlone(h))
    OBVIOUS
  <2>1. h \intersect g = {} /\ a \notin h
    BY <1>2, <1>9
  <2>2. h \ xorSet' = h \ xorSet /\ (h \subseteq alreadySet' <=> h \subseteq alreadySet)
    BY <1>4, <2>1
  <2>3. MetAlone(h)' <=> MetAlone(h)
    BY <2>1, UsesGrow
  <2> QED BY <2>2, <2>3 DEF Chosen
<1>11. \A b \in UNION xorList : XorGroup(b) \in xorList /\ (b \notin g => XorGroup(b) # g)
  BY <1>1, GroupsAreFinite
<1>12. \A b \in g : XorGroup(b) = g
  BY <1>1, GroupsAreFinite
<1>13. Answered \union g \subseteq Answered'
  <2>1. ASSUME NEW b \in g PROVE b \in Answered'
    BY <1>1, <1>3, <1>7, <1>12 DEF Answered
  <2>2. ASSUME NEW b \in Answered, b \notin g PROVE b \in Answered'
    BY <1>1, <1>4, <1>10, <1>11, <2>2 DEF Answered
  <2> QED BY <2>1, <2>2
<1>14. Credited' \subseteq Credited \union g
  <2>1. ASSUME NEW b \in Credited', b \notin g PROVE b \in Credited
    BY <1>1, <1>4, <1>10, <1>11, <2>1 DEF Credited
  <2> QED BY <2>1
<1>15. /\ requiredCount \in Nat /\ Cardinality(Answered) \in Nat
       /\ Cardinality(Credited) \in Nat
       /\ requiredCount <= Cardinality(Answered)
       /\ parses = 1 => Cardinality(Credited) <= requiredCount
  BY <1>1, CountsAreFinite DEF TypeInv, TypeOK, Counted
<1>16. IsFiniteSet(Answered') /\ IsFiniteSet(Credited')
       /\ Cardinality(Answered') \in Nat /\ Cardinality(Credited') \in Nat
  BY <1>1, FS_Subset, FS_CardinalityType
<1>17. requiredCount' <= Cardinality(Answered')
       /\ (parses' = 1 => Cardinality(Credited') <= requiredCount')
  <2>1. CASE ~AllowsMore(a)
    <3>1. Answered \intersect g = {}
      <4>1. \A b \in g : b \notin Answered
        BY <1>2, <1>8, <1>12, <2>1 DEF Answered
      <4> QED BY <4>1
    <3>2. Cardinality(Answered) + Cardinality(g) <= Cardinality(Answered')
      <4>1. Answered \in SUBSET Answered' /\ g \in SUBSET Answered'
        BY <1>13
      <4> QED BY <1>16, <3>1, <4>1, AtLeast
    <3>3. Cardinality(Credited') <= Cardinality(Credited) + Cardinality(g)
      <4>1. IsFiniteSet(Credited)
        BY <1>1, CountsAreFinite
      <4> QED BY <1>3, <1>14, <4>1, AtMost
    <3>4. requiredCount' = requiredCount + Cardinality(g)
      BY <1>4, <2>1
    <3> QED BY <1>3, <1>15, <1>16, <3>2, <3>3, <3>4
  <2>2. CASE AllowsMore(a)
    <3>1. requiredCount' = requiredCount
      BY <1>4, <1>15, <2>2
    <3>2. Cardinality(Answered) <= Cardinality(Answered')
      BY <1>13, <1>16, FS_Subset
    <3>3. ASSUME parses = 1 PROVE Cardinality(Credited') <= Cardinality(Credited)
      <4>1. MetAlone({a})
        BY <1>1, <2>2, <3>3 DEF AllowsMore, Counted
      <4>2. MetAlone(g)
        BY <1>2, <4>1 DEF MetAlone
      <4>3. g \subseteq Credited
        BY <1>2, <1>3, <1>12, <4>2 DEF Credited
      <4>4. Credited' \subseteq Credited /\ IsFiniteSet(Credited)
        BY <1>1, <1>14, <4>3, CountsAreFinite
      <4> QED BY <4>4, FS_Subset
    <3> QED BY <1>15, <1>16, <3>1, <3>2, <3>3
  <2> QED BY <2>1, <2>2
<1>18. \A h \in xorList' : h \intersect xorSet' # {} => Chosen(h)'
  <2>1. ASSUME NEW h \in xorList, h # g, h \intersect xorSet' # {} PROVE Chosen(h)'
    BY <1>1, <1>4, <1>9, <1>10, <2>1 DEF Counted
  <2> QED BY <1>1, <1>7, <2>1
<1>19. MultiArgsCounted'
  <2> SUFFICES ASSUME NEW b \in alreadySet', IsMultiArg(b)
               PROVE  IF b \in UNION xorList THEN b \in xorSet' \union allowMore'
                      ELSE values'[b] # <<>>
    BY <1>1 DEF MultiArgsCounted, IsMultiArg
  <2>1. CASE b \in g
    BY <1>2, <1>4, <2>1
  <2>2. CASE b \notin g
    BY <1>1, <1>2, <1>4, <2>2 DEF Counted, MultiArgsCounted
  <2> QED BY <2>1, <2>2
<1>20. parses' = 1 => \A b \in allowMore' : MetAlone({b})'
  BY <1>1, <1>4, UsesGrow DEF Counted
<1> QED BY <1>17, <1>18, <1>19, <1>20 DEF Counted

\* An Arg was met. When its visitor ends the process there is nothing to count.
LEMMA CountMet ==
    ASSUME TypeInv, CountInv, status = "parsing", NEW a \in Arg, NEW next,
           (status' = "parsing" \/ status' = "exit 0"), status' = "parsing" => ~ExitsBy(a),
           Matched(a, next), UNCHANGED <<setupVars, parses>>,
           TakesOnce(a) => a \notin alreadySet,
           NEW flags, NEW taken, Uses(a, flags, taken),
           \A u \in uses : Alone(u)' <=> Alone(u),
           IsMultiArg(a) => values'[a] # <<>> /\ MetAlone({a})',
           \A b : b # a => values'[b] = values[b]
    PROVE  CountInv'
<1>1. GroupsCountOnce' <=> GroupsCountOnce
  BY DEF GroupsCountOnce, setupVars
<1>2. RequiredOnce'
  BY DEF CountInv, RequiredOnce, setupVars
<1>3. ASSUME GroupsCountOnce, status' = "parsing" PROVE Counted'
  BY <1>3, CountSingle, CountOfGroup
<1> QED BY <1>1, <1>2, <1>3 DEF CountInv

\* A switch took its letters out of a combination, and the word is offered on.
LEMMA CountOffered ==
    ASSUME TypeInv, CountInv, status = "parsing", NEW a \in Arg, IsSwitch(a), OfferedOn(a),
           (status' = "parsing" \/ status' = "exit 0"), UNCHANGED <<setupVars, parses, values>>,
           \A u \in uses : Alone(u)' <=> Alone(u),
           \A u \in uses' : Alone(u)' => u \in uses, uses \subseteq uses'
    PROVE  CountInv'
<1>1. GroupsCountOnce' <=> GroupsCountOnce
  BY DEF GroupsCountOnce, setupVars
<1>2. RequiredOnce'
  BY DEF CountInv, RequiredOnce, setupVars
<1>3. ASSUME GroupsCountOnce PROVE Counted'
  <2>1. /\ UsageInv /\ RequiredOnce /\ InUse /\ Counted
        /\ required' = required /\ xorList' = xorList /\ IsFiniteSet(required)
        /\ \A b : XorGroup(b)' = XorGroup(b)
        /\ Answered' \subseteq required /\ Credited' \subseteq required
    BY <1>3, CountContext
  <2>2. /\ alreadySet' = alreadySet \union {a} /\ xorSet' = xorSet /\ allowMore' = allowMore
        /\ requiredCount' = requiredCount
    BY DEF OfferedOn
  <2>3. \A g : (MetAlone(g)' <=> MetAlone(g)) /\ (Chosen(g) => Chosen(g)')
    BY <2>2 DEF MetAlone, Chosen
  <2>4. Answered \subseteq Answered'
    BY <2>1, <2>2, <2>3 DEF Answered
  <2>5. a \in required => a \in UNION xorList
    BY <2>1, SwitchesAreOptional DEF RequiredOnce
  <2>6. Credited' = Credited
    BY <2>1, <2>2, <2>3, <2>5 DEF Credited
  <2>7. requiredCount \in Nat /\ Cardinality(Answered) \in Nat /\ Cardinality(Answered') \in Nat
    <3>1. IsFiniteSet(Answered')
      BY <2>1, FS_Subset
    <3> QED BY <2>1, <3>1, CountsAreFinite, FS_CardinalityType DEF TypeInv, TypeOK
  <2>8. Cardinality(Answered) <= Cardinality(Answered')
    <3>1. IsFiniteSet(Answered')
      BY <2>1, FS_Subset
    <3> QED BY <2>4, <3>1, FS_Subset
  <2>9. requiredCount' <= Cardinality(Answered')
    <3>1. requiredCount <= Cardinality(Answered)
      BY <2>1 DEF Counted
    <3>2. requiredCount' = requiredCount
      BY <2>2
    <3> QED BY <2>7, <2>8, <3>1, <3>2, Between
  <2>10. MultiArgsCounted'
    <3>1. ~IsMultiArg(a)
      BY DEF IsSwitch, IsMultiArg
    <3> QED BY <2>1, <2>2, <3>1 DEF Counted, MultiArgsCounted
  <2> QED BY <2>1, <2>2, <2>3, <2>6, <2>9, <2>10 DEF Counted
<1> QED BY <1>1, <1>2, <1>3 DEF CountInv, OfferedOn

\* A step that counts nothing.
LEMMA NothingCounted ==
    ASSUME CountInv, UNCHANGED <<setupVars, argVars, words, requiredCount, uses, parses>>,
           \/ status = "parsing" /\ status' = "parsed" /\ requiredCount = numRequired
           \/ status = "parsing" /\ status' \in {"parsing", "exit 1"}
           \/ status' = status
    PROVE  CountInv'
<1>1. /\ \A g : (Chosen(g)' <=> Chosen(g)) /\ (MetAlone(g)' <=> MetAlone(g))
      /\ \A a : XorGroup(a)' = XorGroup(a)
      /\ GroupsCountOnce' <=> GroupsCountOnce
      /\ MultiArgsCounted' <=> MultiArgsCounted
  BY DEF setupVars, argVars, Chosen, MetAlone, Alone, XorGroup, GroupsCountOnce, MultiArgsCounted,
         ArgMatches
<1>2. Answered' = Answered /\ Credited' = Credited
  BY <1>1 DEF Answered, Credited, setupVars, argVars
<1>3. Counted' <=> Counted
  BY <1>1, <1>2 DEF Counted, setupVars, argVars
<1>4. RequiredOnce'
  BY DEF CountInv, RequiredOnce, setupVars
<1> QED BY <1>1, <1>3, <1>4 DEF CountInv, setupVars, argVars

LEMMA CountThrown == CountInv /\ status = "parsing" /\ Throw => CountInv'
BY NothingCounted DEF Throw, loopVars

LEMMA CountSwitch == TypeInv /\ CountInv /\ TakeSwitch => CountInv'
<1> SUFFICES ASSUME TypeInv, CountInv, TakeSwitch, ~Throw PROVE CountInv'
  BY CountThrown DEF TakeSwitch, Trying
<1>1. PICK a \in Arg : a = A
  BY Offered DEF TakeSwitch
<1>2. /\ status = "parsing" /\ IsSwitch(a) /\ UNCHANGED <<setupVars, values, words, parses>>
      /\ Declared(a).kind = "SwitchArg" => a \notin alreadySet
      /\ Visit(a) /\ Matched(a, i + 1) /\ Uses(a, {i}, {})
  BY <1>1 DEF TakeSwitch, Trying
<1>3. ~IsMultiArg(a) /\ (TakesOnce(a) => a \notin alreadySet)
  BY <1>2 DEF IsSwitch, IsMultiArg, TakesOnce
<1>4. \A u \in uses : Alone(u)' <=> Alone(u)
  BY <1>2 DEF Alone, ArgMatches
<1>5. (status' = "parsing" \/ status' = "exit 0") /\ (status' = "parsing" => ~ExitsBy(a))
  BY <1>2 DEF Visit
<1>6. /\ status = "parsing" /\ UNCHANGED <<setupVars, parses>> /\ Matched(a, i + 1) /\ Uses(a, {i}, {})
      /\ \A b : b # a => values'[b] = values[b]
  BY <1>2
<1> QED BY <1>3, <1>4, <1>5, <1>6, CountMet

LEMMA CountCombined == TypeInv /\ CountInv /\ CombineSwitch => CountInv'
<1> SUFFICES ASSUME TypeInv, CountInv, CombineSwitch, ~Throw PROVE CountInv'
  BY CountThrown DEF CombineSwitch, Trying
<1> DEFINE rest == TakeLetter(A, W)
<1>1. PICK a \in Arg : a = A
  BY Offered DEF CombineSwitch
<1>2. /\ Trying /\ CombinedSwitchesMatch(A, W) /\ ~WholeMatch(A, W)
      /\ words' = [words EXCEPT ![i] = rest]
  BY DEF CombineSwitch
<1>3. /\ status = "parsing" /\ Declared(a).kind = "SwitchArg" /\ a \notin alreadySet
      /\ UNCHANGED <<setupVars, values, parses>>
      /\ Visit(a) /\ Uses(a, {i}, {})
      /\ Matched(a, i + 1) \/ OfferedOn(a)
  BY <1>1 DEF CombineSwitch, Trying
<1>4. W \in Word /\ IsSwitch(a) /\ ~IsMultiArg(a)
  BY <1>2, <1>3, Offered DEF IsSwitch, IsMultiArg
<1>5. rest.form = "short" /\ Len(rest.letters) = Len(W.letters)
  BY <1>2, <1>4, LetterIsTaken
<1>6. /\ \A u \in uses : Alone(u)' <=> Alone(u)
      /\ \A u : u.word = i /\ u.as = "flag" => ~Alone(u)'
  <2> HIDE DEF rest
  <2> QED BY <1>2, <1>5, AloneStays
<1> HIDE DEF A, W, rest
<1>7. (status' = "parsing" \/ status' = "exit 0") /\ (status' = "parsing" => ~ExitsBy(a))
  BY <1>3 DEF Visit
<1>8. uses \subseteq uses' /\ \A u \in uses' : Alone(u)' => u \in uses
  <2>1. uses \subseteq uses' /\ \A u \in uses' : u \in uses \/ (u.word = i /\ u.as = "flag")
    BY <1>3 DEF Uses
  <2> QED BY <1>6, <2>1
<1>9. CASE Matched(a, i + 1)
  BY <1>3, <1>4, <1>6, <1>7, <1>9, CountMet
<1>10. CASE OfferedOn(a)
  BY <1>3, <1>4, <1>6, <1>7, <1>8, <1>10, CountOffered
<1> QED BY <1>3, <1>9, <1>10

LEMMA CountMultiCombined == TypeInv /\ CountInv /\ CombineMultiSwitch => CountInv'
<1> SUFFICES ASSUME TypeInv, CountInv, CombineMultiSwitch PROVE CountInv'
  OBVIOUS
<1> DEFINE rest == TakeAllLetters(A, W)
<1>1. PICK a \in Arg : a = A
  BY Offered DEF CombineMultiSwitch
<1>2. /\ Trying /\ CombinedSwitchesMatch(A, W) /\ ~WholeMatch(A, W)
      /\ words' = [words EXCEPT ![i] = rest]
  BY DEF CombineMultiSwitch
<1>3. /\ status = "parsing" /\ Declared(a).kind = "MultiSwitchArg"
      /\ UNCHANGED <<setupVars, values, parses>>
      /\ Visit(a) /\ Uses(a, {i}, {}) /\ OfferedOn(a)
  BY <1>1 DEF CombineMultiSwitch, Trying
<1>4. W \in Word /\ IsSwitch(a)
  BY <1>2, <1>3, Offered DEF IsSwitch
<1>5. rest.form = "short" /\ Len(rest.letters) = Len(W.letters)
  BY <1>2, <1>4, LettersAreTaken
<1>6. /\ \A u \in uses : Alone(u)' <=> Alone(u)
      /\ \A u : u.word = i /\ u.as = "flag" => ~Alone(u)'
  <2> HIDE DEF rest
  <2> QED BY <1>2, <1>5, AloneStays
<1> HIDE DEF A, W, rest
<1>7. (status' = "parsing" \/ status' = "exit 0")
  BY <1>3 DEF Visit
<1>8. uses \subseteq uses' /\ \A u \in uses' : Alone(u)' => u \in uses
  <2>1. uses \subseteq uses' /\ \A u \in uses' : u \in uses \/ (u.word = i /\ u.as = "flag")
    BY <1>3 DEF Uses
  <2> QED BY <1>6, <2>1
<1> QED BY <1>3, <1>4, <1>6, <1>7, <1>8, CountOffered

\* The values a step appends one to.
LEMMA ValueIsThere ==
    ASSUME TypeInv, NEW a \in Arg, NEW value, values' = [values EXCEPT ![a] = Append(@, value)]
    PROVE  values'[a] # <<>> /\ \A b : b # a => values'[b] = values[b]
<1>1. values \in [Arg -> Seq(Word)]
  BY DEF TypeInv
<1>2. Append(values[a], value) # <<>>
  <2> SUFFICES ASSUME Append(values[a], value) = <<>> PROVE FALSE
    OBVIOUS
  <2>1. values[a] \in Seq(Word \union {value})
    BY <1>1
  <2>2. Len(Append(values[a], value)) = Len(values[a]) + 1 /\ Len(values[a]) \in Nat
    BY <2>1
  <2>3. Len(Append(values[a], value)) = 0
    OBVIOUS
  <2> QED BY <2>2, <2>3
<1> QED BY <1>1, <1>2

LEMMA CountValue ==
    ASSUME TypeInv, CountInv, Trying, NEW a \in Arg, a = A, GiveValue(a), ArgMatches(a, W),
           TakesOnce(a) => a \notin alreadySet
    PROVE  CountInv'
<1> SUFFICES ASSUME ~Throw PROVE CountInv'
  BY CountThrown DEF Trying
<1>1. PICK value, next :
        /\ UNCHANGED <<setupVars, count, words, parses>> /\ status = "parsing"
        /\ values' = [values EXCEPT ![a] = Append(@, value)]
        /\ Visit(a) /\ Matched(a, next) /\ Uses(a, {i}, (i + 1)..(next - 1))
  BY DEF GiveValue, Trying
<1>2. \A u \in uses : Alone(u)' <=> Alone(u)
  BY <1>1 DEF Alone, ArgMatches
<1>3. MetAlone({a})'
  <2>1. PICK u \in uses' : u.by = a /\ u.word = i
    <3>1. [word |-> i, by |-> a, as |-> "flag"] \in uses'
      BY <1>1 DEF Uses
    <3> QED BY <3>1
  <2>2. Alone(u)'
    BY <1>1, <2>1 DEF Alone, ArgMatches, W
  <2> QED BY <2>1, <2>2 DEF MetAlone
<1> HIDE DEF A, W
<1>4. (status' = "parsing" \/ status' = "exit 0") /\ (status' = "parsing" => ~ExitsBy(a))
  BY <1>1 DEF Visit
<1>5. values'[a] # <<>> /\ \A b : b # a => values'[b] = values[b]
  BY <1>1, ValueIsThere
<1> QED BY <1>1, <1>2, <1>3, <1>4, <1>5, CountMet

LEMMA CountWord ==
    ASSUME TypeInv, CountInv, Trying, NEW a \in Arg, a = A, GiveWord(a), IsUnlabeled(a),
           TakesOnce(a) => a \notin alreadySet
    PROVE  CountInv'
<1> SUFFICES ASSUME ~Throw PROVE CountInv'
  BY CountThrown DEF Trying
<1>1. /\ UNCHANGED <<setupVars, count, ignoreRest, words, status, parses>> /\ status = "parsing"
      /\ values' = [values EXCEPT ![a] = Append(@, W)]
      /\ Matched(a, i + 1) /\ Uses(a, {}, {i})
  BY DEF GiveWord, Trying
<1>2. \A u \in uses : Alone(u)' <=> Alone(u)
  BY <1>1 DEF Alone, ArgMatches
<1>3. MetAlone({a})'
  <2>1. PICK u \in uses' : u.by = a /\ u.as = "value"
    <3>1. [word |-> i, by |-> a, as |-> "value"] \in uses'
      BY <1>1 DEF Uses
    <3> QED BY <3>1
  <2> QED BY <2>1 DEF MetAlone, Alone
<1> HIDE DEF A, W
<1>4. values'[a] # <<>> /\ \A b : b # a => values'[b] = values[b]
  BY <1>1, ValueIsThere
<1> QED BY <1>1, <1>2, <1>3, <1>4, CountMet DEF ExitsBy

LEMMA CountParseStart == TypeInv /\ CountInv /\ parse => CountInv'
<1> SUFFICES ASSUME TypeInv, CountInv, parse PROVE CountInv'
  OBVIOUS
<1>1. /\ status = "ready" /\ status' = "parsing" /\ requiredCount' = 0 /\ uses' = {}
      /\ parses' = parses + 1 /\ pending = <<>> /\ calls = <<>>
      /\ UNCHANGED <<setupVars, argVars>>
  BY DEF parse
<1>2. RequiredOnce /\ RequiredOnce' /\ UsageInv
  BY <1>1 DEF TypeInv, CountInv, RequiredOnce, setupVars
<1>3. ASSUME GroupsCountOnce' PROVE Counted'
  <2>1. \A a \in alreadySet : Declared(a).kind = "MultiSwitchArg"
    BY <1>1 DEF CountInv, KeepsFlags
  <2>2. /\ xorSet \subseteq alreadySet /\ alreadySet \subseteq Arg
        /\ parses = 0 => allowMore = {}
    BY DEF TypeInv, TypeOK
  <2>3. \A g \in xorList' : g \intersect xorSet' = {}
    BY <1>1, <1>3, <2>1, <2>2 DEF GroupsCountOnce, setupVars, argVars
  <2>4. MultiArgsCounted'
    BY <1>1, <2>1 DEF MultiArgsCounted, IsMultiArg, argVars
  <2>5. Credited' = {}
    <3>1. ASSUME NEW a \in required, a \in alreadySet PROVE a \in UNION xorList
      <4>1. ~Declared(a).required
        BY <2>1, <2>2, <3>1, SwitchesAreOptional DEF IsSwitch
      <4> QED BY <1>2, <4>1 DEF RequiredOnce
    <3>2. \A g : ~MetAlone(g)'
      BY <1>1 DEF MetAlone
    <3> QED BY <1>1, <3>1, <3>2 DEF Credited, setupVars, argVars
  <2>6. Cardinality(Credited') = 0
    BY <2>5, FS_EmptySet
  <2>7. requiredCount' <= Cardinality(Answered')
    <3>1. Answered' \subseteq required
      BY <1>1 DEF Answered, setupVars
    <3>2. Cardinality(Answered') \in Nat
      BY <1>2, <3>1, CountsAreFinite, FS_Subset, FS_CardinalityType
    <3> QED BY <1>1, <3>2
  <2>8. parses' = 1 => \A a \in allowMore' : MetAlone({a})'
    <3>1. parses \in 0..MaxParses /\ parses' = parses + 1
      BY <1>1 DEF TypeInv, TypeOK
    <3>2. parses' = 1 => parses = 0
      BY <3>1, MaxParsesIsPositive
    <3> QED BY <1>1, <2>2, <3>2 DEF argVars
  <2> QED BY <1>1, <2>3, <2>4, <2>6, <2>7, <2>8 DEF Counted
<1> QED BY <1>1, <1>2, <1>3 DEF CountInv

\* What is required, while Args are added.
LEMMA CountAdded ==
    ASSUME TypeInv, RequiredOnce, NEW a \in Arg, NEW isRequired \in BOOLEAN,
           Add(a, isRequired), status = "ready", UNCHANGED xorList,
           isRequired => a \in UNION xorList \/ Declared(a).required
    PROVE  /\ required' \subseteq Elements(argList') /\ numRequired' = Cardinality(required')
           /\ required \subseteq required'
           /\ \A b \in required' : b \in UNION xorList' \/ Declared(b).required
           /\ isRequired /\ status' = "ready" => a \in required'
<1>1. /\ argList \in Seq(Arg) /\ required \subseteq Elements(argList)
      /\ numRequired = Cardinality(required)
      /\ \A b \in required : b \in UNION xorList \/ Declared(b).required
  BY DEF RequiredOnce, TypeInv, TypeOK
<1>2. CASE status' = "specification error" /\ UNCHANGED <<argList, required, numRequired>>
  BY <1>1, <1>2 DEF Elements
<1>3. CASE /\ ~Listed(a) /\ argList' = AddedToList(a)
           /\ required' = IF isRequired THEN required \union {a} ELSE required
           /\ numRequired' = numRequired + (IF isRequired THEN 1 ELSE 0)
  <2>1. Elements(argList') = Elements(argList) \union {a} /\ a \notin Elements(argList)
    BY <1>1, <1>3, AddedOnce
  <2>2. IsFiniteSet(required)
    BY <1>1, ElementsFinite, FS_Subset
  <2>3. numRequired' = Cardinality(required')
    <3>1. CASE isRequired
      BY <1>1, <1>3, <2>1, <2>2, <3>1, FS_AddElement
    <3>2. CASE ~isRequired
      <4>1. Cardinality(required) \in Nat
        BY <2>2, FS_CardinalityType
      <4> QED BY <1>1, <1>3, <3>2, <4>1
    <3> QED BY <3>1, <3>2
  <2>4. required' \subseteq Elements(argList')
    BY <1>1, <1>3, <2>1
  <2>5. \A b \in required' : b \in UNION xorList' \/ Declared(b).required
    BY <1>1, <1>3
  <2> QED BY <1>3, <2>3, <2>4, <2>5
<1> QED BY <1>2, <1>3 DEF Add

LEMMA CountSetup ==
    ASSUME TypeInv, CountInv, add \/ xorAdd \/ xorAddNext PROVE CountInv'
<1>1. /\ RequiredOnce /\ UsageInv /\ status = "ready" /\ UNCHANGED argVars
      /\ \A a \in alreadySet : KeepsFlags(a)
  BY DEF TypeInv, CountInv, add, xorAdd, xorAddNext
<1>2. status' \in {"ready", "specification error"}
  BY <1>1 DEF add, xorAdd, xorAddNext, Add
<1>3. Elements(<<>>) = {}
  BY DEF Elements
<1>4. RequiredOnce'
  <2>1. CASE add
    <3> DEFINE a == Head(calls).args[1]
    <3>1. calls \in Seq(Call) /\ calls # <<>>
      BY <1>1, <2>1 DEF add, UsageInv, SetupTypes
    <3>2. Head(calls) \in Call
      BY <3>1
    <3>3. Head(calls).args \in Seq(Arg) /\ Head(calls).args # <<>>
      BY <3>2 DEF Call
    <3>4. a \in Arg
      BY <3>3
    <3>5. Declared(a).required \in BOOLEAN
      BY <3>4, KindsAreKnown
    <3>6. Add(a, Declared(a).required) /\ xorList' = xorList /\ pending' = pending /\ pending = <<>>
      BY <2>1 DEF add
    <3> HIDE DEF a
    <3>7. /\ required' \subseteq Elements(argList') /\ numRequired' = Cardinality(required')
          /\ required \subseteq required'
          /\ \A b \in required' : b \in UNION xorList' \/ Declared(b).required
      BY <1>1, <3>4, <3>5, <3>6, CountAdded
    <3> QED BY <1>1, <1>3, <3>6, <3>7 DEF RequiredOnce
  <2>2. CASE xorAdd
    <3>1. calls \in Seq(Call) /\ calls # <<>>
      BY <1>1, <2>2 DEF xorAdd, UsageInv, SetupTypes
    <3>2. Head(calls) \in Call
      BY <3>1
    <3>3. Head(calls).args \in Seq(Arg) /\ Head(calls).args # <<>>
      BY <3>2 DEF Call
    <3>4. Elements(Head(calls).args) # {}
      <4>1. 1 \in DOMAIN Head(calls).args
        BY <3>3
      <4> QED BY <4>1 DEF Elements
    <3>5. /\ xorList' = xorList \union {Elements(Head(calls).args)}
          /\ pending' = Head(calls).args /\ pending = <<>>
          /\ UNCHANGED <<argList, required, numRequired, status>>
      BY <2>2 DEF xorAdd, Elements
    <3> QED BY <1>1, <1>3, <3>4, <3>5 DEF RequiredOnce
  <2>3. CASE xorAddNext
    <3> DEFINE a == Head(pending)
    <3>1. pending \in Seq(Arg) /\ pending # <<>> /\ pending' = Tail(pending)
      BY <1>1, <2>3 DEF xorAddNext, UsageInv, SetupTypes
    <3>2. a \in Arg /\ a \in Elements(pending)
      BY <3>1 DEF Elements
    <3>3. Elements(pending') \subseteq Elements(pending) /\ Elements(pending) \subseteq {a} \union Elements(pending')
      <4>1. \A j \in DOMAIN pending : j = 1 \/ (j - 1 \in DOMAIN pending' /\ pending'[j - 1] = pending[j])
        BY <3>1
      <4>2. \A j \in DOMAIN pending' : j + 1 \in DOMAIN pending /\ pending[j + 1] = pending'[j]
        BY <3>1
      <4> QED BY <3>1, <4>1, <4>2 DEF Elements
    <3>4. Add(a, TRUE) /\ xorList' = xorList /\ TRUE \in BOOLEAN
      BY <2>3 DEF xorAddNext
    <3>5. a \in UNION xorList
      BY <1>1, <3>2 DEF RequiredOnce
    <3> HIDE DEF a
    <3>6. /\ required' \subseteq Elements(argList') /\ numRequired' = Cardinality(required')
          /\ required \subseteq required'
          /\ \A b \in required' : b \in UNION xorList' \/ Declared(b).required
          /\ status' = "ready" => a \in required'
      BY <1>1, <3>2, <3>4, <3>5, CountAdded
    <3> QED BY <1>1, <1>2, <3>3, <3>4, <3>6 DEF RequiredOnce
  <2> QED BY <2>1, <2>2, <2>3
<1> QED BY <1>1, <1>2, <1>4 DEF CountInv, argVars

LEMMA CountInit == Init => CountInv
<1> SUFFICES ASSUME Init PROVE CountInv
  OBVIOUS
<1>1. /\ required = {} /\ numRequired = 0 /\ pending = <<>> /\ xorList = {}
      /\ alreadySet = {} /\ status = "ready"
  BY DEF Init
<1>2. Elements(pending) = {}
  BY <1>1 DEF Elements
<1>3. numRequired = Cardinality(required)
  BY <1>1, FS_EmptySet
<1> QED BY <1>1, <1>2, <1>3 DEF CountInv, RequiredOnce

LEMMA CountReset == CountInv /\ reset => CountInv'
BY DEF CountInv, reset, RequiredOnce, setupVars

LEMMA CountStep == TypeInv /\ CountInv /\ [Next]_vars => CountInv'
<1> SUFFICES ASSUME TypeInv, CountInv, [Next]_vars PROVE CountInv'
  OBVIOUS
<1>1. CASE add \/ xorAdd \/ xorAddNext
  BY <1>1, CountSetup
<1>2. CASE parse
  BY <1>2, CountParseStart
<1>3. CASE PassOn
  BY <1>3, NothingCounted DEF PassOn
<1>4. CASE TakeSwitch
  BY <1>4, CountSwitch
<1>5. CASE CombineSwitch
  BY <1>5, CountCombined
<1>6. CASE CombineMultiSwitch
  BY <1>6, CountMultiCombined
<1>7. CASE TakeValue
  <2>1. PICK a \in Arg : a = A
    BY <1>7, Offered DEF TakeValue
  <2>2. Trying /\ status = "parsing" /\ Declared(a).kind = "ValueArg" /\ ~Ignores(a, W)
        /\ (Throw \/ (a \notin alreadySet /\ GiveValue(a)))
    BY <1>7, <2>1 DEF TakeValue, Trying
  <2>3. ArgMatches(a, W)
    BY <2>2 DEF Ignores, IsSwitch
  <2> HIDE DEF A, W
  <2> QED BY <2>1, <2>2, <2>3, CountThrown, CountValue
<1>8. CASE TakeFurtherValue
  <2>1. PICK a \in Arg : a = A
    BY <1>8, Offered DEF TakeFurtherValue
  <2>2. Trying /\ Declared(a).kind = "MultiArg" /\ ~Ignores(a, W) /\ GiveValue(a)
    BY <1>8, <2>1 DEF TakeFurtherValue
  <2>3. ArgMatches(a, W) /\ ~TakesOnce(a)
    BY <2>2 DEF Ignores, IsSwitch, TakesOnce
  <2> HIDE DEF A, W
  <2> QED BY <2>1, <2>2, <2>3, CountValue
<1>9. CASE TakeUnlabeled
  <2>1. PICK a \in Arg : a = A
    BY <1>9, Offered DEF TakeUnlabeled
  <2>2. Trying /\ Declared(a).kind = "UnlabeledValueArg" /\ ~Ignores(a, W) /\ GiveWord(a)
    BY <1>9, <2>1 DEF TakeUnlabeled
  <2>3. IsUnlabeled(a) /\ a \notin alreadySet
    BY <2>2 DEF Ignores, IsSwitch, IsUnlabeled
  <2> HIDE DEF A, W
  <2> QED BY <2>1, <2>2, <2>3, CountWord
<1>10. CASE TakeFurtherUnlabeled
  <2>1. PICK a \in Arg : a = A
    BY <1>10, Offered DEF TakeFurtherUnlabeled
  <2>2. Trying /\ Declared(a).kind = "UnlabeledMultiArg" /\ GiveWord(a)
    BY <1>10, <2>1 DEF TakeFurtherUnlabeled
  <2>3. IsUnlabeled(a) /\ ~TakesOnce(a)
    BY <2>2 DEF IsUnlabeled, TakesOnce
  <2> HIDE DEF A, W
  <2> QED BY <2>1, <2>2, <2>3, CountWord
<1>11. CASE Unmatched
  BY <1>11, CountThrown, NothingCounted DEF Unmatched
<1>12. CASE FinishParse
  BY <1>12, NothingCounted DEF FinishParse, loopVars
<1>13. CASE reset
  BY <1>13, CountReset
<1>14. CASE UNCHANGED vars
  BY <1>14, NothingCounted DEF vars, loopVars
<1> QED BY <1>1, <1>2, <1>3, <1>4, <1>5, <1>6, <1>7, <1>8, <1>9, <1>10, <1>11, <1>12, <1>13, <1>14 DEF Next

\* When parse returns, every required Arg was given, and of every group exactly
\* one Arg, although all parse compares are two sums.
THEOREM AcceptedHolds == Spec => []AcceptedIsComplete
<1>1. TypeInv /\ CountInv => AcceptedIsComplete
  BY CompleteWhenAccepted
<1> QED BY TypeInit, TypeStep, CountInit, CountStep, <1>1, PTL DEF Spec

\* A command line that gives every required Arg, and an Arg of every group by
\* itself, is not refused at its end.
THEOREM CompleteHolds == Spec => []CompleteIsAccepted
<1>1. TypeInv /\ CountInv => CompleteIsAccepted
  BY AcceptedWhenComplete
<1> QED BY TypeInit, TypeStep, CountInit, CountStep, <1>1, PTL DEF Spec

-----------------------------------------------------------------------------
(* The words.                                                                *)

\* What is said of word j when it has been passed.
Understood(j) ==
    \/ \E a \in Arg : UsesOf(j) = {[word |-> j, by |-> a, as |-> "value"]}
    \/ \E a \in Arg : UsesOf(j) = {[word |-> j, by |-> a, as |-> "flag"]}
                      /\ ArgMatches(a, words[j])
    \/ /\ UsesOf(j) # {} /\ \A u \in UsesOf(j) : u.as = "flag" /\ IsSwitch(u.by)
       /\ \/ LastCombined(words[j])
          \/ \E u \in UsesOf(j) : IgnoresRest(u) /\ u.by \in DOMAIN ArgObjects
    \/ /\ UsesOf(j) = {}
       /\ EmptyCombined(words[j]) \/ \E u \in uses : u.word < j /\ IgnoresRest(u)

\* A word that was used and is offered on is a combination, with a letter taken;
\* none of the switches that took one is that of "--".
InCombination(j) ==
    UsesOf(j) # {} =>
        /\ \A u \in UsesOf(j) : u.as = "flag" /\ IsSwitch(u.by) /\ Declared(u.by).flag # "-"
        /\ words[j].form = "short" /\ Len(words[j].letters) > 1 /\ HasBlanks(words[j])

\* What is known of the words of the first parse: which were passed, that none was
\* used ahead of its turn, and who told the parse to ignore the rest.
Read ==
    /\ \A j \in 1..Len(words) : j < i => Understood(j)
    /\ \A u \in uses : u.word <= i
    /\ InCombination(i)
    /\ ignoreRest => \/ \E u \in uses : u.word < i /\ IgnoresRest(u) /\ UsesOf(i) = {}
                     \/ \E u \in UsesOf(i) : IgnoresRest(u)

WordInv ==
    /\ status \in {"parsing", "parsed"} /\ parses = 1 => Read
    /\ status = "parsed" => i > Len(words)

LEMMA AllUnderstood == TypeInv /\ WordInv => WordsAccountedFor
<1> SUFFICES ASSUME TypeInv, WordInv, status = "parsed", parses = 1, NEW j \in 1..Len(words)
             PROVE  Understood(j)
  BY DEF WordsAccountedFor, Understood
<1>1. Read /\ i > Len(words) /\ words \in Seq(Word) /\ i \in 1..(Len(words) + 1)
  BY DEF WordInv, TypeInv, TypeOK
<1>2. Len(words) \in Nat
  BY <1>1
<1>3. j < i
  BY <1>1, <1>2
<1> QED BY <1>1, <1>3 DEF Read

\* But for the switch of "--", only the program's own Args ignore the rest.
LEMMA ProgramIgnores ==
    ASSUME NEW a \in Arg, Declared(a).visitor = "IgnoreRestVisitor", Declared(a).flag # "-"
    PROVE  a \in DOMAIN ArgObjects
<1>1. /\ BuiltIn.ignore.flag = "-" /\ DOMAIN BuiltIn = {"help", "version", "ignore"}
      /\ BuiltIn.help.visitor = "HelpVisitor" /\ BuiltIn.version.visitor = "VersionVisitor"
  BY DEF BuiltIn, SwitchArg, Construct
<1>2. a \in DOMAIN BuiltIn => Declared(a) = BuiltIn[a]
  BY DEF Declared
<1> QED BY <1>1, <1>2 DEF Arg

\* What was understood stays so.
LEMMA StaysUnderstood ==
    ASSUME NEW j, Understood(j), words'[j] = words[j], uses \subseteq uses',
           \A u \in uses' : u.word = j => u \in uses
    PROVE  Understood(j)'
<1>1. UsesOf(j)' = UsesOf(j)
  BY DEF UsesOf
<1> QED BY <1>1 DEF Understood, ArgMatches, LastCombined, EmptyCombined, IgnoresRest

\* The parse goes on from word n to word next.
LEMMA GoesOn ==
    ASSUME TypeInv, Read, NEW n \in 1..Len(words), n = i, NEW next \in Nat, next > n, i' = next,
           Len(words') = Len(words), \A j \in 1..Len(words) : j # n => words'[j] = words[j],
           uses \subseteq uses', \A u \in uses' : u \in uses \/ u.word >= n,
           \A u \in uses' : u.word \in Nat /\ u.word < next,
           \A j \in 1..Len(words) : n <= j /\ j < next => Understood(j)',
           ignoreRest' => \E u \in uses' : IgnoresRest(u)
    PROVE  Read'
<1>1. words \in Seq(Word)
  BY DEF TypeInv
<1>2. Len(words) \in Nat
  BY <1>1
<1>3. ASSUME NEW j \in 1..Len(words), j < next PROVE Understood(j)'
  <2>1. CASE j < n
    <3>1. Understood(j)
      BY <2>1 DEF Read
    <3>2. words'[j] = words[j] /\ \A u \in uses' : u.word = j => u \in uses
      <4>1. j # n /\ ~(j >= n)
        BY <1>2, <2>1
      <4> QED BY <4>1
    <3> QED BY <3>1, <3>2, StaysUnderstood
  <2>2. CASE n <= j
    BY <1>3, <2>2
  <2> QED BY <1>2, <2>1, <2>2
<1>4. \A u \in uses' : u.word # next /\ u.word <= next
  OBVIOUS
<1>5. UsesOf(next)' = {}
  BY <1>4 DEF UsesOf
<1>6. UsesOf(i)' = {}
  BY <1>4 DEF UsesOf
<1>7. InCombination(i)'
  BY <1>6 DEF InCombination
<1>8. ignoreRest' => \E u \in uses' : u.word < i' /\ IgnoresRest(u)' /\ UsesOf(i)' = {}
  BY <1>6 DEF IgnoresRest
<1> QED BY <1>3, <1>4, <1>7, <1>8 DEF Read

\* The words of what is used, before and after a word is passed.
LEMMA UsesAreBehind ==
    ASSUME TypeInv, Read PROVE \A u \in uses : u.word \in Nat /\ u.word <= i
<1>1. \A u \in uses : u.word \in 1..Len(words)
  BY DEF TypeInv, TypeOK
<1> QED BY <1>1 DEF Read

\* Of a word that no Arg took before, a flag says who did.
LEMMA FlagUnderstood ==
    ASSUME NEW n, NEW a \in Arg, UsesOf(n) = {}, NEW flags, NEW taken, Uses(a, flags, taken),
           n \in flags, n \notin taken, words'[n] = words[n], ArgMatches(a, words[n])
    PROVE  Understood(n)' /\ UsesOf(n)' = {[word |-> n, by |-> a, as |-> "flag"]}
<1>1. UsesOf(n)' = {[word |-> n, by |-> a, as |-> "flag"]}
  <2>1. \A u \in uses : u.word # n
    BY DEF UsesOf
  <2>2. [word |-> n, by |-> a, as |-> "flag"] \in uses'
    BY DEF Uses
  <2>3. \A u \in uses' : u.word = n => u = [word |-> n, by |-> a, as |-> "flag"]
    BY <2>1 DEF Uses
  <2> QED BY <2>2, <2>3 DEF UsesOf
<1>2. ArgMatches(a, words[n])'
  BY DEF ArgMatches
<1> QED BY <1>1, <1>2 DEF Understood

LEMMA ValueUnderstood ==
    ASSUME NEW n, NEW a \in Arg, UsesOf(n) = {}, NEW flags, NEW taken, Uses(a, flags, taken),
           n \notin flags, n \in taken
    PROVE  Understood(n)'
<1>1. UsesOf(n)' = {[word |-> n, by |-> a, as |-> "value"]}
  <2>1. \A u \in uses : u.word # n
    BY DEF UsesOf
  <2>2. [word |-> n, by |-> a, as |-> "value"] \in uses'
    BY DEF Uses
  <2>3. \A u \in uses' : u.word = n => u = [word |-> n, by |-> a, as |-> "value"]
    BY <2>1 DEF Uses
  <2> QED BY <2>2, <2>3 DEF UsesOf
<1> QED BY <1>1 DEF Understood

\* A word that is no combination some letter was taken from is not used yet.
LEMMA WordIsUnused ==
    ASSUME Read, \/ ~HasBlanks(W)
                 \/ \E a : ArgMatches(a, W)
    PROVE  UsesOf(i) = {}
<1> SUFFICES ASSUME UsesOf(i) # {} PROVE FALSE
  OBVIOUS
<1>1. W.form = "short" /\ Len(W.letters) > 1 /\ HasBlanks(W)
  BY DEF Read, InCombination, W
<1> QED BY <1>1, NobodyMatchesLong

LEMMA WordsThrown == TypeInv /\ WordInv /\ Throw => WordInv'
BY DEF WordInv, Throw

\* The first parse, at a word.
FirstParse == TypeInv /\ WordInv /\ Trying /\ parses = 1

LEMMA ReadNow == ASSUME FirstParse PROVE Read /\ TypeInv /\ Trying /\ status = "parsing" /\ parses # 0
BY DEF FirstParse, WordInv, Trying

LEMMA WordsSwitch == FirstParse /\ TakeSwitch => WordInv'
<1> SUFFICES ASSUME FirstParse, TakeSwitch, ~Throw PROVE WordInv'
  BY WordsThrown DEF TakeSwitch, FirstParse
<1>1. PICK a \in Arg : a = A
  BY ReadNow, Offered
<1>2. PICK n \in 1..Len(words) : n = i
  BY ReadNow, Offered
<1>3. /\ ~ignoreRest /\ WholeMatch(a, words[n]) /\ UNCHANGED <<words, parses>>
      /\ Visit(a) /\ Matched(a, n + 1) /\ Uses(a, {n}, {})
  BY <1>1, <1>2 DEF TakeSwitch, W
<1>4. TypeInv /\ Read /\ status = "parsing"
  BY ReadNow
<1>5. UsesOf(n) = {}
  BY <1>2, <1>3, <1>4, WordIsUnused DEF WholeMatch, W
<1>6. Understood(n)' /\ UsesOf(n)' = {[word |-> n, by |-> a, as |-> "flag"]}
  BY <1>3, <1>5, FlagUnderstood DEF WholeMatch
<1>7. i' = n + 1 /\ n \in Nat
  BY <1>3 DEF Matched
<1>8. uses \subseteq uses' /\ \A u \in uses' : u \in uses \/ u.word = n
  BY <1>3 DEF Uses
<1>9. \A u \in uses' : u.word \in Nat /\ u.word < n + 1
  <2>1. \A u \in uses : u.word \in Nat /\ u.word <= n
    BY <1>2, <1>4, UsesAreBehind
  <2> QED BY <1>7, <1>8, <2>1
<1>10. ignoreRest' => \E u \in uses' : IgnoresRest(u)
  <2>1. [word |-> n, by |-> a, as |-> "flag"] \in uses'
    BY <1>3 DEF Uses
  <2>2. ignoreRest' => IgnoresRest([word |-> n, by |-> a, as |-> "flag"])
    BY <1>3 DEF Visit, BeginsIgnoring, IgnoresRest
  <2> QED BY <2>1, <2>2
<1>11. Read'
  <2>1. \A u \in uses' : u \in uses \/ u.word >= n
    BY <1>7, <1>8
  <2>2. \A j \in 1..Len(words) : n <= j /\ j < n + 1 => Understood(j)'
    <3>1. \A j \in 1..Len(words) : n <= j /\ j < n + 1 => j = n
      BY <1>7
    <3> QED BY <1>6, <3>1
  <2>3. n + 1 \in Nat /\ n + 1 > n
    BY <1>7
  <2> QED BY <1>2, <1>3, <1>4, <1>7, <1>8, <1>9, <1>10, <2>1, <2>2, <2>3, GoesOn
<1> QED BY <1>3, <1>4, <1>11 DEF WordInv, Visit

\* A switch took letters out of a combination.
LEMMA WordsCombined ==
    ASSUME FirstParse, NEW a \in Arg, IsSwitch(a), NEW n \in 1..Len(words), n = i,
           ~ignoreRest, CombinedSwitchesMatch(a, words[n]), ~WholeMatch(a, words[n]),
           NEW w, words' = [words EXCEPT ![n] = w],
           w.form = "short", Len(w.letters) = Len(words[n].letters), HasBlanks(w),
           Visit(a), Uses(a, {n}, {}), UNCHANGED parses,
           OfferedOn(a) \/ (LastCombined(w) /\ Matched(a, n + 1))
    PROVE  WordInv'
<1>1. TypeInv /\ Read /\ status = "parsing" /\ words \in Seq(Word) /\ n \in Nat
  BY ReadNow DEF TypeInv
<1>2. words[n] \in Word
  BY <1>1
<1>3. Len(words[n].letters) > 1
  BY <1>2, CombinationIsLong
<1>4. words'[n] = w /\ Len(words') = Len(words) /\ \A j \in 1..Len(words) : j # n => words'[j] = words[j]
  BY <1>1
<1>5. uses \subseteq uses' /\ \A u \in uses' : u \in uses \/ u.word = n
  BY DEF Uses
<1>6. [word |-> n, by |-> a, as |-> "flag"] \in UsesOf(n)'
  BY DEF Uses, UsesOf
<1>7. \A u \in UsesOf(n)' : u.as = "flag" /\ IsSwitch(u.by) /\ Declared(u.by).flag # "-"
  <2>1. \A u \in UsesOf(n) : u.as = "flag" /\ IsSwitch(u.by) /\ Declared(u.by).flag # "-"
    BY <1>1 DEF Read, InCombination
  <2>3. Declared(a).flag # "-"
    BY DEF CombinedSwitchesMatch
  <2>2. \A u \in UsesOf(n)' : u \in UsesOf(n) \/ (u.as = "flag" /\ u.by = a)
    BY DEF Uses, UsesOf
  <2> QED BY <2>1, <2>2, <2>3
<1>8. ignoreRest' => IgnoresRest([word |-> n, by |-> a, as |-> "flag"])
  BY DEF Visit, BeginsIgnoring, IgnoresRest
<1>9. \A u \in uses' : u.word \in Nat /\ u.word <= n
  <2>1. \A u \in uses : u.word \in Nat /\ u.word <= n
    BY <1>1, UsesAreBehind
  <2> QED BY <1>1, <1>5, <2>1
<1>10. CASE OfferedOn(a)
  <2>1. i' = n
    BY <1>10 DEF OfferedOn
  <2>2. ASSUME NEW j \in 1..Len(words), j < n PROVE Understood(j)'
    <3>1. Understood(j) /\ j # n
      BY <1>1, <2>2 DEF Read
    <3> QED BY <1>4, <1>5, <3>1, StaysUnderstood
  <2>3. InCombination(n)'
    BY <1>3, <1>4, <1>7 DEF InCombination
  <2>4. ignoreRest' => \E u \in UsesOf(n)' : IgnoresRest(u)
    BY <1>6, <1>8
  <2>5. Read'
    BY <1>4, <1>9, <2>1, <2>2, <2>3, <2>4 DEF Read, IgnoresRest, InCombination, UsesOf
  <2> QED BY <1>1, <2>5 DEF WordInv, Visit
<1>11. CASE LastCombined(w) /\ Matched(a, n + 1)
  <2>1. i' = n + 1
    BY <1>11 DEF Matched
  <2>2. Understood(n)'
    <3>1. UsesOf(n)' # {}
      BY <1>6
    <3>2. LastCombined(words[n])'
      BY <1>4, <1>11 DEF LastCombined
    <3> QED BY <1>7, <3>1, <3>2 DEF Understood
  <2>3. ignoreRest' => \E u \in uses' : IgnoresRest(u)
    BY <1>6, <1>8 DEF UsesOf
  <2>4. \A u \in uses' : u \in uses \/ u.word >= n
    BY <1>1, <1>5
  <2>5. \A j \in 1..Len(words) : n <= j /\ j < n + 1 => Understood(j)'
    <3>1. \A j \in 1..Len(words) : n <= j /\ j < n + 1 => j = n
      BY <1>1
    <3> QED BY <2>2, <3>1
  <2>6. n + 1 \in Nat /\ n + 1 > n /\ \A u \in uses' : u.word \in Nat /\ u.word < n + 1
    BY <1>1, <1>9
  <2>7. Read'
    BY <1>1, <1>4, <1>5, <2>1, <2>3, <2>4, <2>5, <2>6, GoesOn
  <2> QED BY <1>1, <2>7 DEF WordInv, Visit
<1> QED BY <1>10, <1>11

LEMMA WordsValue ==
    ASSUME FirstParse, NEW a \in Arg, a = A, GiveValue(a),
           ~ignoreRest, ArgMatches(a, W)
    PROVE  WordInv'
<1> SUFFICES ASSUME ~Throw PROVE WordInv'
  BY WordsThrown DEF FirstParse
<1>1. PICK n \in 1..Len(words) : n = i
  BY ReadNow, Offered
<1>2. PICK next \in {n + 1, n + 2} :
        /\ next = n + 1 \/ n < Len(words)
        /\ UNCHANGED <<words, parses>>
        /\ Visit(a) /\ Matched(a, next) /\ Uses(a, {n}, (n + 1)..(next - 1))
  BY <1>1 DEF GiveValue
<1>3. TypeInv /\ Read /\ status = "parsing" /\ words \in Seq(Word) /\ n \in Nat
  BY ReadNow DEF TypeInv
<1>4. Len(words) \in Nat
  BY <1>3
<1>5. UsesOf(n) = {}
  BY <1>1, <1>3, WordIsUnused
<1>6. Understood(n)'
  <2>1. n \notin (n + 1)..(next - 1)
    BY <1>3
  <2>2. ArgMatches(a, words[n])
    BY <1>1 DEF W
  <2> QED BY <1>2, <1>5, <2>1, <2>2, FlagUnderstood
<1>7. ASSUME next = n + 2 PROVE Understood(n + 1)'
  <2>1. UsesOf(n + 1) = {}
    <3>1. \A u \in uses : u.word \in Nat /\ u.word <= n
      BY <1>1, <1>3, UsesAreBehind
    <3>2. \A u \in uses : u.word # n + 1
      BY <1>3, <3>1
    <3> QED BY <3>2 DEF UsesOf
  <2>2. n + 1 \notin {n} /\ n + 1 \in (n + 1)..(next - 1)
    BY <1>3, <1>7
  <2> QED BY <1>2, <2>1, <2>2, ValueUnderstood
<1>8. i' = next
  BY <1>2 DEF Matched
<1>9. uses \subseteq uses' /\ \A u \in uses' : u \in uses \/ u.word \in n..(next - 1)
  <2>1. \A u \in uses' : u \in uses \/ u.word = n \/ u.word \in (n + 1)..(next - 1)
    BY <1>2 DEF Uses
  <2>2. n \in n..(next - 1) /\ (n + 1)..(next - 1) \subseteq n..(next - 1)
    BY <1>3
  <2> QED BY <1>2, <2>1, <2>2 DEF Uses
<1>10. \A u \in uses' : u.word \in Nat /\ u.word < next
  <2>1. \A u \in uses : u.word \in Nat /\ u.word <= n
    BY <1>1, <1>3, UsesAreBehind
  <2>2. \A j \in n..(next - 1) : j \in Nat /\ j < next
    BY <1>3
  <2>3. \A j \in Nat : j <= n => j < next
    BY <1>3
  <2> QED BY <1>9, <2>1, <2>2, <2>3
<1>11. ignoreRest' => \E u \in uses' : IgnoresRest(u)
  <2>1. [word |-> n, by |-> a, as |-> "flag"] \in uses'
    BY <1>2 DEF Uses
  <2>2. ignoreRest' => IgnoresRest([word |-> n, by |-> a, as |-> "flag"])
    BY <1>2 DEF Visit, BeginsIgnoring, IgnoresRest
  <2> QED BY <2>1, <2>2
<1>12. Read'
  <2>1. \A u \in uses' : u \in uses \/ u.word >= n
    <3>1. \A j \in n..(next - 1) : j >= n
      BY <1>3
    <3> QED BY <1>9, <3>1
  <2>2. ASSUME NEW j \in 1..Len(words), n <= j, j < next PROVE Understood(j)'
    <3>1. j = n \/ (j = n + 1 /\ next = n + 2)
      BY <1>3, <2>2
    <3> QED BY <1>6, <1>7, <3>1
  <2>3. next \in Nat /\ next > n /\ Len(words') = Len(words)
        /\ \A j \in 1..Len(words) : j # n => words'[j] = words[j]
    BY <1>2, <1>3
  <2> QED BY <1>1, <1>3, <1>8, <1>9, <1>10, <1>11, <2>1, <2>2, <2>3, GoesOn
<1> QED BY <1>2, <1>3, <1>12 DEF WordInv, Visit

LEMMA WordsWord ==
    ASSUME FirstParse, NEW a \in Arg, a = A, GiveWord(a), ~HasBlanks(W)
    PROVE  WordInv'
<1> SUFFICES ASSUME ~Throw PROVE WordInv'
  BY WordsThrown DEF FirstParse
<1>1. PICK n \in 1..Len(words) : n = i
  BY ReadNow, Offered
<1>2. /\ UNCHANGED <<ignoreRest, words, status, parses>>
      /\ Matched(a, n + 1) /\ Uses(a, {}, {n})
  BY <1>1 DEF GiveWord
<1>3. TypeInv /\ Read /\ status = "parsing" /\ n \in Nat
  BY ReadNow
<1>4. UsesOf(n) = {}
  BY <1>1, <1>3, WordIsUnused
<1>5. Understood(n)'
  BY <1>2, <1>4, ValueUnderstood
<1>6. i' = n + 1
  BY <1>2 DEF Matched
<1>7. uses \subseteq uses' /\ \A u \in uses' : u \in uses \/ u.word = n
  BY <1>2 DEF Uses
<1>8. \A u \in uses' : u.word \in Nat /\ u.word < n + 1
  <2>1. \A u \in uses : u.word \in Nat /\ u.word <= n
    BY <1>1, <1>3, UsesAreBehind
  <2> QED BY <1>3, <1>7, <2>1
<1>9. ignoreRest' => \E u \in uses' : IgnoresRest(u)
  <2>1. ignoreRest => \E u \in uses : IgnoresRest(u)
    BY <1>3 DEF Read, UsesOf
  <2> QED BY <1>2, <1>7, <2>1
<1>10. Read'
  <2>1. \A u \in uses' : u \in uses \/ u.word >= n
    BY <1>3, <1>7
  <2>2. \A j \in 1..Len(words) : n <= j /\ j < n + 1 => Understood(j)'
    <3>1. \A j \in 1..Len(words) : n <= j /\ j < n + 1 => j = n
      BY <1>3
    <3> QED BY <1>5, <3>1
  <2>3. n + 1 \in Nat /\ n + 1 > n /\ Len(words') = Len(words)
        /\ \A j \in 1..Len(words) : j # n => words'[j] = words[j]
    BY <1>2, <1>3
  <2> QED BY <1>1, <1>3, <1>6, <1>7, <1>8, <1>9, <2>1, <2>2, <2>3, GoesOn
<1> QED BY <1>2, <1>3, <1>10 DEF WordInv

\* A word that every Arg passed on is empty, or a combination with nothing left
\* but a dash, or came after one.
LEMMA WordsUnmatched ==
    ASSUME TypeInv, WordInv, parses = 1, Unmatched PROVE WordInv'
<1> SUFFICES ASSUME ~Throw PROVE WordInv'
  BY WordsThrown
<1>1. /\ status = "parsing" /\ i <= Len(words)
      /\ EmptyCombined(W) \/ ignoreRest
      /\ i' = i + 1
      /\ UNCHANGED <<argVars, words, uses, status, parses>>
  BY DEF Unmatched
<1>2. Read /\ words \in Seq(Word) /\ i \in 1..(Len(words) + 1)
  BY <1>1 DEF WordInv, TypeInv, TypeOK
<1>3. Len(words) \in Nat
  BY <1>2
<1>4. PICK n \in 1..Len(words) : n = i
  BY <1>1, <1>2, <1>3
<1>5. Understood(n)
  <2>1. CASE UsesOf(n) # {}
    <3>1. InCombination(n)
      BY <1>2, <1>4 DEF Read
    <3>2. /\ \A u \in UsesOf(n) : u.as = "flag" /\ IsSwitch(u.by) /\ Declared(u.by).flag # "-"
          /\ words[n].form = "short"
      BY <2>1, <3>1 DEF InCombination
    <3>3. \/ LastCombined(words[n])
          \/ \E u \in UsesOf(n) : IgnoresRest(u) /\ u.by \in DOMAIN ArgObjects
      <4>1. EmptyCombined(words[n]) => LastCombined(words[n])
        <5>1. Text("").form # "short"
          BY DEF Text
        <5> QED BY <3>2, <5>1 DEF EmptyCombined
      <4>2. ignoreRest => \E u \in UsesOf(n) : IgnoresRest(u)
        BY <1>2, <1>4, <2>1 DEF Read
      <4>3. ASSUME NEW u \in UsesOf(n), IgnoresRest(u) PROVE u.by \in DOMAIN ArgObjects
        <5>1. u.by \in Arg
          BY DEF TypeInv, TypeOK, UsesOf
        <5> QED BY <3>2, <4>3, <5>1, ProgramIgnores DEF IgnoresRest
      <4> QED BY <1>1, <1>4, <4>1, <4>2, <4>3 DEF W
    <3> QED BY <2>1, <3>2, <3>3 DEF Understood
  <2>2. CASE UsesOf(n) = {}
    <3>1. ignoreRest => \E u \in uses : u.word < n /\ IgnoresRest(u)
      BY <1>2, <1>4, <2>2 DEF Read
    <3> QED BY <1>1, <1>4, <2>2, <3>1 DEF Understood, W
  <2> QED BY <2>1, <2>2
<1>6. Understood(n)'
  BY <1>1, <1>5, StaysUnderstood
<1>7. Read'
  <2>1. n \in Nat /\ n + 1 \in Nat /\ n + 1 > n /\ i' = n + 1
    BY <1>1, <1>4
  <2>2. \A u \in uses' : u.word \in Nat /\ u.word < n + 1
    <3>1. \A u \in uses : u.word \in Nat /\ u.word <= n
      BY <1>2, <1>4, UsesAreBehind
    <3> QED BY <1>1, <2>1, <3>1
  <2>3. \A j \in 1..Len(words) : n <= j /\ j < n + 1 => Understood(j)'
    <3>1. \A j \in 1..Len(words) : n <= j /\ j < n + 1 => j = n
      BY <2>1
    <3> QED BY <1>6, <3>1
  <2>4. ignoreRest' => \E u \in uses' : IgnoresRest(u)
    <3>1. ignoreRest => \E u \in uses : IgnoresRest(u)
      BY <1>2 DEF Read, UsesOf
    <3> QED BY <1>1, <3>1 DEF argVars
  <2>5. /\ Len(words') = Len(words) /\ \A j \in 1..Len(words) : j # n => words'[j] = words[j]
        /\ uses \subseteq uses' /\ \A u \in uses' : u \in uses \/ u.word >= n
    BY <1>1
  <2> QED BY <1>2, <1>4, <2>1, <2>2, <2>3, <2>4, <2>5, GoesOn
<1> QED BY <1>1, <1>7 DEF WordInv

\* A step that leaves the words and their uses.
LEMMA WordsStay ==
    ASSUME WordInv, UNCHANGED <<ignoreRest, words, i, uses, parses>>,
           \/ status = "parsing" /\ status' = "parsing"
           \/ status = "parsing" /\ status' = "parsed" /\ i > Len(words)
           \/ status' = status
           \/ status' \notin {"parsing", "parsed"}
    PROVE  WordInv'
<1>1. Read' <=> Read
  BY DEF Read, Understood, InCombination, UsesOf, IgnoresRest, ArgMatches, HasBlanks,
         LastCombined, EmptyCombined
<1> QED BY <1>1 DEF WordInv

LEMMA WordsStart == TypeInv /\ parse => WordInv'
<1> SUFFICES ASSUME TypeInv, parse PROVE WordInv'
  OBVIOUS
<1>1. /\ status' = "parsing" /\ i' = 1 /\ uses' = {} /\ parses' = parses + 1
      /\ ignoreRest' = ignoreRest
  BY DEF parse, argVars
<1>2. parses' = 1 => ~ignoreRest'
  <2>1. parses \in 0..MaxParses /\ (parses = 0 => ~ignoreRest)
    BY DEF TypeInv, TypeOK
  <2>2. parses' = 1 => parses = 0
    BY <1>1, <2>1, MaxParsesIsPositive
  <2> QED BY <1>1, <2>1, <2>2
<1>3. ASSUME parses' = 1 PROVE Read'
  <2>1. \A j \in 1..Len(words') : ~(j < i')
    BY <1>1
  <2>2. InCombination(i)'
    BY <1>1 DEF InCombination, UsesOf
  <2> QED BY <1>1, <1>2, <1>3, <2>1, <2>2 DEF Read
<1> QED BY <1>1, <1>3 DEF WordInv

LEMMA WordsParsing ==
    ASSUME TypeInv, WordInv, parses = 1,
           PassOn \/ TakeSwitch \/ CombineSwitch \/ CombineMultiSwitch
           \/ TakeValue \/ TakeFurtherValue \/ TakeUnlabeled \/ TakeFurtherUnlabeled
    PROVE  WordInv'
<1>1. FirstParse /\ status = "parsing"
  BY DEF FirstParse, PassOn, TakeSwitch, CombineSwitch, CombineMultiSwitch, TakeValue, TakeFurtherValue,
         TakeUnlabeled, TakeFurtherUnlabeled, Trying
<1>2. PICK a \in Arg : a = A
  BY <1>1, ReadNow, Offered
<1>3. PICK n \in 1..Len(words) : n = i
  BY <1>1, ReadNow, Offered
<1>4. words[n] = W /\ W \in Word
  BY <1>1, <1>3, ReadNow, Offered DEF W
<1>5. CASE PassOn
  BY <1>1, <1>5, WordsStay DEF PassOn, argVars
<1>6. CASE TakeSwitch
  BY <1>1, <1>6, WordsSwitch
<1>7. CASE CombineSwitch
  <2>1. CASE Throw
    BY <2>1, WordsThrown
  <2>2. CASE ~Throw
    <3> DEFINE w == TakeLetter(a, words[n])
    <3>1. /\ Declared(a).kind = "SwitchArg" /\ ~ignoreRest
          /\ CombinedSwitchesMatch(a, words[n]) /\ ~WholeMatch(a, words[n])
          /\ words' = [words EXCEPT ![n] = w]
          /\ Visit(a) /\ Uses(a, {n}, {}) /\ UNCHANGED parses
          /\ OfferedOn(a) \/ (LastCombined(w) /\ Matched(a, n + 1))
      BY <1>2, <1>3, <1>4, <1>7, <2>2 DEF CombineSwitch
    <3>2. w.form = "short" /\ Len(w.letters) = Len(words[n].letters) /\ HasBlanks(w)
      BY <1>4, <3>1, LetterIsTaken
    <3>3. IsSwitch(a)
      BY <3>1 DEF IsSwitch
    <3> HIDE DEF w
    <3> QED BY <1>1, <1>3, <3>1, <3>2, <3>3, WordsCombined
  <2> QED BY <2>1, <2>2
<1>8. CASE CombineMultiSwitch
  <2> DEFINE w == TakeAllLetters(a, words[n])
  <2>1. /\ Declared(a).kind = "MultiSwitchArg" /\ ~ignoreRest
        /\ CombinedSwitchesMatch(a, words[n]) /\ ~WholeMatch(a, words[n])
        /\ words' = [words EXCEPT ![n] = w]
        /\ Visit(a) /\ Uses(a, {n}, {}) /\ UNCHANGED parses
        /\ OfferedOn(a)
    BY <1>2, <1>3, <1>4, <1>8 DEF CombineMultiSwitch
  <2>2. w.form = "short" /\ Len(w.letters) = Len(words[n].letters) /\ HasBlanks(w)
    BY <1>4, <2>1, LettersAreTaken
  <2>3. IsSwitch(a)
    BY <2>1 DEF IsSwitch
  <2> HIDE DEF w
  <2> QED BY <1>1, <1>3, <2>1, <2>2, <2>3, WordsCombined
<1>9. CASE TakeValue \/ TakeFurtherValue
  <2>1. Declared(a).kind \in {"ValueArg", "MultiArg"} /\ ~Ignores(a, W) /\ (Throw \/ GiveValue(a))
    BY <1>2, <1>9 DEF TakeValue, TakeFurtherValue
  <2>2. ~ignoreRest /\ ArgMatches(a, W)
    BY <2>1 DEF Ignores, IsSwitch
  <2> HIDE DEF A, W
  <2> QED BY <1>1, <1>2, <2>1, <2>2, WordsThrown, WordsValue
<1>10. CASE TakeUnlabeled \/ TakeFurtherUnlabeled
  <2>1. Declared(a).kind \in {"UnlabeledValueArg", "UnlabeledMultiArg"} /\ ~Ignores(a, W) /\ GiveWord(a)
    BY <1>2, <1>10 DEF TakeUnlabeled, TakeFurtherUnlabeled
  <2>2. ~HasBlanks(W)
    BY <2>1 DEF Ignores, IsSwitch
  <2> HIDE DEF A, W
  <2> QED BY <1>1, <1>2, <2>1, <2>2, WordsWord
<1> QED BY <1>5, <1>6, <1>7, <1>8, <1>9, <1>10

LEMMA WordStep == TypeInv /\ WordInv /\ [Next]_vars => WordInv'
<1> SUFFICES ASSUME TypeInv, WordInv, [Next]_vars PROVE WordInv'
  OBVIOUS
<1>1. CASE add \/ xorAdd \/ xorAddNext \/ reset
  <2>1. status' \in {"ready", "specification error"}
    BY <1>1 DEF add, xorAdd, xorAddNext, Add, reset
  <2> QED BY <2>1 DEF WordInv
<1>2. CASE parse
  BY <1>2, WordsStart
<1>3. CASE FinishParse
  BY <1>3, WordsStay DEF FinishParse, argVars, loopVars
<1>4. CASE UNCHANGED vars
  BY <1>4, WordsStay DEF vars, argVars, loopVars
<1>5. CASE Unmatched
  <2>1. UNCHANGED parses /\ status' # "parsed"
    BY <1>5 DEF Unmatched, Throw
  <2> QED BY <1>5, <2>1, WordsUnmatched DEF WordInv
<1>6. CASE PassOn \/ TakeSwitch \/ CombineSwitch \/ CombineMultiSwitch
           \/ TakeValue \/ TakeFurtherValue \/ TakeUnlabeled \/ TakeFurtherUnlabeled
  <2>1. UNCHANGED parses /\ status' # "parsed"
    BY <1>6 DEF PassOn, TakeSwitch, CombineSwitch, CombineMultiSwitch, TakeValue, TakeFurtherValue,
                TakeUnlabeled, TakeFurtherUnlabeled, GiveValue, GiveWord, Trying, Throw, Visit
  <2> QED BY <1>6, <2>1, WordsParsing DEF WordInv
<1> QED BY <1>1, <1>2, <1>3, <1>4, <1>5, <1>6 DEF Next

LEMMA WordInit == Init => WordInv
BY DEF Init, WordInv

\* When the first parse returns, every word was understood once: no word is
\* lost, and none is the value of one Arg and the flag of another.
THEOREM WordsAreAccountedFor == Spec => []WordsAccountedFor
<1>1. TypeInv /\ WordInv => WordsAccountedFor
  BY AllUnderstood
<1> QED BY TypeInit, TypeStep, WordInit, WordStep, <1>1, PTL DEF Spec
=============================================================================
