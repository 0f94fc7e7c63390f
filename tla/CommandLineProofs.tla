-------------------------- MODULE CommandLineProofs --------------------------
(* What a parse promises, for every set of Args, set-up and command line.    *)
EXTENDS CommandLineProperties, FiniteSetTheorems, TLAPS

-----------------------------------------------------------------------------
(* Args that are met once.                                                   *)

TakesOnce(a) == Declared(a).kind \in {"SwitchArg", "ValueArg", "UnlabeledValueArg"}

\* As long as a command line is parsed, what was met is marked; reset takes the
\* marks away, and parse forgets the uses before it gives new ones.
Marked ==
    status \in {"parsing", "parsed"} =>
        \A u \in uses : TakesOnce(u.by) => u.by \in alreadySet

OnceInv == i \in Nat /\ Marked /\ MetOnce

\* An Arg that takes one word is met at word x, and with a value at word y, when
\* it was not met before.
LEMMA MetNow ==
    ASSUME Marked, MetOnce, status = "parsing",
           NEW a, NEW flags, NEW taken, Uses(a, flags, taken),
           TakesOnce(a) => /\ a \notin alreadySet
                           /\ \A x, y \in flags : x = y
                           /\ \A x, y \in taken : x = y,
           a \in alreadySet', alreadySet \subseteq alreadySet'
    PROVE  Marked' /\ MetOnce'
<1> DEFINE F == {[word |-> j, by |-> a, as |-> "flag"] : j \in flags}
           V == {[word |-> j, by |-> a, as |-> "value"] : j \in taken}
<1>1. uses' = uses \union F \union V
  BY DEF Uses
<1>2. \A u \in uses : TakesOnce(u.by) => u.by \in alreadySet
  BY DEF Marked
<1>3. /\ \A u \in F : u.by = a /\ u.as = "flag"
      /\ \A u \in V : u.by = a /\ u.as = "value"
  OBVIOUS
<1>4. Marked'
  <2>1. \A u \in uses' : TakesOnce(u.by) => u.by \in alreadySet'
    BY <1>1, <1>2, <1>3
  <2> QED BY <2>1 DEF Marked, TakesOnce
<1>5. ASSUME NEW u \in uses', NEW v \in uses', u.by = v.by, u.as = v.as, TakesOnce(u.by)
      PROVE  u = v
  <2>1. CASE u \in uses /\ v \in uses
    BY <1>5, <2>1 DEF MetOnce, TakesOnce
  <2>2. CASE u \notin uses \/ v \notin uses
    <3>1. a = u.by /\ a \notin alreadySet
      BY <1>1, <1>3, <1>5, <2>2
    <3>2. u \notin uses /\ v \notin uses
      BY <1>2, <1>5, <3>1
    <3>3. (u \in F /\ v \in F) \/ (u \in V /\ v \in V)
      BY <1>1, <1>3, <1>5, <3>2
    <3> QED BY <1>5, <3>1, <3>3
  <2> QED BY <2>1, <2>2
<1>6. MetOnce'
  BY <1>5 DEF MetOnce, TakesOnce
<1> QED BY <1>4, <1>6

\* A step that leaves the parse alone.
LEMMA NothingMet ==
    ASSUME OnceInv, uses' = uses, i' \in Nat,
           \/ status' \notin {"parsing", "parsed"}
           \/ status \in {"parsing", "parsed"} /\ alreadySet' = alreadySet
    PROVE  OnceInv'
<1>1. Marked'
  BY DEF OnceInv, Marked, TakesOnce
<1> QED BY <1>1 DEF OnceInv, MetOnce

LEMMA Thrown == ASSUME OnceInv, Throw PROVE OnceInv'
BY NothingMet DEF Throw, loopVars, OnceInv

\* What is matched is marked, and nothing marked is unmarked.
LEMMA MatchedMarks ==
    ASSUME NEW a, NEW next \in Nat, Matched(a, next)
    PROVE  a \in alreadySet' /\ alreadySet \subseteq alreadySet' /\ i' \in Nat
BY DEF Matched

LEMMA OnceInit == Init => OnceInv
BY DEF Init, OnceInv, Marked, MetOnce

LEMMA GivesValue ==
    ASSUME OnceInv, status = "parsing", NEW a, GiveValue(a), TakesOnce(a) => a \notin alreadySet
    PROVE  OnceInv'
<1> DEFINE next == IF HasInlineValue(W) THEN i + 1 ELSE i + 2
<1>1. CASE Throw
  BY <1>1, Thrown
<1>2. CASE Matched(a, next) /\ Uses(a, {i}, (i + 1)..(next - 1))
  <2>1. next \in Nat /\ i \in Nat /\ \A x, y \in (i + 1)..(next - 1) : x = y
    BY DEF OnceInv
  <2>2. a \in alreadySet' /\ alreadySet \subseteq alreadySet' /\ i' \in Nat
    BY <1>2, <2>1, MatchedMarks
  <2>3. Marked' /\ MetOnce'
    <3> HIDE DEF next
    <3> QED BY <1>2, <2>1, <2>2, MetNow DEF OnceInv
  <2> QED BY <2>2, <2>3 DEF OnceInv
<1>3. Throw \/ (Matched(a, next) /\ Uses(a, {i}, (i + 1)..(next - 1)))
  BY DEF GiveValue
<1> QED BY <1>1, <1>2, <1>3

LEMMA GivesWord ==
    ASSUME OnceInv, status = "parsing", NEW a, GiveWord(a), TakesOnce(a) => a \notin alreadySet
    PROVE  OnceInv'
<1>1. CASE Throw
  BY <1>1, Thrown
<1>2. CASE Matched(a, i + 1) /\ Uses(a, {}, {i})
  <2>1. a \in alreadySet' /\ alreadySet \subseteq alreadySet' /\ i' \in Nat
    BY <1>2, MatchedMarks DEF OnceInv
  <2>2. Marked' /\ MetOnce'
    BY <1>2, <2>1, MetNow DEF OnceInv
  <2> QED BY <2>1, <2>2 DEF OnceInv
<1>3. Throw \/ (Matched(a, i + 1) /\ Uses(a, {}, {i}))
  BY DEF GiveWord
<1> QED BY <1>1, <1>2, <1>3

LEMMA OnceStep == OnceInv /\ [Next]_vars => OnceInv'
<1> SUFFICES ASSUME OnceInv, [Next]_vars PROVE OnceInv'
  OBVIOUS
<1>1. CASE add \/ xorAdd \/ xorAddNext
  <2>1. status = "ready" /\ uses' = uses /\ i' = i /\ status' \in {"ready", "specification error"}
    BY <1>1 DEF add, xorAdd, xorAddNext, Add, loopVars
  <2> QED BY <2>1, NothingMet DEF OnceInv
<1>2. CASE parse
  BY <1>2 DEF parse, OnceInv, Marked, MetOnce
<1>3. CASE PassOn
  BY <1>3, NothingMet DEF PassOn, Trying, argVars, OnceInv
<1>4. CASE TakeSwitch
  <2>1. CASE Throw
    BY <2>1, Thrown
  <2>2. CASE ~Throw
    <3>1. /\ status = "parsing"
          /\ Declared(A).kind = "SwitchArg" => A \notin alreadySet
          /\ IsSwitch(A) /\ Matched(A, i + 1) /\ Uses(A, {i}, {})
      BY <1>4, <2>2 DEF TakeSwitch, Trying
    <3>2. A \in alreadySet' /\ alreadySet \subseteq alreadySet' /\ i' \in Nat
      BY <3>1, MatchedMarks DEF OnceInv
    <3>3. TakesOnce(A) => A \notin alreadySet
      BY <3>1 DEF TakesOnce, IsSwitch
    <3>4. Marked' /\ MetOnce'
      BY <3>1, <3>2, <3>3, MetNow DEF OnceInv
    <3> QED BY <3>2, <3>4 DEF OnceInv
  <2> QED BY <2>1, <2>2
<1>5. CASE CombineSwitch
  <2>1. CASE Throw
    BY <2>1, Thrown
  <2>2. CASE ~Throw
    <3>1. /\ status = "parsing" /\ A \notin alreadySet /\ Uses(A, {i}, {})
          /\ \/ Matched(A, i + 1)
             \/ OfferedOn(A)
      BY <1>5, <2>2 DEF CombineSwitch, Trying
    <3>2. A \in alreadySet' /\ alreadySet \subseteq alreadySet' /\ i' \in Nat
      BY <3>1, MatchedMarks DEF OnceInv, OfferedOn
    <3>3. Marked' /\ MetOnce'
      BY <3>1, <3>2, MetNow DEF OnceInv
    <3> QED BY <3>2, <3>3 DEF OnceInv
  <2> QED BY <2>1, <2>2
<1>6. CASE CombineMultiSwitch
  <2>1. /\ status = "parsing" /\ ~TakesOnce(A) /\ Uses(A, {i}, {})
        /\ A \in alreadySet' /\ alreadySet \subseteq alreadySet' /\ i' \in Nat
    BY <1>6 DEF CombineMultiSwitch, Trying, OfferedOn, TakesOnce, OnceInv
  <2>2. Marked' /\ MetOnce'
    BY <2>1, MetNow DEF OnceInv
  <2> QED BY <2>1, <2>2 DEF OnceInv
<1>7. CASE TakeValue
  <2>1. CASE Throw
    BY <2>1, Thrown
  <2>2. CASE ~Throw
    BY <1>7, <2>2, GivesValue DEF TakeValue, Trying
  <2> QED BY <2>1, <2>2
<1>8. CASE TakeFurtherValue
  BY <1>8, GivesValue DEF TakeFurtherValue, Trying, TakesOnce
<1>9. CASE TakeUnlabeled
  <2>1. A \notin alreadySet
    BY <1>9 DEF TakeUnlabeled, Ignores, IsSwitch
  <2> QED BY <1>9, <2>1, GivesWord DEF TakeUnlabeled, Trying
<1>10. CASE TakeFurtherUnlabeled
  BY <1>10, GivesWord DEF TakeFurtherUnlabeled, Trying, TakesOnce
<1>11. CASE Unmatched
  <2>1. CASE Throw
    BY <2>1, Thrown
  <2>2. CASE ~Throw
    BY <1>11, <2>2, NothingMet DEF Unmatched, argVars, OnceInv
  <2> QED BY <2>1, <2>2
<1>12. CASE FinishParse
  BY <1>12, NothingMet DEF FinishParse, argVars, loopVars, OnceInv
<1>13. CASE reset
  BY <1>13, NothingMet DEF reset, loopVars, OnceInv
<1>14. CASE UNCHANGED vars
  BY <1>14 DEF vars, argVars, loopVars, OnceInv, Marked, MetOnce
<1> QED BY <1>1, <1>2, <1>3, <1>4, <1>5, <1>6, <1>7, <1>8, <1>9, <1>10, <1>11, <1>12, <1>13, <1>14 DEF Next

\* No plain switch and no Arg of one value is met at two words of a command line.
THEOREM ArgsAreMetOnce == Spec => []MetOnce
<1>1. OnceInv => MetOnce
  BY DEF OnceInv
<1> QED BY OnceInit, OnceStep, <1>1, PTL DEF Spec

-----------------------------------------------------------------------------
(* The list of Args and the groups, which the usage is printed from.         *)

Elements(s)  == {s[j] : j \in DOMAIN s}
Injective(s) == \A j, l \in DOMAIN s : s[j] = s[l] => j = l

\* While the Args of a group are added, some are in the group and not in the
\* list; one that is in two groups is in the list already, and will be refused.
SetUp ==
    /\ Injective(argList)
    /\ \A g \in xorList : g \subseteq Elements(argList) \union Elements(pending)
    /\ \A g, h \in xorList : g # h => g \intersect h \subseteq Elements(argList) \intersect Elements(pending)
    /\ status # "ready" => pending = <<>>

SetupTypes == calls \in Seq(Call) /\ pending \in Seq(Arg) /\ argList \in Seq(Arg)

UsageInv == SetupTypes /\ (status # "specification error" => SetUp)

\* An Arg is added at one end of the list, and only when it is not in it.
LEMMA AddedOnce ==
    ASSUME argList \in Seq(Arg), NEW a \in Arg, ~Listed(a)
    PROVE  /\ AddedToList(a) \in Seq(Arg)
           /\ Elements(AddedToList(a)) = Elements(argList) \union {a}
           /\ a \notin Elements(argList)
           /\ Injective(argList) => Injective(AddedToList(a))
<1>1. a \notin Elements(argList)
  <2>1. \A j \in DOMAIN argList : argList[j] = a => SameArg(a, argList[j], required)
    BY DEF SameArg, EqualLabeled, EqualUnlabeled
  <2> QED BY <2>1 DEF Listed, Elements
<1>2. CASE AddedToList(a) = Append(argList, a)
  BY <1>1, <1>2 DEF Elements, Injective
<1>3. CASE AddedToList(a) = <<a>> \o argList
  <2>1. /\ AddedToList(a) \in Seq(Arg) /\ Len(AddedToList(a)) = Len(argList) + 1
        /\ AddedToList(a)[1] = a
        /\ \A j \in 1..Len(argList) : AddedToList(a)[j + 1] = argList[j]
    BY <1>3
  <2>2. \A j \in 2..Len(AddedToList(a)) :
            j - 1 \in 1..Len(argList) /\ AddedToList(a)[j] = argList[j - 1]
    <3>1. ASSUME NEW j \in 2..Len(AddedToList(a))
          PROVE j - 1 \in 1..Len(argList) /\ AddedToList(a)[j] = argList[j - 1]
      <4>1. j - 1 \in 1..Len(argList) /\ (j - 1) + 1 = j
        BY <2>1
      <4> QED BY <2>1, <4>1
    <3> QED BY <3>1
  <2>3. Elements(AddedToList(a)) = Elements(argList) \union {a}
    <3>1. Elements(AddedToList(a)) \subseteq Elements(argList) \union {a}
      BY <2>1, <2>2 DEF Elements
    <3>2. Elements(argList) \union {a} \subseteq Elements(AddedToList(a))
      <4>1. \A j \in 1..Len(argList) : j + 1 \in DOMAIN AddedToList(a)
        BY <2>1
      <4>2. 1 \in DOMAIN AddedToList(a)
        BY <2>1
      <4> QED BY <2>1, <4>1, <4>2 DEF Elements
    <3> QED BY <3>1, <3>2
  <2>4. Injective(argList) => Injective(AddedToList(a))
    <3> SUFFICES ASSUME Injective(argList), NEW j \in DOMAIN AddedToList(a),
                        NEW l \in DOMAIN AddedToList(a), AddedToList(a)[j] = AddedToList(a)[l]
                 PROVE  j = l
      BY DEF Injective
    <3>1. \A x \in DOMAIN AddedToList(a) : x = 1 \/ x \in 2..Len(AddedToList(a))
      BY <2>1
    <3>2. \A x \in 2..Len(AddedToList(a)) : x - 1 \in DOMAIN argList /\ argList[x - 1] # a
      BY <1>1, <2>2 DEF Elements
    <3>3. CASE j = 1 \/ l = 1
      BY <2>1, <2>2, <3>1, <3>2, <3>3
    <3>4. CASE j \in 2..Len(AddedToList(a)) /\ l \in 2..Len(AddedToList(a))
      <4>1. j - 1 = l - 1
        BY <2>2, <3>2, <3>4 DEF Injective
      <4> QED BY <2>1, <3>4, <4>1
    <3> QED BY <3>1, <3>3, <3>4
  <2> QED BY <1>1, <2>1, <2>3, <2>4
<1> QED BY <1>2, <1>3 DEF AddedToList

\* Once pending is empty, nothing of this changes.
LEMMA SetUpStays ==
    ASSUME UsageInv, status # "specification error", pending = <<>>, UNCHANGED setupVars
    PROVE  UsageInv'
BY DEF UsageInv, SetupTypes, SetUp, setupVars

LEMMA UsageInit == Init => UsageInv
<1> SUFFICES ASSUME Init PROVE UsageInv
  OBVIOUS
<1>1. SetupTypes
  <2>1. argList \in Seq(Arg)
    <3>1. \A b \in {"ignore", "version", "help"} : b \in Arg
      BY DEF Arg, BuiltIn
    <3> QED BY <3>1 DEF Init
  <2> QED BY <2>1, SetupsAreCalls DEF Init, SetupTypes, SetupsAssumption
<1>2. SetUp
  BY DEF Init, SetUp, Injective, Elements
<1> QED BY <1>1, <1>2 DEF UsageInv

LEMMA AddStep == UsageInv /\ add => UsageInv'
<1> SUFFICES ASSUME UsageInv, add PROVE UsageInv'
  OBVIOUS
<1> DEFINE a == Head(calls).args[1]
<1>1. a \in Arg /\ calls' \in Seq(Call) /\ pending' = <<>> /\ xorList' = xorList /\ pending = <<>>
  <2>1. calls \in Seq(Call) /\ calls # <<>> /\ calls' = Tail(calls)
    BY DEF add, UsageInv, SetupTypes
  <2>2. Head(calls) \in Call
    BY <2>1
  <2>3. Head(calls).args \in Seq(Arg) /\ Head(calls).args # <<>>
    BY <2>2 DEF Call
  <2>4. a \in Arg
    BY <2>3
  <2> QED BY <2>1, <2>4 DEF add
<1>2. CASE status' = "specification error" /\ argList' = argList
  BY <1>1, <1>2 DEF UsageInv, SetupTypes
<1>3. CASE ~Listed(a) /\ argList' = AddedToList(a) /\ status' = status
  <2>1. SetUp
    BY DEF add, UsageInv
  <2> HIDE DEF a
  <2>2. /\ argList' \in Seq(Arg) /\ Injective(argList')
        /\ Elements(argList) \subseteq Elements(argList')
    BY <1>1, <1>3, <2>1, AddedOnce DEF UsageInv, SetupTypes, SetUp
  <2>3. Elements(<<>>) = {}
    BY DEF Elements
  <2>4. SetUp'
    BY <1>1, <1>3, <2>1, <2>2, <2>3 DEF SetUp
  <2> QED BY <1>1, <2>2, <2>4 DEF UsageInv, SetupTypes
<1> QED BY <1>2, <1>3 DEF add, Add

LEMMA XorAddStep == UsageInv /\ xorAdd => UsageInv'
<1> SUFFICES ASSUME UsageInv, xorAdd PROVE UsageInv'
  OBVIOUS
<1> DEFINE args == Head(calls).args
<1>1. /\ args \in Seq(Arg) /\ calls' \in Seq(Call) /\ pending = <<>> /\ pending' = args
      /\ xorList' = xorList \union {Elements(args)}
      /\ argList' = argList /\ status = "ready" /\ status' = status
  <2>1. calls \in Seq(Call) /\ calls # <<>> /\ calls' = Tail(calls)
    BY DEF xorAdd, UsageInv, SetupTypes
  <2>2. Head(calls) \in Call
    BY <2>1
  <2>3. args \in Seq(Arg)
    BY <2>2 DEF Call
  <2> QED BY <2>1, <2>3 DEF xorAdd, Elements
<1> HIDE DEF args
<1>2. Elements(pending) = {}
  BY <1>1 DEF Elements
<1>3. SetUp'
  BY <1>1, <1>2 DEF UsageInv, SetUp
<1> QED BY <1>1, <1>3 DEF UsageInv, SetupTypes

LEMMA XorAddNextStep == UsageInv /\ xorAddNext => UsageInv'
<1> SUFFICES ASSUME UsageInv, xorAddNext PROVE UsageInv'
  OBVIOUS
<1> DEFINE a == Head(pending)
<1>1. /\ a \in Arg /\ calls' = calls /\ pending' \in Seq(Arg) /\ xorList' = xorList
      /\ Elements(pending) \subseteq {a} \union Elements(pending')
      /\ status = "ready" /\ SetUp
  <2>1. pending \in Seq(Arg) /\ pending # <<>> /\ pending' = Tail(pending)
    BY DEF xorAddNext, UsageInv, SetupTypes
  <2>2. Elements(pending) \subseteq {a} \union Elements(pending')
    <3>1. \A j \in DOMAIN pending : j = 1 \/ (j - 1 \in DOMAIN pending' /\ pending'[j - 1] = pending[j])
      BY <2>1
    <3> QED BY <2>1, <3>1 DEF Elements
  <2> QED BY <2>1, <2>2 DEF xorAddNext, UsageInv
<1>2. CASE status' = "specification error" /\ argList' = argList
  BY <1>1, <1>2 DEF UsageInv, SetupTypes
<1>3. CASE ~Listed(a) /\ argList' = AddedToList(a) /\ status' = status
  <2> HIDE DEF a
  <2>1. /\ argList' \in Seq(Arg) /\ Injective(argList')
        /\ Elements(argList') = Elements(argList) \union {a} /\ a \notin Elements(argList)
    BY <1>1, <1>3, AddedOnce DEF UsageInv, SetupTypes, SetUp
  <2>2. SetUp'
    BY <1>1, <1>3, <2>1 DEF SetUp
  <2> QED BY <1>1, <2>1, <2>2 DEF UsageInv, SetupTypes
<1> QED BY <1>2, <1>3 DEF xorAddNext, Add

\* What is done once the set-up is.
Parsing ==
    \/ parse
    \/ PassOn \/ TakeSwitch \/ CombineSwitch \/ CombineMultiSwitch
    \/ TakeValue \/ TakeFurtherValue \/ TakeUnlabeled \/ TakeFurtherUnlabeled
    \/ Unmatched \/ FinishParse
    \/ reset

LEMMA ParsingKeepsSetup == UsageInv /\ Parsing => UsageInv'
<1> SUFFICES ASSUME UsageInv, Parsing PROVE UsageInv'
  OBVIOUS
<1>1. UNCHANGED setupVars
  BY DEF Parsing, parse, PassOn, TakeSwitch, CombineSwitch, CombineMultiSwitch, TakeValue, TakeFurtherValue,
         TakeUnlabeled, TakeFurtherUnlabeled, GiveValue, GiveWord, Unmatched, FinishParse, reset, Throw
<1>2. status \in {"parsing", "parsed"} \/ (status = "ready" /\ pending = <<>>)
  BY DEF Parsing, parse, PassOn, TakeSwitch, CombineSwitch, CombineMultiSwitch, TakeValue, TakeFurtherValue,
         TakeUnlabeled, TakeFurtherUnlabeled, Unmatched, FinishParse, reset, Trying
<1> QED BY <1>1, <1>2, SetUpStays DEF UsageInv, SetUp

LEMMA UsageStep == UsageInv /\ [Next]_vars => UsageInv'
<1> SUFFICES ASSUME UsageInv, [Next]_vars PROVE UsageInv'
  OBVIOUS
<1>1. CASE UNCHANGED vars
  BY <1>1 DEF vars, setupVars, UsageInv, SetupTypes, SetUp
<1> QED BY <1>1, AddStep, XorAddStep, XorAddNextStep, ParsingKeepsSetup DEF Next, Parsing

\* The set-up went well and is over.
InUse == status \notin {"ready", "specification error"}

LEMMA NothingPending ==
    ASSUME UsageInv, InUse
    PROVE  /\ Injective(argList)
           /\ \A g \in xorList : g \subseteq Elements(argList)
           /\ \A g, h \in xorList : g # h => g \intersect h = {}
<1>1. SetUp /\ pending = <<>>
  BY DEF UsageInv, SetUp, InUse
<1>2. Elements(<<>>) = {}
  BY DEF Elements
<1> QED BY <1>1, <1>2 DEF SetUp

\* An Arg of a group is named with its group and nowhere else, any other by the list.
LEMMA NamedOnce == UsageInv => UsageNamesEachArg
<1> DEFINE groups(a) == {g \in xorList : a \in g}
           places(a) == {j \in Rest : argList[j] = a}
           listed(a) == \E j \in DOMAIN argList : argList[j] = a
<1>0. \A a : TimesInUsage(a) = Cardinality(groups(a)) + Cardinality(places(a))
  BY DEF TimesInUsage
<1>a. \A a : groups(a) # {} => places(a) = {}
  BY DEF Rest, XorGroup
<1>b. \A a : groups(a) = {} => XorGroup(a) = {}
  BY DEF XorGroup
<1>c. Cardinality({}) = 0 /\ \A x : Cardinality({x}) = 1
  BY FS_EmptySet, FS_Singleton
<1> SUFFICES ASSUME UsageInv, InUse, NEW a \in Arg
             PROVE  TimesInUsage(a) = IF listed(a) THEN 1 ELSE 0
  BY DEF UsageNamesEachArg, InUse
<1>1. /\ Injective(argList)
      /\ \A g \in xorList : g \subseteq Elements(argList)
      /\ \A g, h \in xorList : g # h => g \intersect h = {}
      /\ argList \in Seq(Arg)
  BY NothingPending DEF UsageInv, SetupTypes
<1>2. CASE groups(a) # {}
  <2>1. PICK g \in xorList : a \in g
    BY <1>2
  <2>2. groups(a) = {g}
    <3>1. \A h \in groups(a) : h = g
      <4>1. ASSUME NEW h \in xorList, a \in h PROVE h = g
        <5>1. a \in g \intersect h
          BY <2>1, <4>1
        <5> QED BY <1>1, <5>1
      <4> QED BY <4>1
    <3>2. g \in groups(a)
      BY <2>1
    <3> HIDE DEF groups, places, listed
    <3> QED BY <3>1, <3>2
  <2>3. places(a) = {}
    BY <1>a, <1>2
  <2>4. listed(a)
    BY <1>1, <2>1 DEF Elements
  <2> HIDE DEF groups, places, listed
  <2>5. Cardinality(groups(a)) = 1 /\ Cardinality(places(a)) = 0
    BY <1>c, <2>2, <2>3
  <2> QED BY <1>0, <2>4, <2>5
<1>3. CASE groups(a) = {}
  <2>1. Cardinality(groups(a)) = 0
    BY <1>c, <1>3
  <2>2. CASE listed(a)
    <3>1. PICK j \in DOMAIN argList : argList[j] = a
      BY <2>2
    <3>2. places(a) = {j}
      BY <1>1, <1>b, <1>3, <3>1 DEF Rest, Injective
    <3> HIDE DEF groups, places, listed
    <3>3. Cardinality(places(a)) = 1
      BY <1>c, <3>2
    <3> QED BY <1>0, <2>1, <2>2, <3>3
  <2>3. CASE ~listed(a)
    <3>1. places(a) = {}
      BY <2>3 DEF Rest
    <3> HIDE DEF groups, places, listed
    <3>2. Cardinality(places(a)) = 0
      BY <1>c, <3>1
    <3> QED BY <1>0, <2>1, <2>3, <3>2
  <2> QED BY <2>2, <2>3
<1> QED BY <1>2, <1>3

\* The usage names each Arg once, whatever the program adds and in which order.
THEOREM UsageIsComplete == Spec => []UsageNamesEachArg
BY UsageInit, UsageStep, NamedOnce, PTL DEF Spec
=============================================================================
