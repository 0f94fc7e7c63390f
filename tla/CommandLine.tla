---------------------------- MODULE CommandLine ----------------------------
(* buw::CmdLine (tclap/CmdLine.h): Args are added, then a command line is    *)
(* parsed word by word, each word offered to the Args in list order until    *)
(* one takes it.  A word that is a combination of switches is offered on,    *)
(* with the letters that were taken blanked out.                             *)
EXTENDS Args

CONSTANTS
    Setups,         \* what the program may construct: sequences of calls
    CommandLines,   \* the sequences of words it may be started with
    MaxParses       \* bound: parses of one CmdLine object, with reset() between

\* A call adds one Arg or more; the words are those of Args.
Call == [op : {"add", "xorAdd"}, args : Seq(Arg) \ {<<>>}]
SetupsAssumption == \A s \in Setups : s \in Seq(Call)
CommandLinesAssumption == CommandLines \subseteq Seq(Word)
ASSUME SetupsAreCalls == SetupsAssumption
ASSUME LinesAreWords == CommandLinesAssumption
ASSUME MaxParsesIsPositive == MaxParses \in Nat \ {0}

VARIABLES
    calls,               \* calls of add and xorAdd still to be made
    pending,             \* Args the current xorAdd has still to add
    argList,             \* _argList: labeled Args in front, the latest first
    required,            \* the Args whose _required is set
    numRequired,         \* _numRequired
    xorList,             \* _orList of the XorHandler, as sets
    alreadyOptional,     \* static flag of OptionalUnlabeledTracker
    alreadySet, xorSet,  \* the Args whose _alreadySet, _xorSet is true
    allowMore,           \* the MultiArgs whose _allowMore is true
    count,               \* how often a switch was met
    values,              \* the values an Arg was given
    ignoreRest,          \* static flag of Arg
    words, i, k,         \* args, the word and the Arg of the nested loops of parse
    requiredCount,       \* local of parse
    uses,                \* history: which Arg took which word, and as what
    status, parses

setupVars == <<calls, pending, argList, required, numRequired, xorList, alreadyOptional>>
argVars   == <<alreadySet, xorSet, allowMore, count, values, ignoreRest>>
loopVars  == <<words, i, k, requiredCount, uses>>
vars      == <<setupVars, argVars, loopVars, status, parses>>

Status == {"ready", "parsing", "parsed", "exit 0", "exit 1", "specification error"}

\* CmdLine::_constructor.
Init ==
    /\ calls \in Setups
    /\ pending = <<>>
    /\ argList = IF HelpAndVersion THEN <<"ignore", "version", "help">> ELSE <<"ignore">>
    /\ required = {}
    /\ numRequired = 0
    /\ xorList = {}
    /\ alreadyOptional = FALSE
    /\ alreadySet = {} /\ xorSet = {} /\ allowMore = {}
    /\ count = [a \in Arg |-> 0]
    /\ values = [a \in Arg |-> <<>>]
    /\ ignoreRest = FALSE
    /\ words = <<>> /\ i = 1 /\ k = 1
    /\ requiredCount = 0
    /\ uses = {}
    /\ status = "ready"
    /\ parses = 0

-----------------------------------------------------------------------------
\* Setting up.  A mistake of the program is an exception.

\* Any unlabeled Arg behind an optional one is refused.
AfterOptional(a) == IsUnlabeled(a) /\ alreadyOptional
BecomesOptional(a) == Declared(a).kind = "UnlabeledValueArg" /\ ~Declared(a).required

\* Labeled Args go to the front of the list, unlabeled ones to its end.
AddedToList(a) == IF IsUnlabeled(a) THEN Append(argList, a) ELSE <<a>> \o argList

Listed(a) == \E j \in DOMAIN argList : SameArg(a, argList[j], required)

\* The constructor of a (OptionalUnlabeledTracker::check) and CmdLine::add.
Add(a, isRequired) ==
    IF Listed(a) \/ AfterOptional(a)
    THEN /\ status' = "specification error"
         /\ UNCHANGED <<argList, required, numRequired, alreadyOptional>>
    ELSE /\ argList' = AddedToList(a)
         /\ required' = IF isRequired THEN required \union {a} ELSE required
         /\ numRequired' = numRequired + (IF isRequired THEN 1 ELSE 0)
         /\ alreadyOptional' = (alreadyOptional \/ BecomesOptional(a))
         /\ UNCHANGED status

add ==
    /\ status = "ready" /\ pending = <<>> /\ calls # <<>> /\ Head(calls).op = "add"
    /\ Add(Head(calls).args[1], Declared(Head(calls).args[1]).required)
    /\ calls' = Tail(calls)
    /\ UNCHANGED <<pending, xorList, argVars, loopVars, parses>>

xorAdd ==
    /\ status = "ready" /\ pending = <<>> /\ calls # <<>> /\ Head(calls).op = "xorAdd"
    /\ xorList' = xorList \union {{Head(calls).args[j] : j \in DOMAIN Head(calls).args}}
    /\ pending' = Head(calls).args
    /\ calls' = Tail(calls)
    /\ UNCHANGED <<argList, required, numRequired, alreadyOptional, argVars, loopVars,
                   status, parses>>

\* forceRequired and add, for the next Arg of the xorAdd.
xorAddNext ==
    /\ status = "ready" /\ pending # <<>>
    /\ Add(Head(pending), TRUE)
    /\ pending' = Tail(pending)
    /\ UNCHANGED <<calls, xorList, argVars, loopVars, parses>>

-----------------------------------------------------------------------------
\* Parsing.

parse ==
    /\ status = "ready" /\ calls = <<>> /\ pending = <<>>
    /\ status' = "parsing"
    /\ words' \in CommandLines
    /\ i' = 1 /\ k' = 1
    /\ requiredCount' = 0
    /\ uses' = {}
    /\ parses' = parses + 1
    /\ UNCHANGED <<setupVars, argVars>>

Trying == status = "parsing" /\ i <= Len(words) /\ k <= Len(argList)
A == argList[k]   \* the Arg whose processArg is called
W == words[i]     \* the word it is called with

\* An ArgException: parse prints it, and exits with status 1.
Throw ==
    /\ status' = "exit 1"
    /\ UNCHANGED <<setupVars, argVars, loopVars, parses>>

XorGroup(a) == UNION {g \in xorList : a \in g}

\* _checkWithVisitor: --help and --version end the process.  Unlabeled Args never
\* call their visitor.
ExitsBy(a) == ~IsUnlabeled(a) /\ Declared(a).visitor \in {"HelpVisitor", "VersionVisitor"}

\* XorHandler::check finds another Arg of the group set by the user; it is not
\* reached when the visitor of a exits.
MutuallyExclusive(a) ==
    ~ExitsBy(a) /\ \E b \in XorGroup(a) \ {a} : b \in alreadySet \ xorSet

\* Seeded fault: a MultiArg is counted each time it is met.
RequiredWeightEachTime(a) ==
    IF XorGroup(a) # {} THEN Cardinality(XorGroup(a))
    ELSE IF a \in required THEN 1 ELSE 0

\* A MultiArg allows more from the second time it is asked, and is no longer
\* required once it has two values; the value met now it has already.
AllowsMore(a)    == IsMultiArg(a) /\ a \in allowMore
StillRequired(a) == a \in required /\ (IsMultiArg(a) => values[a] = <<>>)

\* What XorHandler::check adds to requiredCount.
RequiredWeight(a) ==
    IF XorGroup(a) # {}
    THEN IF AllowsMore(a) THEN 0 ELSE Cardinality(XorGroup(a))
    ELSE IF StillRequired(a) THEN 1 ELSE 0

\* Seeded fault: the Arg is not marked as set.
MatchedUnmarked(a, next) ==
    /\ ~MutuallyExclusive(a)
    /\ alreadySet' = alreadySet \union (XorGroup(a) \ {a})
    /\ xorSet' = xorSet \union (XorGroup(a) \ {a})
    /\ allowMore' = IF XorGroup(a) # {} /\ IsMultiArg(a) THEN allowMore \union {a} ELSE allowMore
    /\ requiredCount' = requiredCount + RequiredWeight(a)
    /\ i' = next /\ k' = 1

\* processArg returned true: XorHandler::check, and on to the next word.
Matched(a, next) ==
    /\ ~MutuallyExclusive(a)
    /\ alreadySet' = alreadySet \union {a} \union XorGroup(a)
    /\ xorSet' = xorSet \union (XorGroup(a) \ {a})
    /\ allowMore' = IF XorGroup(a) # {} /\ IsMultiArg(a) THEN allowMore \union {a} ELSE allowMore
    /\ requiredCount' = requiredCount + RequiredWeight(a)
    /\ i' = next /\ k' = 1

\* processArg returned false after it took letters of a combination.
OfferedOn(a) ==
    /\ alreadySet' = alreadySet \union {a}
    /\ k' = k + 1
    /\ UNCHANGED <<xorSet, allowMore, requiredCount, i>>

BeginsIgnoring(a) == Declared(a).visitor = "IgnoreRestVisitor"
Visit(a) ==
    /\ status' = IF ExitsBy(a) THEN "exit 0" ELSE status
    /\ ignoreRest' = (ignoreRest \/ BeginsIgnoring(a))

Uses(a, flags, taken) ==
    uses' = uses \union {[word |-> j, by |-> a, as |-> "flag"] : j \in flags}
                 \union {[word |-> j, by |-> a, as |-> "value"] : j \in taken}

\* A switch does not care for anything but its own flag: single or combined.
Ignores(a, w) ==
    CASE Declared(a).kind = "UnlabeledValueArg" -> a \in alreadySet \/ HasBlanks(w)
      [] Declared(a).kind = "UnlabeledMultiArg" -> HasBlanks(w)
      [] IsSwitch(a) -> ignoreRest \/ (~WholeMatch(a, w) /\ ~CombinedSwitchesMatch(a, w))
      [] OTHER -> ignoreRest \/ HasBlanks(w) \/ ~ArgMatches(a, w)

\* processArg returned false and left everything as it was.
PassOn ==
    /\ Trying /\ Ignores(A, W)
    /\ k' = k + 1
    /\ UNCHANGED <<setupVars, argVars, words, i, requiredCount, uses, status, parses>>

\* SwitchArg and MultiSwitchArg, when the whole word is the flag or the name.
TakeSwitch ==
    /\ Trying /\ IsSwitch(A) /\ ~ignoreRest /\ WholeMatch(A, W)
    /\ \/ Declared(A).kind = "SwitchArg" /\ A \in alreadySet /\ Throw
       \/ MutuallyExclusive(A) /\ Throw
       \/ /\ Declared(A).kind = "SwitchArg" => A \notin alreadySet
          /\ count' = [count EXCEPT ![A] = @ + 1]
          /\ Visit(A)
          /\ Matched(A, i + 1)
          /\ Uses(A, {i}, {})
          /\ UNCHANGED <<setupVars, values, words, parses>>

\* SwitchArg inside a combination.  A letter given twice is refused, and only
\* the switch that takes the last letter reports a match.
CombineSwitch ==
    /\ Trying /\ Declared(A).kind = "SwitchArg" /\ ~ignoreRest
    /\ ~WholeMatch(A, W) /\ CombinedSwitchesMatch(A, W)
    /\ LET rest == TakeLetter(A, W) IN
       \/ (CombinedSwitchesMatch(A, rest) \/ A \in alreadySet) /\ Throw
       \/ LastCombined(rest) /\ MutuallyExclusive(A) /\ Throw
       \/ /\ ~CombinedSwitchesMatch(A, rest) /\ A \notin alreadySet
          /\ words' = [words EXCEPT ![i] = rest]
          /\ count' = [count EXCEPT ![A] = @ + 1]
          /\ Visit(A)
          /\ IF LastCombined(rest) THEN Matched(A, i + 1) ELSE OfferedOn(A)
          /\ Uses(A, {i}, {})
          /\ UNCHANGED <<setupVars, values, parses>>

\* MultiSwitchArg inside a combination: it never reports a match.
CombineMultiSwitch ==
    /\ Trying /\ Declared(A).kind = "MultiSwitchArg" /\ ~ignoreRest
    /\ ~WholeMatch(A, W) /\ CombinedSwitchesMatch(A, W)
    /\ words' = [words EXCEPT ![i] = TakeAllLetters(A, W)]
    /\ count' = [count EXCEPT ![A] = @ + Cardinality(Occurrences(A, W))]
    /\ Visit(A)
    /\ OfferedOn(A)
    /\ Uses(A, {i}, {})
    /\ UNCHANGED <<setupVars, values, parses>>

\* The value is what follows in the word or, whatever it looks like, the next word.
GiveValue(a) ==
    LET inline == HasInlineValue(W)
        value  == IF inline THEN Text(W.value) ELSE words[i + 1]
        next   == IF inline THEN i + 1 ELSE i + 2
    IN
    \/ ~inline /\ i = Len(words) /\ Throw
    \/ (inline \/ i < Len(words)) /\ (Refuses(a, value) \/ MutuallyExclusive(a)) /\ Throw
    \/ /\ inline \/ i < Len(words)
       /\ ~Refuses(a, value)
       /\ values' = [values EXCEPT ![a] = Append(@, value)]
       /\ Visit(a)
       /\ Matched(a, next)
       /\ Uses(a, {i}, (i + 1)..(next - 1))
       /\ UNCHANGED <<setupVars, count, words, parses>>

\* ValueArg::processArg; a second value is refused.
TakeValue ==
    /\ Trying /\ Declared(A).kind = "ValueArg" /\ ~Ignores(A, W)
    /\ \/ A \in alreadySet /\ Throw
       \/ A \notin alreadySet /\ GiveValue(A)

\* MultiArg::processArg; values are collected.
TakeFurtherValue ==
    /\ Trying /\ Declared(A).kind = "MultiArg" /\ ~Ignores(A, W)
    /\ GiveValue(A)

\* Unlabeled Args take what nobody before them took, flags as well, and even
\* after "--".
GiveWord(a) ==
    \/ (Refuses(a, W) \/ MutuallyExclusive(a)) /\ Throw
    \/ /\ ~Refuses(a, W)
       /\ values' = [values EXCEPT ![a] = Append(@, W)]
       /\ Matched(a, i + 1)
       /\ Uses(a, {}, {i})
       /\ UNCHANGED <<setupVars, count, ignoreRest, words, status, parses>>

\* UnlabeledValueArg::processArg, once, and UnlabeledMultiArg::processArg.
TakeUnlabeled ==
    Trying /\ Declared(A).kind = "UnlabeledValueArg" /\ ~Ignores(A, W) /\ GiveWord(A)
TakeFurtherUnlabeled ==
    Trying /\ Declared(A).kind = "UnlabeledMultiArg" /\ ~Ignores(A, W) /\ GiveWord(A)

\* Seeded fault: what nobody takes is skipped.
UnmatchedSkips ==
    /\ status = "parsing" /\ i <= Len(words) /\ k > Len(argList)
    /\ i' = i + 1 /\ k' = 1
    /\ UNCHANGED <<setupVars, argVars, words, requiredCount, uses, status, parses>>

\* Seeded fault: the word is offered again.
UnmatchedAgain ==
    /\ status = "parsing" /\ i <= Len(words) /\ k > Len(argList)
    /\ \/ ~(EmptyCombined(W) \/ ignoreRest) /\ Throw
       \/ /\ EmptyCombined(W) \/ ignoreRest
          /\ k' = 1
          /\ UNCHANGED <<setupVars, argVars, words, i, requiredCount, uses, status, parses>>

\* Every Arg passed the word on.
Unmatched ==
    /\ status = "parsing" /\ i <= Len(words) /\ k > Len(argList)
    /\ \/ ~(EmptyCombined(W) \/ ignoreRest) /\ Throw
       \/ /\ EmptyCombined(W) \/ ignoreRest
          /\ i' = i + 1 /\ k' = 1
          /\ UNCHANGED <<setupVars, argVars, words, requiredCount, uses, status, parses>>

\* Seeded fault: only too many arguments are refused.
FinishParseLenient ==
    /\ status = "parsing" /\ i > Len(words)
    /\ status' = IF requiredCount <= numRequired THEN "parsed" ELSE "exit 1"
    /\ UNCHANGED <<setupVars, argVars, loopVars, parses>>

\* The two counts must agree: fewer is a missing argument, more is too many.
FinishParse ==
    /\ status = "parsing" /\ i > Len(words)
    /\ status' = IF requiredCount = numRequired THEN "parsed" ELSE "exit 1"
    /\ UNCHANGED <<setupVars, argVars, loopVars, parses>>

-----------------------------------------------------------------------------
\* What the user is told.

IsSet(a) == a \in alreadySet \ xorSet

\* Seeded fault: the Args of groups are not left out.
RestWithGroups == DOMAIN argList

\* Both usages of StdOutput name the Args of each group, then those of the list
\* that are in no group: their places.
Rest == {j \in DOMAIN argList : XorGroup(argList[j]) = {}}
TimesInUsage(a) == Cardinality({g \in xorList : a \in g}) + Cardinality({j \in Rest : argList[j] = a})

-----------------------------------------------------------------------------
\* Seeded fault: the values stay.
resetKeepsValues ==
    /\ status = "parsed" /\ parses < MaxParses
    /\ status' = "ready"
    /\ alreadySet' = {} /\ xorSet' = {}
    /\ count' = [a \in Arg |-> 0]
    /\ UNCHANGED <<setupVars, allowMore, values, ignoreRest, loopVars, parses>>

\* MultiSwitchArg::reset resets the count alone.
KeepsFlags(a) == Declared(a).kind = "MultiSwitchArg"

\* CmdLine::reset resets the Args.  The static ignoreRest and the _allowMore of a
\* MultiArg stay as they are.
reset ==
    /\ status = "parsed" /\ parses < MaxParses
    /\ status' = "ready"
    /\ alreadySet' = {a \in alreadySet : KeepsFlags(a)}
    /\ xorSet' = {a \in xorSet : KeepsFlags(a)}
    /\ count' = [a \in Arg |-> 0]
    /\ values' = [a \in Arg |-> <<>>]
    /\ UNCHANGED <<setupVars, allowMore, ignoreRest, loopVars, parses>>

Next ==
    \/ add \/ xorAdd \/ xorAddNext
    \/ parse
    \/ PassOn \/ TakeSwitch \/ CombineSwitch \/ CombineMultiSwitch
    \/ TakeValue \/ TakeFurtherValue \/ TakeUnlabeled \/ TakeFurtherUnlabeled
    \/ Unmatched \/ FinishParse
    \/ reset

\* parse() is a loop that waits for nothing.
Spec == Init /\ [][Next]_vars /\ WF_vars(Next)
=============================================================================
