----------------------- MODULE CommandLineProperties -----------------------
(* What a parse of the command line promises to the program that reads the   *)
(* Args afterwards.                                                          *)
EXTENDS CommandLine

\* Types, and the links between them: a value belongs to an Arg that is set, and
\* what xorAdd marks as set belongs to a group.
TypeOK ==
    /\ argList \in Seq(Arg) /\ required \subseteq Arg /\ numRequired \in Nat
    /\ xorList \subseteq SUBSET Arg
    /\ alreadyOptional \in BOOLEAN /\ ignoreRest \in BOOLEAN
    /\ alreadySet \subseteq Arg /\ xorSet \subseteq alreadySet \intersect UNION xorList
    /\ allowMore \subseteq UNION xorList
    /\ count \in [Arg -> Nat]
    /\ \A a \in Arg : values[a] # <<>> => a \in alreadySet
    /\ i \in 1..(Len(words) + 1) /\ k \in 1..(Len(argList) + 1)
    /\ requiredCount \in Nat
    /\ uses \subseteq [word : 1..Len(words), by : Arg, as : {"flag", "value"}]
    /\ status \in Status /\ parses \in 0..MaxParses

\* A MultiSwitchArg in a group is counted each time it is met alone, and keeps its
\* marks over a reset: two of it make up for another group.
GroupsCountOnce == \A g \in xorList : \A a \in g : Declared(a).kind # "MultiSwitchArg"

\* When parse returns, every required Arg was given, and of every group added by
\* xorAdd exactly one Arg: all parse compares (CmdLine.h:479-483) are two sums.
AcceptedIsComplete ==
    status = "parsed" /\ GroupsCountOnce =>
        /\ \A a \in required \ UNION xorList : IsSet(a)
        /\ \A g \in xorList : Cardinality({a \in g : IsSet(a)}) = 1

UsesOf(j) == {u \in uses : u.word = j}

IgnoresRest(u) == Declared(u.by).visitor = "IgnoreRestVisitor"

\* When the first parse returns, every word has been understood once: it is the
\* value of one Arg and nothing else, or a flag, or switches combined, taken to
\* the last letter, or empty, or came after "--".  A switch the program declares
\* with the IgnoreRestVisitor of "--" ends the reading inside a combination as
\* well: the letters behind it are passed over.
WordsAccountedFor ==
    status = "parsed" /\ parses = 1 =>
        \A j \in 1..Len(words) :
            \/ \E a \in Arg : UsesOf(j) = {[word |-> j, by |-> a, as |-> "value"]}
            \/ \E a \in Arg : UsesOf(j) = {[word |-> j, by |-> a, as |-> "flag"]}
                              /\ ArgMatches(a, words[j])
            \/ /\ UsesOf(j) # {} /\ \A u \in UsesOf(j) : u.as = "flag" /\ IsSwitch(u.by)
               /\ \/ LastCombined(words[j])
                  \/ \E u \in UsesOf(j) : IgnoresRest(u) /\ u.by \in DOMAIN ArgObjects
            \/ /\ UsesOf(j) = {}
               /\ EmptyCombined(words[j]) \/ \E u \in uses : u.word < j /\ IgnoresRest(u)

\* An Arg that takes one value, or a plain switch, is never met at two words:
\* the second is refused, whether it stands alone, in a combination, or after
\* another Arg of its group.
MetOnce ==
    \A u, v \in uses :
        /\ u.by = v.by /\ u.as = v.as
        /\ Declared(u.by).kind \in {"SwitchArg", "ValueArg", "UnlabeledValueArg"}
        => u = v

\* An Arg was met by itself, not as a letter of a combination.
Alone(u) == u.as = "value" \/ ArgMatches(u.by, words[u.word])

\* A required MultiArg counts once, however often it is given; so a command line
\* that gives every required Arg is not refused at its end (a group counts
\* when its Arg is met outside a combination).
CompleteIsAccepted ==
    /\ status = "parsing" /\ parses = 1 /\ i > Len(words) /\ GroupsCountOnce
    /\ \A a \in required \ UNION xorList : IsSet(a)
    /\ \A g \in xorList : \E u \in uses : u.by \in g /\ Alone(u)
    => requiredCount = numRequired

\* The usage that --help and every refusal print (StdOutput.h:117-153) names each
\* Arg of the command line once, and no other, whichever of add and xorAdd it
\* came through and in which order.
UsageNamesEachArg ==
    status \in {"parsing", "exit 0", "exit 1"} =>
        \A a \in Arg : TimesInUsage(a) = IF \E j \in DOMAIN argList : argList[j] = a THEN 1 ELSE 0

\* parse comes to an end: it returns, or the process exits.
ParseEnds == status = "parsing" ~> status # "parsing"
=============================================================================
