-------------------------------- MODULE Args --------------------------------
(* The Arg classes of the command line library (tclap) and the words of a    *)
(* command line.  A word is kept as far as an Arg looks into it:             *)
(*   text    does not start with a dash; "" is the empty word                *)
(*   short   a dash and letters, "-o"; a combination of switches, "-ab"      *)
(*   long    two dashes and a name, "--outputDir"; "--" has the name ""      *)
(* A short or long word may carry a value after a delimiter inside the same  *)
(* word ("-o dir", quoted).                                                  *)
EXTENDS Sequences, FiniteSets, Naturals

CONSTANTS
    ArgObjects,      \* the Args the program declares: a function of their names
    HelpAndVersion,  \* the parameter helpAndVersion of CmdLine's constructor
    Reads            \* of each type, the words operator>> reads one value from

-----------------------------------------------------------------------------
\* Words.

Blank   == "blank"     \* a letter of a combination that was taken: (char)7
NoValue == "no value"

Word ==      [form : {"text"}, text : STRING]
      \union [form : {"short"}, letters : Seq(STRING \union {Blank}),
              value : STRING \union {NoValue}]
      \union [form : {"long"}, name : STRING, value : STRING \union {NoValue}]

Text(t)              == [form |-> "text", text |-> t]
Short(letters)       == [form |-> "short", letters |-> letters, value |-> NoValue]
ShortWith(letter, v) == [form |-> "short", letters |-> <<letter>>, value |-> v]
Long(name)           == [form |-> "long", name |-> name, value |-> NoValue]
LongWith(name, v)    == [form |-> "long", name |-> name, value |-> v]

-----------------------------------------------------------------------------
\* The types of values.  One that is like a value is read with operator>>, one
\* that is like a string is assigned, blanks and all.
ValueLikeTypes ==
    {"long", "int", "short", "char", "long long", "unsigned long", "unsigned int",
     "unsigned short", "unsigned char", "unsigned long long", "float", "double",
     "bool", "wchar_t"}
ValueCategory(type) == IF type \in ValueLikeTypes THEN "ValueLike" ELSE "StringLike"

\* From the empty text nothing is read, and nothing is reported.
ReadsAssumption ==
    /\ Reads \in [ValueLikeTypes -> SUBSET Word]
    /\ \A type \in ValueLikeTypes : Text("") \in Reads[type]
ASSUME WordsAreRead == ReadsAssumption

\* Whether ExtractValue succeeds.
Extracts(type, w) == ValueCategory(type) = "ValueLike" => w \in Reads[type]

\* The pointer to a constraint, as the set of it or of none; a constraint is the
\* set of words that meet it.
NoConstraint == {}
ValuesConstraint(allowed) == {allowed}

-----------------------------------------------------------------------------
\* The classes of Args, by their constructors.

ArgKind == {"SwitchArg", "MultiSwitchArg", "ValueArg", "MultiArg",
            "UnlabeledValueArg", "UnlabeledMultiArg"}

\* What an Arg is constructed with.  visitor: what is called back when it is met.
ArgDeclaration ==
    [kind : ArgKind, flag : STRING, name : STRING, description : STRING,
     required : BOOLEAN, type : ValueLikeTypes \union {"string"},
     constraint : SUBSET SUBSET Word,
     visitor : {"none", "HelpVisitor", "VersionVisitor", "IgnoreRestVisitor"}]

Construct(kind, flag, name, description, required, type, constraint, visitor) ==
    [kind |-> kind, flag |-> flag, name |-> name, description |-> description,
     required |-> required, type |-> type, constraint |-> constraint, visitor |-> visitor]

\* A switch is never required, nor has it a value to convert.
SwitchArg(flag, name, description, visitor) ==
    Construct("SwitchArg", flag, name, description, FALSE, "bool", NoConstraint, visitor)
MultiSwitchArg(flag, name, description, visitor) ==
    Construct("MultiSwitchArg", flag, name, description, FALSE, "int", NoConstraint, visitor)
ValueArg(flag, name, description, required, type, constraint, visitor) ==
    Construct("ValueArg", flag, name, description, required, type, constraint, visitor)
MultiArg(flag, name, description, required, type, constraint, visitor) ==
    Construct("MultiArg", flag, name, description, required, type, constraint, visitor)
UnlabeledValueArg(name, description, required, type, constraint, visitor) ==
    Construct("UnlabeledValueArg", "", name, description, required, type, constraint, visitor)
UnlabeledMultiArg(name, description, required, type, constraint, visitor) ==
    Construct("UnlabeledMultiArg", "", name, description, required, type, constraint, visitor)

\* The Args every command line has: of help and version only with HelpAndVersion.
BuiltIn ==
    [help    |-> SwitchArg("h", "help", "Displays usage information and exits.", "HelpVisitor"),
     version |-> SwitchArg("", "version", "Displays version information and exits.",
                           "VersionVisitor"),
     ignore  |-> SwitchArg("-", "ignore_rest",
                           "Ignores the rest of the labeled arguments following this flag.",
                           "IgnoreRestVisitor")]

Arg == DOMAIN ArgObjects \union DOMAIN BuiltIn

\* What a was constructed with.
Declared(a) == IF a \in DOMAIN BuiltIn THEN BuiltIn[a] ELSE ArgObjects[a]

IsSwitch(a)    == Declared(a).kind \in {"SwitchArg", "MultiSwitchArg"}
IsUnlabeled(a) == Declared(a).kind \in {"UnlabeledValueArg", "UnlabeledMultiArg"}
IsMultiArg(a)  == Declared(a).kind \in {"MultiArg", "UnlabeledMultiArg"}

\* A flag of dashes or a blank is refused by Arg's constructor.
ArgObjectsAssumption ==
    /\ DOMAIN ArgObjects \subseteq STRING \ DOMAIN BuiltIn
    /\ \A a \in DOMAIN ArgObjects :
        /\ ArgObjects[a] \in ArgDeclaration /\ ArgObjects[a].flag \notin {"-", "--", " "}
        /\ IsSwitch(a) => ~ArgObjects[a].required
    /\ HelpAndVersion \in BOOLEAN
ASSUME ArgObjectsAreConstructed == ArgObjectsAssumption

-----------------------------------------------------------------------------
\* What the Args see in a word.

\* argMatches, after trimFlag has cut the value off.  The flag of "--" is a dash.
ArgMatches(a, w) ==
    \/ w.form = "short" /\ w.letters = <<Declared(a).flag>>
    \/ w.form = "long" /\ w.name = Declared(a).name
    \/ w.form = "long" /\ w.name = "" /\ Declared(a).flag = "-"

\* A value inside the word; the empty one after a trailing delimiter does not count.
HasInlineValue(w) == w.form # "text" /\ w.value \notin {NoValue, ""}

\* A switch compares the whole word, untrimmed.
WholeMatch(a, w) == ArgMatches(a, w) /\ w.value = NoValue

\* Seeded fault: a dash inside a combination is the flag of "--".
CombinedSwitchesMatchDash(a, w) ==
    /\ w.form = "short" /\ w.value = NoValue
    /\ \E j \in DOMAIN w.letters : w.letters[j] = Declared(a).flag

\* The letter of a switch is among those of the word; a dash among them is the
\* flag of no switch, not of "--" either.
CombinedSwitchesMatch(a, w) ==
    /\ w.form = "short" /\ w.value = NoValue
    /\ Declared(a).flag # "-"
    /\ \E j \in DOMAIN w.letters : w.letters[j] = Declared(a).flag

\* combinedSwitchesMatch writes a blank over the letter it found.
TakeLetter(a, w) ==
    LET first == CHOOSE j \in DOMAIN w.letters :
                    /\ w.letters[j] = Declared(a).flag
                    /\ \A i \in 1..(j - 1) : w.letters[i] # Declared(a).flag
    IN  [w EXCEPT !.letters[first] = Blank]

\* The loop of MultiSwitchArg takes every occurrence.
Occurrences(a, w) == {j \in DOMAIN w.letters : w.letters[j] = Declared(a).flag}
TakeAllLetters(a, w) ==
    [w EXCEPT !.letters = [j \in DOMAIN @ |-> IF j \in Occurrences(a, w) THEN Blank ELSE @[j]]]

HasBlanks(w) == w.form = "short" /\ \E j \in DOMAIN w.letters : w.letters[j] = Blank

LastCombined(w) == \A j \in DOMAIN w.letters : w.letters[j] = Blank

\* _emptyCombined: nothing is left of the word.  The empty word, and a lone dash,
\* count as well.
EmptyCombined(w) ==
    \/ w = Text("")
    \/ w.form = "short" /\ w.value = NoValue /\ LastCombined(w)

\* Whether _extractValue throws: the word does not convert, or does not meet the
\* constraint.
Refuses(a, w) ==
    \/ ~Extracts(Declared(a).type, w)
    \/ \E allowed \in Declared(a).constraint : w \notin allowed

\* operator==, when a is added and b is there.  Of an unlabeled Arg description is
\* compared with what getDescription makes of it, which puts a label in front of
\* a required Arg's.
EqualLabeled(a, b) ==
    \/ Declared(a).name = Declared(b).name
    \/ Declared(a).flag # "" /\ Declared(a).flag = Declared(b).flag
EqualUnlabeled(a, b, required) ==
    \/ Declared(a).name = Declared(b).name
    \/ b \notin required /\ Declared(a).description = Declared(b).description
SameArg(a, b, required) ==
    IF IsUnlabeled(a) THEN EqualUnlabeled(a, b, required) ELSE EqualLabeled(a, b)
=============================================================================
