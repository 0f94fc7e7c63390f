--------------------------- MODULE MCCommandLine ---------------------------
(* Command lines for TLC: the Args main() of the transpiler declares, and    *)
(* Args of every other class the library has.                                *)
EXTENDS CommandLineProperties, TLC

SequencesUpTo(n, S) == UNION {[1..m -> S] : m \in 0..n}

\* main(): the source file, and where to put the output.
TranspilerArgs ==
    [sourceFiles     |-> UnlabeledValueArg("source_files",
                                           "IFCPL Source files that should be compiled.",
                                           TRUE, "string", NoConstraint, "none"),
     outputDirectory |-> ValueArg("o", "outputDir", "The output directory.",
                                  FALSE, "string", NoConstraint, "none")]

TranspilerSetups ==
    {<<[op |-> "add", args |-> <<"sourceFiles">>],
       [op |-> "add", args |-> <<"outputDirectory">>]>>}

\* One Arg of every class; n reads a number, m has two values to choose from.
LibraryArgs ==
    [a    |-> SwitchArg("a", "aa", "first", "none"),
     b    |-> SwitchArg("b", "bb", "second", "none"),
     s    |-> SwitchArg("s", "stop", "what follows is not for us", "IgnoreRestVisitor"),
     v    |-> MultiSwitchArg("v", "verbose", "verbosity", "none"),
     n    |-> ValueArg("n", "number", "number", TRUE, "int", NoConstraint, "none"),
     m    |-> MultiArg("m", "many", "choices", TRUE, "string",
                       ValuesConstraint({Text("f"), Text("1")}), "none"),
     file |-> UnlabeledValueArg("file", "a file", FALSE, "string", NoConstraint, "none"),
     rest |-> UnlabeledMultiArg("rest", "more files", TRUE, "string", NoConstraint, "none"),
     bad  |-> ValueArg("a", "other", "third", FALSE, "string", NoConstraint, "none")]

AllReads == [type \in ValueLikeTypes |-> {Text(""), Text("1")}]

AddEach(args) == [j \in DOMAIN args |-> [op |-> "add", args |-> <<args[j]>>]]
XorAdd(args) == <<[op |-> "xorAdd", args |-> args]>>

LibrarySetups ==
    {AddEach(<<"a", "v", "n", "rest">>),
     AddEach(<<"s", "m", "file">>),
     XorAdd(<<"a", "m">>) \o XorAdd(<<"n", "b">>) \o AddEach(<<"v">>),
     AddEach(<<"a", "bad">>),
     AddEach(<<"a">>) \o XorAdd(<<"n", "a">>),
     XorAdd(<<"n", "a">>) \o XorAdd(<<"a", "m">>),
     AddEach(<<"file", "rest">>)}

AllArgs   == TranspilerArgs @@ LibraryArgs
AllSetups == TranspilerSetups \union LibrarySetups

\* "o" is the flag of outputDirectory alone, "h" that of --help, "x" of no Arg; a
\* dash inside a word is a letter of its own.
MostWords == {Text("f"), Short(<<"a">>), Short(<<"b", "a">>), Short(<<"v", "a", "v">>),
              Short(<<"n">>), ShortWith("n", "1"), LongWith("many", "f"), Long("")}
AllWords  == MostWords \union {Short(<<"o">>), Short(<<"x", "h">>), Short(<<"b", "-", "x">>),
                              Short(<<"s", "x">>)}
AllCommandLines ==
    SequencesUpTo(3, MostWords) \union SequencesUpTo(2, AllWords) \union
    {<<Short(<<"o">>), Text("f"), Text("f")>>, <<Text("f"), Short(<<"o">>), Text("f")>>}
=============================================================================
