----------------------------- MODULE Transpiler -----------------------------
(* main() of the transpiler (main.cpp): the command line, the parse, the two *)
(* walks of CppTransform, and the files it leaves behind.                    *)
(*                                                                           *)
(* Pass 1 walks the tree for standard output only; it is run for what it     *)
(* collects.  Pass 2 is seeded with the classes and enums of pass 1 and      *)
(* writes <module>.cpp and CMakeLists.txt.                                   *)
EXTENDS CppTransform

VARIABLES
    cppFile,     \* the .cpp file: where it is and whether it is on the disk
    cmakeLists,  \* CMakeLists.txt
    exitStatus   \* what the process returned

files == <<cppFile, cmakeLists, exitStatus>>
vars  == <<transformVars, files>>

\* A file that was never opened, and one that open() could not create: the
\* stream is not checked, and what is written to it is lost.
NoFile == [name |-> "", state |-> "unopened"]
CppFile == [name : Name, state : {"unopened", "lost", "open", "closed"}]

NoCMakeLists == [state |-> "unopened"]
LostCMakeLists == [state |-> "lost"]
CMakeLists ==
    {NoCMakeLists, LostCMakeLists} \union
    [state : {"written"}, project : Name, target : {"executable", "library"},
     source : Name, math : BOOLEAN, schema : Name]

Terminal == {"exited", "aborted"}

Init ==
    /\ phase = "start"
    /\ program \in Programs
    /\ sourceDirectory \in BOOLEAN
    /\ assertions \in BOOLEAN
    /\ next = 1
    /\ out = <<>>
    /\ moduleName = "main"
    /\ classNames = <<>>
    /\ enumNames = <<>>
    /\ baseClasses = <<>>
    /\ symbolTable = {}
    /\ deferredOutput = <<>>
    /\ bFoundMainFunction = FALSE
    /\ bUseIfcPLMath = FALSE
    /\ bIArbitraryTransitionCurveImport = FALSE
    /\ g_schemaName = ""
    /\ oipExpressRuns = <<>> /\ generated = {}
    /\ cppFile = NoFile
    /\ cmakeLists = NoCMakeLists
    /\ exitStatus = "running"

\* cmd.parse exits by itself, with 1 on a bad command line and with 0 after
\* --help or --version; a source file that cannot be opened ends in exit(0); a
\* syntax error in exit(-1).
Refuse(status) ==
    /\ phase = "start"
    /\ phase' = "exited"
    /\ exitStatus' = status
    /\ UNCHANGED <<input, next, out, moduleName, tables, flags, globals,
                   cppFile, cmakeLists>>

RefuseCommandLine == Refuse("failure") \/ Refuse("success")
RefuseSourceFile == Refuse("success")
yyerror == Refuse("failure")

\* A character literal with an escape other than \0 and \1 fails an assertion of
\* the parser.
RefuseCharLiteral ==
    /\ phase = "start" /\ assertions
    /\ phase' = "aborted"
    /\ UNCHANGED <<input, next, out, moduleName, tables, flags, globals, files>>

\* yyparse delivered the tree, and CppTransform(std::cout) starts its walk.
StartPass1 ==
    /\ phase = "start"
    /\ phase' = "pass1"
    /\ Construct(<<>>, <<>>)
    /\ UNCHANGED <<input, globals, files>>

\* Seeded fault: the walk steps past the last node.
EndPass1Overrun ==
    /\ phase = "pass1"
    /\ next > Len(program)
    /\ phase' = "pass1 done"
    /\ writeEpilog
    /\ next' = next + 1
    /\ UNCHANGED <<input, moduleName, tables, flags, globals, files>>

EndPass1 ==
    /\ phase = "pass1"
    /\ next > Len(program)
    /\ phase' = "pass1 done"
    /\ writeEpilog
    /\ UNCHANGED <<input, next, moduleName, tables, flags, globals, files>>

\* Seeded fault: setClassNames is not called.
StartPass2NoClasses ==
    /\ phase = "pass1 done"
    /\ phase' = "pass2"
    /\ \E state \in {"open", "lost"} :
          cppFile' = [name |-> moduleName, state |-> state]
    /\ Construct(<<>>, enumNames)
    /\ UNCHANGED <<input, globals, cmakeLists, exitStatus>>

\* Seeded fault: setEnumNames is not called.
StartPass2NoEnums ==
    /\ phase = "pass1 done"
    /\ phase' = "pass2"
    /\ \E state \in {"open", "lost"} :
          cppFile' = [name |-> moduleName, state |-> state]
    /\ Construct(classNames, <<>>)
    /\ UNCHANGED <<input, globals, cmakeLists, exitStatus>>

\* Seeded fault: the file is named from pass 2, which has found no module yet.
StartPass2OwnName ==
    /\ phase = "pass1 done"
    /\ phase' = "pass2"
    /\ \E state \in {"open", "lost"} :
          cppFile' = [name |-> "main", state |-> state]
    /\ Construct(classNames, enumNames)
    /\ UNCHANGED <<input, globals, cmakeLists, exitStatus>>

\* The file is named after the module pass 1 found; a second, otherwise fresh
\* CppTransform is seeded with the names pass 1 collected.
StartPass2 ==
    /\ phase = "pass1 done"
    /\ phase' = "pass2"
    /\ \E state \in {"open", "lost"} :
          cppFile' = [name |-> moduleName, state |-> state]
    /\ Construct(classNames, enumNames)
    /\ UNCHANGED <<input, globals, cmakeLists, exitStatus>>

EndPass2 ==
    /\ phase = "pass2"
    /\ next > Len(program)
    /\ phase' = "pass2 done"
    /\ writeEpilog
    /\ UNCHANGED <<input, next, moduleName, tables, flags, globals, files>>

\* Seeded fault: libraries get no CMakeLists.txt.
generateCMakeListsFileForMain ==
    /\ phase = "pass2 done"
    /\ phase' = "exited"
    /\ exitStatus' = "success"
    /\ cmakeLists' \in
          IF ~bFoundMainFunction THEN {NoCMakeLists}
          ELSE {LostCMakeLists,
                [state |-> "written", project |-> moduleName, target |-> "executable",
                 source |-> moduleName, math |-> bUseIfcPLMath, schema |-> g_schemaName]}
    /\ cppFile' = [cppFile EXCEPT !.state = IF @ = "open" THEN "closed" ELSE @]
    /\ UNCHANGED <<input, next, out, moduleName, tables, flags, globals>>

\* CMakeLists.txt takes everything but the schema from pass 2.  It is opened as
\* carelessly as the .cpp file, which is closed when main() leaves the block.
generateCMakeListsFile ==
    /\ phase = "pass2 done"
    /\ phase' = "exited"
    /\ exitStatus' = "success"
    /\ cmakeLists' \in
          {LostCMakeLists,
           [state |-> "written", project |-> moduleName,
            target |-> IF bFoundMainFunction THEN "executable" ELSE "library",
            source |-> moduleName, math |-> bUseIfcPLMath, schema |-> g_schemaName]}
    /\ cppFile' = [cppFile EXCEPT !.state = IF @ = "open" THEN "closed" ELSE @]
    /\ UNCHANGED <<input, next, out, moduleName, tables, flags, globals>>

\* catch (std::exception&): an open file is closed by the unwinding, the message
\* is printed and main returns 0.
ReportException ==
    /\ phase = "caught"
    /\ phase' = "exited"
    /\ exitStatus' = "success"
    /\ cppFile' = [cppFile EXCEPT !.state = IF @ = "open" THEN "closed" ELSE @]
    /\ UNCHANGED <<input, next, out, moduleName, tables, flags, globals, cmakeLists>>

Next ==
    \/ RefuseCommandLine \/ RefuseSourceFile \/ yyerror \/ RefuseCharLiteral
    \/ StartPass1 \/ EndPass1
    \/ StartPass2 \/ EndPass2
    \/ (Visit \/ Fail) /\ UNCHANGED files
    \/ generateCMakeListsFile
    \/ ReportException

\* One thread with nothing to wait for: while a step is possible one is taken.
Spec == Init /\ [][Next]_vars /\ WF_vars(Next)
=============================================================================
