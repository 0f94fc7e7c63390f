# Verification of the IfcPL transpiler

IfcPL is a small object-oriented language for the description of building
models.  The transpiler of this repository reads one IfcPL source file and
leaves a C++ file and a `CMakeLists.txt` behind, which are compiled together
with a small runtime ("framework").  This directory holds TLA+ models of the
transpiler, from the command line to the C++ text, the TLC instances that check
them, and proofs that TLAPS checks.  Source paths below are relative to `src/`;
`IfcPL/` stands for `Transpiler/src/OpenInfraPlatform/IfcPL/`, `tclap/` for
`Transpiler/src/tclap/`.

## Inventory

| Part | Source | State it keeps | Operations |
|---|---|---|---|
| main driver | `IfcPL/main.cpp` `main`, `yyerror` | `g_SourceDirectory`, `g_OutputDirectory`, `g_schemaName`, the files | command line, parse, pass 1, pass 2, `generateCMakeListsFile`, exception handler |
| CppTransform | `IfcPL/main.cpp` | `classNames_`, `enumNames_`, `baseClasses_`, `symbolTable_`, `deferredOutput_`, `moduleName_`, three flags, the output stream | one `visit` per node class |
| symbol table | `IfcPL/SymbolTable.{h,cpp}` | a vector of entries | `add`, `isExpressType`, `isStringArrayType` |
| syntax tree | `IfcPL/node.{h,cpp}` | immutable after the parse | `accept` |
| parser | `IfcPL/parser.y` | `programBlock` | one semantic action per production |
| generated parser | `Transpiler/Tools/win_flex_bison-2.5.5/data/yacc.c` | the state stack, the value stack and their size, the lookahead | shift, reduce, grow, accept, error |
| scanner | `IfcPL/tokens.l` | start condition, `line_num` | one rule per token |
| command line library | `tclap/` | the list of Args and the groups; of each Arg whether it is set, its values and count; a static flag | `add`, `xorAdd`, `parse`, `processArg` of each class, `reset`, usage |
| framework runtime | `Framework/*` | arrays, strings | `operator[]`, `+`, `print`, `factorial` |
| parser generator, build files, examples, language description | `Transpiler/Tools`, `Transpiler/CMakeLists.txt`, `examples`, `Grammar` | - | - |

The parts interact by plain calls in one thread.  `main` has the command line
parsed, which may end the process, and calls `yyparse`, which calls the scanner and delivers `programBlock`; then it constructs one
`CppTransform`, lets the tree call it back (`accept`/`visit`), takes the names
it collected, constructs a second `CppTransform` seeded with them, and walks the
same tree again.  The only shared state of the two walks is the tree, what
`main` copies, and the global `g_schemaName`.

There is no concurrency.  What is hard here is **order and partial knowledge**:
a visit's output depends on everything visited before it, in a table without
scopes; a first walk exists only to tell the second what it cannot know yet;
the second truncates a file before it is certain to finish; static initialisers
are put aside and flushed later; and external effects (`oipExpress`, the two
files) happen in the middle of all that, unchecked.  What makes each part right:

- *CppTransform*: a class is used through a pointer, an enum through `::`, an
  EXPRESS object through `->m_`, wherever its declaration stands; every class is
  declared to the C++ compiler before its use; static fields are defined once,
  outside all bodies, for the right class.
- *main*: a tree pass 1 got through does not fail in pass 2; the two files agree
  with each other and with the program; every run ends.
- *symbol table*: answers only what was entered.
- *command line*: what is accepted is complete, what is complete is accepted,
  every word is understood once, and the usage names every Arg.
- *scanner*: every character is in a token, blank, or in a comment; lines are
  counted; comments end where they end.
- *parser*: the tree is the one the author wrote, with every token in it but those
  the actions are known to drop; the stacks of the generated code hold; no node is
  taken for one of another class.
- *rendering*: C++ reads in the text the tree it was written from.

The parser and the library hide further hard parts: conflicts of the grammar
that bison resolves silently, values in an untyped union, one sum that decides
about a command line, flags that outlive a parse.

`PROJECT.json` lists the hazards one by one, at their lines.

## Modules

| Module | Models |
|---|---|
| `SymbolTable` | the symbol table, as the set of its entries (nothing observes their order) |
| `SyntaxTree` | the nodes, as records: one set per node class the transform's state depends on; how bodies nest |
| `CppTransform` | the walk: the variables are the members of the class, each action is one `visit` |
| `Transpiler` | `main`: composes two walks, adds the files and the ways a run can end |
| `Translation` | what a run promises: the program is judged as a whole before its translation is begun |
| `TranspilerProperties` | the properties, the refinement, and the strengthening used by the proofs |
| `TranspilerProofs` | theorems about the two walks: types, and that the second cannot fail |
| `TranspilerOutputProofs` | theorems about the fragments of the file, the refinement and `CMakeLists.txt` |
| `TranspilerStaticsProofs` | theorems about the definitions of static fields |
| `MCTranspiler` | the TLC instance |
| `Claims` | statements of the repository's comments that do not hold of the code |
| `Args` | the Arg classes of tclap by their constructors, types and constraints of values, the forms of words, and the matching of one with the other |
| `CommandLine` | `CmdLine`: setting up, the nested loops of `parse` (one action per word and Arg), `XorHandler`, the exits, `reset`, the contents of the usage |
| `CommandLineProperties`, `MCCommandLine` | its properties and instances |
| `CommandLineProofs`, `CommandLineParseProofs` | theorems about setting up and usage, and about what a parse accepts |
| `SpacePrint`, `SpacePrintProofs`, `MCSpacePrint` | `StdOutput::spacePrint`, one action per line; theorems; instances |
| `Grammar` | every production of `parser.y` as a record (left side, right side, what the action makes of it), precedences, the action itself |
| `LALR` | external: how bison makes tables of the rules (items, LALR(1) lookaheads, precedence and default resolution of conflicts, default reductions) |
| `LRParser` | `yyparse` of the skeleton `yacc.c`, for any tables |
| `Derivation` | a history of what `yyparse` shifts and reduces, and what a derivation by the rules is |
| `NodeClasses` | the classes of `node.h`, their bases and the parts their constructors take |
| `NodeTyping` | of a grammar whose actions make such nodes: what makes each rule, by itself, well typed, and every node of a parse |
| `Source`, `Trees` | the language as authors mean it: how a tree is written, and trees of every kind of node |
| `ParserProperties`, `LRParserProofs`, `MCParser` | properties, theorems and instances |
| `Scanner`, `ScannerProofs`, `MCScanner` | the rules of `tokens.l` in both start conditions, one action per match |
| `Rendering` | what each `visit` writes, token by token |
| `CppGrammar` | external: the part of C++ that occurs in what is written |
| `CppReading`, `MCCppReading` | the written text read by that grammar, with `LALR` and `LRParser` again, and compared with the tree |

**Two models of the transform.**  `CppTransform` keeps the state of the walk and
the decisions it leads to, `Rendering` the text a visit writes, with all names
unknown to the tables.  They share the nodes' classes but not their
representation: a sequence here, a term (`kind`, `text`, `parts`) there.

**The parser.**  `LALR` computes from the productions what bison puts into its
tables, as constant functions, and `LRParser` interprets the tables as the
skeleton does: `label` is the label of the C code the control is at, `yyss` and
`yyvs` are the stacks, `yystacksize` their room, `yychar` the lookahead (a
default reduction is taken before one is read).  `MallocMayFail` lets the growth
fail.  The semantic values are the nodes; `parts` of a production are the
positions handed to the constructor, so that a default action, a forgotten part
and a null pointer are what they are in the code.  `assertions` says whether the
build keeps `assert`: with it an action that asserts (`AssertionFails`) ends the
process, without it `$$` keeps what bison put there before the action, the value of
the first symbol (`WhereActionSays`, yacc.c:1641), a string where a node belongs.
`Builds` names the builds a file is read in.

**The command line.**  `i` and `k` are the two loops of `parse`; `words` changes
while it runs because a combination of switches loses the letters that were
taken (`Blank`).  An Arg is what its constructor makes of it (`SwitchArg` ..
`UnlabeledMultiArg`).  A value is refused by type and by constraint: of each type
that is read with `operator>>` the constant `Reads` is the set of words it can be
read from (any set that has the empty text, which `ExtractValue` lets through), a
string takes every word, and a constraint is the set of words that meet it.
`uses` is a history of who took what.  An Arg belongs to
`required` and to a group of `xorList` as `_required` and `_orList` have it;
`alreadySet`, `xorSet`, `allowMore` are the flags of the same name.

**The scanner.**  A text is a sequence of characters; `Match` takes the longest
match and among these the first rule, as flex does, and `Act` is the action of
the rule.

**The tree as a sequence.**  A tree is the sequence of its nodes in the order of
the depth-first walk; a node with a body is followed by the nodes of the body
and an `End`.  `next` is the walk's position in it.  A visit that does something
before its children and something after them (a class: open, members, close and
flush) is therefore two actions.

**The output as fragments.**  `out` holds one record for every piece of C++ a
property can tell apart: what part it is (`forward`, `begin`, `field`, `access`,
...), the name it is about, the type or use, and the form chosen (`shared_ptr`,
`IfcPLString`, `->m_`, `::`, ...).  The text between is left out.

**State and code.**  `classNames`, `enumNames`, `baseClasses`, `symbolTable`,
`deferredOutput`, `moduleName` and the three flags are the members of
`CppTransform`; `Construct` is its constructor together with the calls of
`setClassNames`, `setEnumNames` and `writeClassForwardDeclarations`.
`g_schemaName` is the global.  `oipExpressRuns` records the calls of `system`, and
`generated` the schemas they succeeded for; nothing in the code depends on it,
because the status is ignored.
`phase` is where `main` is.  `cppFile` and `cmakeLists` are the files; `open`
and the constructor of the second stream are unchecked, so each may be lost.
`assertions` says whether the build keeps `assert` (no `NDEBUG`): with it a node
that cannot be translated aborts the process, without it only a missing base
class stops the walk, by an exception that `main` catches to return 0.

**Data.**  Names are values of the set `Name`.  What the code asks of the text of
a name (`startsWith(.., "Ifc")`, `hasEnding(.., ".exp")`, ...) are the constants
`IfcNames`, `IFCNames`, `ifcNames`, `ExpressSchemas`: sets of names, so that the
proofs hold for any. A schema keeps its `.exp`.

**Seeded faults.**  Operators marked "Seeded fault" are wrong variants of the
operator that follows them; putting one in place of the original makes TLC
report the property it is listed with in `PROJECT.json`.  Nothing else uses them.

## What is checked

Run `transpiler` (`MCTranspiler.cfg`), specification `Spec`:

| Property | Says |
|---|---|
| `TypeOK` | types of all variables, the position in the tree |
| `ReferencesResolved` | a class of the program that is the type of a result, parameter, field or variable is used through a pointer or by reference, and nothing but reference types is, wherever the declaration stands; the exception is the result of a function that is not `+`, which main.cpp:591 writes by value (`ByValue`) |
| `EnumsResolved` | `E.member` is written `E::member` for every enum of the program, unless the name is also that of an EXPRESS variable |
| `ForwardDeclared` | a class used as a type, of an array's elements too, has been declared further up; nothing but classes is |
| `NoTornOutput` | after the file has been opened no node fails |
| `StaticsDefined` | without local classes, every initialised static field is defined once, for its class, outside all bodies |
| `ProjectMatchesProgram` | `CMakeLists.txt` names the `.cpp` file (named by the other walk) and asks for what the program declares anywhere |
| `SchemasRequested` | `oipExpress` has been asked for the schema `CMakeLists.txt` refers to, twice per import; the schema itself may be missing |
| `ExpressAccess` | action property: `->m_` if and only if a declaration before the access, in this walk, gave the name an EXPRESS type |
| `ValidatedIsTranslated` | liveness: after pass 1 the whole tree is visited again and both files are closed or lost |
| `ImplementsTranslation` | the run implements `Translation` |

The refinement maps "pass 2 has opened its file" to *accepted*, the end of a run
without it to *rejected*, and the fragments of pass 2 to the text.  It says that
the first complete walk is what the judgement is made by: a rejected program has
no text, an accepted one's only grows, and is completed.

*Bounds.*  Programs are all sequences of one to three out of eleven declarations
(1463, repetitions included), and 22 programs around an interface or a class
declared inside a method.  A declaration is a class, an enum, a function, ...
of up to nine nodes, and they use each other's names.  Three are enough for the
interesting orders: a use before, between and after two declarations of what it
uses, a base class after the class derived from it, an EXPRESS parameter before
and after a function that uses its name otherwise.  The state space is finite
without further bounds: 255,772 states, 54 steps deep.

*Fairness.*  `WF_vars(Next)`: there is one thread, it waits for nothing, and the
walk of a finite tree ends.  Termination of the process is allowed
(`CHECK_DEADLOCK FALSE`): a run really stops.

Run `command_line` (`MCCommandLine.cfg`): eight set-ups (that of `main`, set-ups
with every class of Arg, with groups, and such as are refused: two Args of one
flag, an Arg added twice, groups that share an Arg, an unlabeled Arg behind an
optional one), each on all command lines of up to three of eight words and up to two
of twelve, twice with a reset in between: 181,954 states, 54 steps deep.

| Property | Says |
|---|---|
| `AcceptedIsComplete` | when `parse` returns, every required Arg was given and of each group exactly one (no group with a `MultiSwitchArg`, see below) |
| `WordsAccountedFor` | when the first parse returns, every word was understood once: a value of one Arg, its flag, a combination taken to the last letter, empty, or behind `--`; a switch the program itself declares with the visitor of `--` (`IgnoreRestVisitor`) may also end a combination before its last letter |
| `MetOnce` | a switch, or an Arg with one value, is never met at two words |
| `CompleteIsAccepted` | a command line that gives every required Arg is not refused at its end |
| `UsageNamesEachArg` | the usage names each Arg of the list once, with its group or on its own |
| `ParseEnds` | liveness: `parse` returns or the process exits |
| `TypeOK` | types, and which flags belong together |

Three words are enough to meet an Arg twice in any two forms with one word in
between, and to give both Args of `main` and one again.

Run `space_print` (`MCSpacePrint.cfg`): all texts of up to six characters on
lines of four.  `LinesFit`: no line is wider than it may be; `TextKept`: nothing
but spaces at breaks is lost, nothing written twice; `WordsKept`: a line ends at a
separator, a newline, or inside a word that alone fills it; `Returns`: liveness.  Six
characters make three lines, one before and two after the offset is added.

Run `parser` (`MCParser.cfg`), 501,565 states, of three kinds of input: programs of
every kind of node, operators of all levels and of none nested in each other, bodies
that are a block, a statement, `{}` or missing, written as tokens by `Source`; all
sequences of up to six tokens over names, `-`, parentheses and `;`, and of up to five
over those of declarations and blocks; and a few sentences no tree is written as (a
type behind `new` that differs from the one before, a comma before the first argument,
an escape the parser does not know), the last in builds with and without assertions.
`Source` writes parentheses where the declared precedences ask for them, and none
around the operands of an operator that has no declared level: the operator behind it
goes on with its last operand (`GoesOn`).  `{}` behind `for` and `while` is no body.
The stacks begin with room for 4 states and may grow to 18, or fail to, so that
growth, the limit and the failure all happen on ordinary programs.

| Property | Says |
|---|---|
| `MeantIsParsed` | what is parsed is the tree that was written; without memory it is refused |
| `NothingLost` | whatever is accepted, the tree holds every token in order, but for what the actions drop (`Dropped`): parentheses, a comma before the first argument, and the type behind `new` (parser.y:473-484) |
| `AcceptsLanguage` | of the short sequences, what is accepted is exactly what the productions derive, computed without the tables |
| `FileDerived` | what is accepted is derived from the start symbol, step by step as `yyparse` went, with every token in order; with assertions none failed, and the tree is what the actions make of that derivation |
| `NodesFit` | no node the actions made is read as a class it is not, and no null is followed, where the visits would do so; below each are only such nodes. An accepted parse in which the assertion of `char_literal` is off and would fail is excepted (`NoneAsserted`) |
| `StacksHold` | after every step the next push has room, and the next reduction its symbols and a state that knows its left side (`StacksFit`) |
| `ParseEnds` | liveness: `yyparse` returns |

The run's specification is `HistorySpec` of `Derivation`, which writes down every
token shifted and every rule reduced by (`phrases`), and of which of them the
values on the stack are (`marks`); no step looks at either (theorem `OnlyHistory`).
`StacksHold` is stated of steps, and `Next` and `HistoryNext` bind the tables (`Tables`
of `LALR`) to a name, for the sake of TLC's coverage statistics: they unfold every
definition an invariant or an action mentions, and the tables do not fit into memory
so.  An assumption of `ParserProperties`, `ParserActionsAreTyped`, has TLC test every
rule of `parser.y` for the hypothesis of the theorem `NodesFitHolds`.

Run `scanner` (`MCScanner.cfg`): all texts of up to six characters of comments,
five of strings and character literals, four of words, numbers and operators;
`LinesCounted`, `CommentsClose`, `NothingSkipped` (what has no token is blank or
comment), `ScanEnds`.  Six characters are `/***/` and a newline.

Run `cpp_reading` (`MCCppReading.cfg`): the trees of the run `parser` and more
expressions, rendered, their signs glued as C++ does, and parsed by `CppGrammar`;
223,268 states.  `TextKeepsMeaning`: C++ reads the tree that was written.  The
trees left out are sets of their own in `CppReading`: those of the two claims below
(`NeedsParentheses`, `Unclosed`, `Unbraced`), operands whose signs meet (`a - -1` is
written `a--1`, `SignsMeet`), and what a visit does not write (`Unwritten`) or writes
with one semicolon too many (`ClosedTwice`: the first part of a `for`, main.cpp:1126,
which therefore no property covers).

*Fairness* of these: `WF_vars(Next)`, one thread that waits for nothing.  All of
them stop (`CHECK_DEADLOCK FALSE`).

Runs that show a disagreement (the first four in `Claims`, the others in `CppReading`):

| Run | Comment | The code |
|---|---|---|
| `members_are_prefixed` | "Add m_ before EXPRESS member variables..." (main.cpp:530) | a field is entered in the symbol table when it is visited, after the methods above it |
| `embedded_access_is_express` | "check if this is an embedded type access to EXPRESS" (main.cpp:348) | the table has no scopes: a name once of an EXPRESS type stays one |
| `string_elements_handled` | "check if it a string, since this requires 'special' handling" (main.cpp:239) | array fields are never entered |
| `strings_are_mapped` | "a string should be mapped to IfcPLString" (Core.cpp:33) | functions write string parameters as they stand |
| `parentheses_are_kept` | `'(' <expr> ')'` (Grammar.tex:91), Clothoid.ifcpl:51 | parentheses are not in the tree, and the text has none |
| `statements_are_kept` | any `<stmt>` is a branch of an `if` (Grammar.tex:44), `<block>` is a `<stmt>` (27) | a declaration as a branch gets no semicolon, an inner block no braces |

What the code does elsewhere is in the models as it is and the properties say
where: `--` stays in force after `reset` (so `WordsAccountedFor` speaks of the first
parse), the switch of a group inside a combination is set but not counted
for it (so `CompleteIsAccepted` excepts it: `Alone`), a `MultiSwitchArg` of a group
is counted each time it is met (XorHandler.h:127-131), so that two of it make up
for another group (`GroupsCountOnce` excepts such groups), the flag of `--` is a
dash, but SwitchArg.h:190 leaves it out of combinations, so that `-a-b` is refused or
a value of an unlabeled Arg, declarations are handed through the union as
statements, which only read what both have (`Fits` in `NodesFit`), the type behind
`new` is parsed and forgotten, so that `List<A> x = new List<B>()` is a `List<A>`,
and the scanner lets escapes through that `char_literal` does not know: `'\n'` aborts
the transpiler (`assert(false)`, parser.y:115), or gives it a string for a node.

## What is proved

Every theorem holds for all values of the constants that satisfy the named
assumptions of the modules, which TLC evaluates for the instances.  Every
invariant below is shown of the initial states and kept by every action, one lemma
per action.

**`TranspilerProofs`**, from `ProgramsAssumption` (programs are sequences of nodes,
and their bodies are bracketed: each is ended, by an end of its kind, and members
stand directly in a class or interface, as the grammar of parser.y:264-313 has it) and
`NameAssumption` (the names the transform supplies are names).

- `TypeCorrect`: `Spec => []TypeOK`.  Not only bookkeeping: it contains that
  `classNames_.back()` (main.cpp:817) exists whenever it is taken, and that
  `baseClasses_` has what is asked of it.
- `NoTornOutputHolds`: `Spec => []NoTornOutput`.
- `InvariantHolds`: `Spec => []Inv`, the strengthening both come from.

*The argument.*  Neither property is inductive.  `Knowledge` adds what the walk
knows: `TablesArePrefixes` (at node `next` the domain of `baseClasses` and the
symbol table are what the nodes before it declare, a function of the tree alone;
`classNames` and `enumNames` are that, too, in pass 1 and the whole program's in
pass 2), `Validated` (every node the walk has passed, in pass 2 every node at
all, can be translated with the tables of its prefix) and `PhasesAgree`.
Whether a node fails depends on `baseClasses` and the symbol table only, which
are not seeded; so pass 2 meets every node with the tables pass 1 met it with,
and `Fail` contradicts `Validated`.  `KnowledgeStep` is that argument for one
visit; `WritingVisit` and `QuietVisit` reduce most visits to it; then there is
one lemma per visit and one per step of `main`.

**`TranspilerOutputProofs`**, from the same assumptions: `ReferencesResolvedHolds`,
`EnumsResolvedHolds`, `ForwardDeclaredHolds` (state invariants) and
`ExpressAccessHolds` (`Spec => ExpressAccess`, of every step).

*The argument.*  The three properties speak of all fragments of the file, `Inv` of
none.  `OutputInv` adds `Written`: every fragment of pass 2 fits (`Fits`: the type
is resolved, the access has the right operator, a forward declaration is of a class)
and the forward declarations of all classes are the first fragments
(`ForwardsFirst`).  A fragment fits when it is written because pass 2 knows all
classes and enums from the start (`Inv`); it stays fit because what it is compared
with grows only (`DeclaredExpressBefore` at a later node).  Fragments put aside in
`deferredOutput` are definitions, which fit trivially (`DefinitionsWait`).
`ExpressKnown` identifies the symbol table with the declarations before the
node, from which the action property follows visit by visit.

The same module, about `main`:

- `TranslationImplemented`: `Spec => Translated!Safety`, the safety part of the
  refinement: initial states map to initial states and every step of the two
  walks, of `main` and of its exits is `Reject`, `Accept`, `Write`, `Complete` or a
  stutter.  That a step which writes has been accepted, and that the exception
  handler only rejects what was not begun, needs `Inv` (`PhasesAgree`,
  `NoTornOutput`).
- `ProjectMatchesProgramHolds`, `SchemasRequestedHolds`: `CMakeLists.txt` against the
  program and against the runs of `oipExpress`, whatever became of them.

*The argument.*  `Project` says what a walk knows after its first nodes: module
name and flags are those of the prefix (`FlagsArePrefixes`, so both walks end with
the same), and `oipExpress` ran once for each import of the prefix, in pass 2 once
more for each import of the program (`SchemasCounted`).  `g_schemaName` is not reset
between the walks: until pass 2 meets an import it is that of the whole program
(`SchemasInForce`).  `FilesAgree` hands the name from one file to the other.

**`TranspilerStaticsProofs`**, from the same assumptions: `StaticsDefinedHolds`.

*The argument.*  The property counts and places definitions that are written
long after their fields were visited: they wait in `deferredOutput` until the
next class ends.  `Statics` relates the file to the part of the program
walked.  `Balanced`: the file has as many more begins than ends as the program has
open bodies (`Depth`).  `Accounted`: definitions written and waiting are together
as many as the static fields passed.  `NoneLost` and `ClassEntered`: each is one of
the class entered last before the field, whose name `classNames_.back()` is,
although pass 2 begins with the names of pass 1 in that vector.  `WaitingInClass`:
what waits, waits in a class that is still open; at the end of the program none
is, so all are written.  `DefinedOutside`: without local classes the end of a class
leaves no body open.  This is where `Bracketed` is needed: from what opens and
ends a body, the depth at each node follows (`DepthStep`).

**`LRParserProofs`**, from `TablesAssumption` (the tables fit together: the
transition by a symbol leads to items whose dot has just moved over it, of items
of the state before; an action's shift is a transition, a reduction's rule is at
its end; the beginning of rule 0 is in the initial state alone, and the end of
the file leads to the final state alone), `SentencesAssumption` (tokens are declared,
none is `YYEMPTY`, the end of the file is not in the middle), `BuildsAssumption` (a
build has assertions or not) and `DepthAssumption`; TLC evaluates all four for the tables of `parser.y`.

- `TypeCorrect`: `Spec => []TypeOK`.
- `StacksAreSafe`: `Spec => []StacksFit /\ StacksHold`.
- `FileDerivedHolds`: `HistorySpec => []FileDerived`: soundness of the parser for
  every grammar, with whatever conflicts resolved in whatever way.
- `NodesFitHolds`: `HistorySpec => []NodesFit`, for all `kinds` with `ActionsTyped(kinds)`
  and actions that do what the rules say except where they assert (`ActionsOfRules`,
  the definition of `SemanticAction` in `Grammar`).  A file that is accepted with an
  assertion failing unseen is excepted in the property; with assertions there is none
  (`FileDerived`).
- `OnlyHistory`: `HistorySpec => Spec`, fairness included.

*The argument.*  That a reduction finds its symbols does not follow from the
types.  The strengthening `ItemsBelow` says of every position of the stack that
each item of its state, with the dot moved back, is an item of the state below;
from the top, a completed rule can be followed down to the state where it began
(`Handle`), which knows a transition for its left side.  `Room` says that the
stack has room whenever the control is behind the test of `yysetstate`.

For `FileDerived`, `Marked` says that each value on the stack is that of a phrase,
that its symbol leads from the state below to the state above, and that it begins
in the file where the one below ends; with `ItemsBelow`, the symbols on top of a
state with a completed rule are those of its right side (`HandleSymbols`), although
`yyreduce` looks at none of them.  So each reduction makes a phrase that follows by
its rule, each shift one that is the next token (`AllDerived`; `Reading` and `Reached`
count the tokens read, and those on the stack).  In the final state the end of the
file is on top, and a program alone below (`FinalStack`): the items of rule 0
lead down to the initial state, to which nothing leads, so it is the bottom.
`TreeKept` says that `programBlock`, which any reduction to the start symbol writes,
is then the value of that program.

For `NodesFit`, `kinds` says of each nonterminal which kinds of node its values may be.
`ActionsTyped` is a condition on one rule at a time: what a rule hands on has no new
kinds, what it adds to a list every list of these kinds may hold, what it makes a
node of is of the classes the node reads.  For `parser.y` the kinds are computed
(`ParserKinds`) and the condition is evaluated.  By `FileDerived` every node is made by a rule
of nodes made before, so a first one that does not fit (`Least`, the least-element
principle) would be of a rule that is not typed (`RuleSound`).  `SoundPass`, `SoundAppend`
and `SoundNew` are the three sorts of actions; `ClassByKind` says that of a class
only the number of parts and what they are read as depend on more than the kind of
the node.

**`ScannerProofs`**, from `TextsAssumption` (texts are sequences): `TypeCorrect`,
`LinesAreCounted`, `CommentsAreClosed` and `NothingIsSkipped`.  Each rule is shown to match no newline
outside a token unless it counts it; an open comment is extended by chunks
without a star, single stars, or newlines, none of which ends in the closing
pair because that would have been the longer match.  For `NothingIsSkipped`, `ReadInv`
adds that an open comment began with its pair, in no token, that there is no token
ahead of the place the scanner has come to, and that what was passed over stays so.

**`CommandLineProofs`**.  `ArgsAreMetOnce`: `Spec => []MetOnce`; the strengthening
`Marked` says that in a parse an Arg that was met is set, so that the guards of
the classes refuse it; it must speak of the parse only, for `reset` takes the
marks away.  `UsageIsComplete`: `Spec => []UsageNamesEachArg`, from `SetupsAreCalls`;
while a group is being added its Args are in the list or pending (`SetUp`), the
list has no Arg twice, and an Arg of two groups is pending when it is in the list
already, so that its `add` is refused.

**`CommandLineParseProofs`**, from `ArgObjectsAreConstructed` (what the constructors
of the Args refuse is not there), `WordsAreRead`, `SetupsAreCalls`, `LinesAreWords`
and `MaxParsesIsPositive`; with it every safety property of the run `command_line` is a
theorem, for any Args, set-ups and command lines and any number of parses, with the
exceptions the properties state: set-ups with a `MultiSwitchArg` in a group
(`AcceptedIsComplete`, `CompleteIsAccepted`), and Args of a group met in combinations
only (`CompleteIsAccepted`).

- `TypesHold`: `Spec => []TypeOK`.
- `AcceptedHolds`: `Spec => []AcceptedIsComplete`.
- `CompleteHolds`: `Spec => []CompleteIsAccepted`.
- `WordsAreAccountedFor`: `Spec => []WordsAccountedFor`.

*The argument.*  `parse` compares `requiredCount`, to which every Arg met outside a
combination adds its weight (one, or the size of its group), with `numRequired`.
`CountInv` says what the first number is between: the required Args that must
have been counted (`Credited`: those that were met, alone when they belong to a
group) and those that may have been (`Answered`: those set, with their group when
they have one).  The second number is that of all required Args (`RequiredOnce`).
`Answered` is a subset of them; if a parse returns, it has at least as many
elements, so it is all of them.  If all are `Credited`, the sums are equal.  That no
Arg is counted twice is the guards' doing for most classes, and `AllowsMore` and
`StillRequired` do it for `MultiArg` (`MultiArgsCounted`); it is false of a
`MultiSwitchArg` in a group, which is where `GroupsCountOnce` comes from: the
proof failed there, and TLC found the command line.  For the words, `Read` says of
every word passed that it is understood, of the word at hand that what took it
so far were letters of a combination, and who made the rest ignored: `--`, which is
in no combination, or a switch of the program (`ProgramIgnores`).

**`SpacePrintProofs`**, from `SpacePrintAssumption` (the indentation and the offset
leave room for text: `spacePrint` is called with constants, StdOutput.h:171-222):
`LinesFitHolds`, `WordsKeptHolds`, `TextKeptHolds`.

*The argument.*  `PrintInv`: indentation and room add up to the width whatever was
shifted between them (`Room`), lines are disjoint pieces of the text in order
(`Pieces`), every character passed is in one or a space (`Covered`), and each is
well cut (`Cut`).  The loops of the code that look for a separator, a newline
or the end of the spaces are least and greatest elements in the model; that they
exist is the least-element principle of a well-founded relation
(`WFMin`), and each cut then follows from what is not before it.

*Only model-checked:*

- Liveness (`ValidatedIsTranslated`, `ParseEnds` of both parsers, `Returns`, `ScanEnds`,
  and `Decided` and `Completed` of `ImplementsTranslation`): the provers have no rule
  for fairness and `ENABLED`.
- Everything that needs induction over trees or uses recursive operators:
  `Source`, `Rendering`, `CppReading` and with them `MeantIsParsed`, `NothingLost`,
  `AcceptsLanguage` and `TextKeepsMeaning`.  `FileDerived` is the half of
  `AcceptsLanguage` that does not need the set of all derivations.  That the tables refuse nothing the rules derive is false of a grammar with conflicts in general.

## Not modelled

- *Framework runtime.*  Wrappers of standard containers and strings, and pure
  functions; no state of their own, nothing that has an order.  What can go wrong
  there is a missing test of an index and of the argument of `factorial`, beyond
  which the behaviour is undefined and the repository promises nothing.
- *bison and flex.*  The programs are vendored binaries; `LALR`, and the choice of
  the longest match, say what they do (external).  Of bison's data only `yacc.c` is
  used: `parser.y` asks for no other skeleton, so `glr.c`, `glr.cc`, `lalr1.cc` and
  `lalr1.java` describe code that is never generated here.  Of `yacc.c`, error
  recovery (there is no `error` token and `yyerror` ends the process), locations,
  the push parser, verbose errors, destructors and debug output are switched off.
- *tclap*: `DocBookOutput.h`, `ZshCompletionOutput.h` (used by nothing),
  `setExceptionHandling(false)` and `setOutput` (never called here), a delimiter other
  than the blank `main` leaves it at, which words
  `operator>>` reads a value of a type from, and default values.
- *CppTransform*: in `CppTransform`, the initialisers of fields (the expression of a
  static one goes to the deferred output) and the word static of a field
  (main.cpp:804 loses it); the cast of main.cpp:356 on anything but an identifier, and
  the tree of a build without assertions that has a string for a character literal
  (both undefined).  In `Rendering`, the text of imports, prolog and epilog,
  and the access to EXPRESS objects, which the other model has.
- Digits of numbers, characters of names and strings, paths, standard output; what
  `oipExpress` and the C++ compiler do beyond reading the text.
- Build files, examples: no behaviour of the program.

## Plan

1. *Done*: symbol table, tree, transform, `main`, refinement, the first theorems.
2. *Done*: grammar, generated parser, scanner, rendering, command line; theorems
   about stacks, lines, comments, Args and usage.
3. A stronger abstract specification: one walk by an oracle that knows all
   classes and enums; the two walks implement it.
4. *Done*: every safety property of the command line as a theorem, and of
   `spacePrint`.
5. *Done*: `ReferencesResolved`, `EnumsResolved`, `ForwardDeclared`, `ExpressAccess`,
   `ProjectMatchesProgram`, `SchemasRequested`, and the steps of the refinement as
   theorems.
6. *Done*: `StaticsDefined`, with the bracketing of bodies as an assumption on `Programs`.
7. *Done*: soundness of the parser for every grammar, over a history of derivations,
   and of the classes its nodes are read as.
