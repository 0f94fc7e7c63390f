----------------------------- MODULE SpacePrint -----------------------------
(* StdOutput::spacePrint (tclap/StdOutput.h): breaks a text into indented    *)
(* lines of at most maxWidth characters for the usage message.  Of a         *)
(* character only what the code asks is kept.  A line ends in front of the   *)
(* last space, comma or bar that fits, or after a newline; spaces at the     *)
(* break are dropped.                                                        *)
EXTENDS Integers, Sequences, FiniteSets, FiniteSetsExt

CONSTANTS
    Texts,              \* the texts to print: sequences of Char
    MaxWidth,           \* maxWidth
    Indents, Offsets    \* the values of indentSpaces and secondLineOffset

Char == {"letter", "space", "comma", "newline"}   \* a bar is treated as a comma

\* All calls pass 75 characters, an indent of at most 9, and an offset which
\* _shortUsage cuts down to half the width.
ASSUME SpacePrintAssumption ==
    /\ Texts \subseteq Seq(Char)
    /\ MaxWidth \in Nat \ {0} /\ Indents \subseteq Nat /\ Offsets \subseteq Nat
    /\ \A n \in Indents, m \in Offsets : n + m < MaxWidth

VARIABLES
    s,                  \* the text
    secondLineOffset,
    indentSpaces,       \* grows by secondLineOffset after the first line
    allowedLen,         \* shrinks by as much
    start,              \* the characters s[1..start] are dealt with
    lines,              \* history: the lines written, as what was cut out of s
    done

vars == <<s, secondLineOffset, indentSpaces, allowedLen, start, lines, done>>

len == Len(s)

Init ==
    /\ s \in Texts
    /\ secondLineOffset \in Offsets
    /\ indentSpaces \in Indents
    /\ allowedLen = MaxWidth - indentSpaces
    /\ start = 0
    /\ lines = <<>>
    /\ done = FALSE

Least(m, n) == IF m <= n THEN m ELSE n

\* s[n] counts from 0 in the code; behind the end it reads the terminating 0.
At(n) == IF n < len THEN s[n + 1] ELSE "end"

IsBreak(n) == At(n) \in {"space", "comma"}

\* Where the line that begins at start ends: a full line goes back to a break.
Breaks(full) == {n \in 1..full : IsBreak(start + n)}

\* Seeded fault: the line is not cut at the width when there is no break in it.
FittingUncut ==
    LET n == Least(len - start, allowedLen) IN
    IF n = allowedLen
    THEN IF Breaks(n) # {} THEN Max(Breaks(n)) ELSE len - start
    ELSE n

\* Seeded fault: a full line does not go back.
FittingFull == Least(len - start, allowedLen)

Fitting ==
    LET n == Least(len - start, allowedLen) IN
    IF n = allowedLen /\ Breaks(n) # {} THEN Max(Breaks(n)) ELSE n

\* An early newline ends the line behind itself.
Newlines(n) == {m \in 1..n : At(start + m - 1) = "newline"}
StringLen == IF Newlines(Fitting) = {} THEN Fitting ELSE Min(Newlines(Fitting))

\* Seeded fault: the character at a break is skipped, whatever it is.
SkippedOne == Least(1, len - start)

\* The spaces after a line are skipped, but never past the end.
Skipped == CHOOSE n \in 0..(len - start) :
             /\ \A m \in 0..(n - 1) : At(start + StringLen + m) = "space"
             /\ At(start + StringLen + n) = "space" => n = len - start

WriteLine ==
    /\ ~done /\ (len + indentSpaces > MaxWidth \/ lines # <<>>)
    /\ start < len
    /\ lines' = Append(lines, [from |-> start + 1, to |-> start + StringLen,
                               width |-> indentSpaces + StringLen])
    /\ IF start = 0
       THEN /\ indentSpaces' = indentSpaces + secondLineOffset
            /\ allowedLen' = allowedLen - secondLineOffset
       ELSE UNCHANGED <<indentSpaces, allowedLen>>
    /\ start' = start + Skipped + StringLen
    /\ UNCHANGED <<s, secondLineOffset, done>>

\* Seeded fault: a line that would begin with a break is tried again and again.
PrintLineStuck == ~IsBreak(start) /\ WriteLine

\* One round of the loop.
PrintLine == WriteLine

\* A text that fits is written as it is.
PrintAll ==
    /\ ~done /\ lines = <<>> /\ len + indentSpaces <= MaxWidth
    /\ lines' = <<[from |-> 1, to |-> len, width |-> indentSpaces + len]>>
    /\ start' = len
    /\ done' = TRUE
    /\ UNCHANGED <<s, secondLineOffset, indentSpaces, allowedLen>>

Return ==
    /\ ~done /\ lines # <<>> /\ start >= len
    /\ done' = TRUE
    /\ UNCHANGED <<s, secondLineOffset, indentSpaces, allowedLen, start, lines>>

Next == PrintLine \/ PrintAll \/ Return

Spec == Init /\ [][Next]_vars /\ WF_vars(Next)

-----------------------------------------------------------------------------
\* No line is wider than maxWidth, indented or not: the two adjustments after
\* the first line cancel out (StdOutput.h:271-278).
LinesFit == \A j \in DOMAIN lines : lines[j].width <= MaxWidth

\* Nothing but spaces is lost, and nothing is written twice: every character up
\* to start is in one line, or it is a space at a break.
TextKept ==
    \A n \in 1..Least(start, len) :
        LET found == {j \in DOMAIN lines : n \in lines[j].from..lines[j].to} IN
        (found = {} /\ s[n] = "space") \/ Cardinality(found) = 1

\* "It will only break lines at spaces, commas and pipes" (StdOutput.h:90): a line
\* ends elsewhere only where the text does, at a newline, or inside a word that
\* alone fills the line (StdOutput.h:257).
WordsKept ==
    \A j \in DOMAIN lines :
        LET first == lines[j].from  last == lines[j].to IN
        \/ last = len \/ IsBreak(last) \/ s[last] = "newline"
        \/ lines[j].width = MaxWidth /\ \A n \in (first + 1)..last : s[n] \notin {"space", "comma"}

\* spacePrint returns: every round of its loop writes at least one character.
Returns == <>done
=============================================================================
