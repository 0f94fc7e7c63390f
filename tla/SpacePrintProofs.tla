--------------------------- MODULE SpacePrintProofs ---------------------------
(* For every set of texts, every width, indent and offset the command line     *)
(* library may be used with: spacePrint keeps its lines inside the width, keeps *)
(* the text, and keeps the words.                                              *)
EXTENDS SpacePrint, FiniteSetTheorems, WellFoundedInduction, TLAPS

-----------------------------------------------------------------------------
(* The greatest and the least of a set of numbers.                            *)

Smaller == {p \in Nat \X Nat : p[1] < p[2]}

\* There is no infinite descent.
LEMMA NoDescent == IsWellFoundedOn(Smaller, Nat)
  BY NatLessThanWellFounded DEF Smaller, OpToRel

\* Some natural numbers have a least among them, ...
LEMMA LeastExists ==
    ASSUME NEW T \in SUBSET Nat, T # {}
    PROVE  \E x \in T : \A y \in T : x <= y
  <1>1. PICK x \in T : \A y \in T : ~(<<y, x>> \in Smaller)
    BY WFMin, NoDescent
  <1>2. \A y \in T : ~(y < x)
    BY <1>1 DEF Smaller
  <1>. QED BY <1>1, <1>2

\* ... and, if they are bounded, a greatest.
LEMMA GreatestExists ==
    ASSUME NEW n \in Nat, NEW T \in SUBSET (1..n), T # {}
    PROVE  \E x \in T : \A y \in T : y <= x
  <1>. DEFINE U == {n - y : y \in T}
  <1>1. U \in SUBSET Nat /\ U # {}
    <2>1. \A y \in T : n - y \in Nat
      OBVIOUS
    <2>. QED BY <2>1
  <1>2. PICK u \in U : \A v \in U : u <= v
    BY <1>1, LeastExists
  <1>3. PICK x \in T : u = n - x
    OBVIOUS
  <1>4. \A y \in T : n - x <= n - y
    BY <1>2, <1>3
  <1>5. \A y \in T : y <= x
    BY <1>4
  <1>. QED BY <1>5

\* Max and Min are what they are called.
LEMMA MaxMin ==
    ASSUME NEW n \in Nat, NEW T \in SUBSET (1..n), T # {}
    PROVE  /\ Max(T) \in T /\ \A y \in T : y <= Max(T)
           /\ Min(T) \in T /\ \A y \in T : Min(T) <= y
  <1>1. Max(T) \in T /\ \A y \in T : Max(T) >= y
    <2>1. \E x \in T : \A y \in T : x >= y
      BY GreatestExists
    <2>. QED BY <2>1 DEF Max
  <1>2. Min(T) \in T /\ \A y \in T : Min(T) <= y
    <2>1. \E x \in T : \A y \in T : x <= y
      BY LeastExists
    <2>. QED BY <2>1 DEF Min
  <1>3. T \subseteq Int
    OBVIOUS
  <1>. QED BY <1>1, <1>2, <1>3

-----------------------------------------------------------------------------
(* One line.                                                                  *)

\* The loop is at work on a text, and has room for a character.
InLoop == /\ s \in Seq(Char) /\ start \in Nat /\ start < len
          /\ allowedLen \in Nat \ {0}

\* Where a line that goes back to a break may end.
LEMMA FittingFits ==
    ASSUME InLoop
    PROVE  /\ Fitting \in Nat /\ 1 <= Fitting /\ Fitting <= allowedLen
           /\ start + Fitting <= len
           /\ \/ start + Fitting = len
              \/ IsBreak(start + Fitting)
              \/ Fitting = allowedLen /\ \A m \in 1..Fitting : ~IsBreak(start + m)
  <1>. DEFINE n == Least(len - start, allowedLen)
  <1>1. len \in Nat /\ start \in Nat /\ start < len /\ allowedLen \in Nat /\ allowedLen >= 1
    BY DEF InLoop, len
  <1>2. /\ n \in Nat /\ 1 <= n /\ n <= allowedLen /\ start + n <= len
        /\ n # allowedLen => start + n = len
    BY <1>1 DEF Least
  <1>3. Fitting = IF n = allowedLen /\ Breaks(n) # {} THEN Max(Breaks(n)) ELSE n
    BY DEF Fitting
  <1>. HIDE DEF n
  <1>4. CASE n = allowedLen /\ Breaks(n) # {}
    <2>1. Breaks(n) \in SUBSET (1..n)
      BY DEF Breaks
    <2>2. Fitting \in Breaks(n)
      BY <1>2, <1>3, <1>4, <2>1, MaxMin
    <2>3. Fitting \in 1..n /\ IsBreak(start + Fitting)
      BY <2>2 DEF Breaks
    <2>. QED BY <1>1, <1>2, <2>3
  <1>5. CASE n = allowedLen /\ Breaks(n) = {}
    <2>1. \A m \in 1..n : ~IsBreak(start + m)
      BY <1>5 DEF Breaks
    <2>. QED BY <1>1, <1>2, <1>3, <1>5, <2>1
  <1>6. CASE n # allowedLen
    BY <1>1, <1>2, <1>3, <1>6
  <1>. QED BY <1>4, <1>5, <1>6

\* Where a line ends: at the end of the text, at a newline, in front of a break,
\* or at the width when there is no break in it.
LEMMA LineEnds ==
    ASSUME InLoop
    PROVE  /\ StringLen \in Nat /\ 1 <= StringLen /\ StringLen <= allowedLen
           /\ start + StringLen <= len
           /\ \/ start + StringLen = len
              \/ IsBreak(start + StringLen)
              \/ s[start + StringLen] = "newline"
              \/ StringLen = allowedLen /\ \A m \in 1..StringLen : ~IsBreak(start + m)
  <1>. DEFINE f == Fitting
  <1>1. len \in Nat /\ start \in Nat /\ start < len /\ allowedLen \in Nat
    BY DEF InLoop, len
  <1>2. /\ f \in Nat /\ 1 <= f /\ f <= allowedLen /\ start + f <= len
        /\ \/ start + f = len
           \/ IsBreak(start + f)
           \/ f = allowedLen /\ \A m \in 1..f : ~IsBreak(start + m)
    BY FittingFits
  <1>3. StringLen = IF Newlines(f) = {} THEN f ELSE Min(Newlines(f))
    BY DEF StringLen
  <1>. HIDE DEF f
  <1>4. CASE Newlines(f) = {}
    BY <1>1, <1>2, <1>3, <1>4
  <1>5. CASE Newlines(f) # {}
    <2>1. Newlines(f) \in SUBSET (1..f)
      BY DEF Newlines
    <2>2. StringLen \in Newlines(f)
      BY <1>2, <1>3, <1>5, <2>1, MaxMin
    <2>3. StringLen \in 1..f /\ At(start + StringLen - 1) = "newline"
      BY <2>2 DEF Newlines
    <2>4. StringLen \in Nat /\ 1 <= StringLen /\ StringLen <= allowedLen /\ start + StringLen <= len
      BY <1>1, <1>2, <2>3
    <2>5. start + StringLen - 1 < len /\ (start + StringLen - 1) + 1 = start + StringLen
      BY <1>1, <2>4
    <2>6. s[start + StringLen] = "newline"
      BY <2>3, <2>5 DEF At
    <2>. QED BY <2>4, <2>6
  <1>. QED BY <1>4, <1>5

\* What is skipped behind a line are spaces, and the text is not left.
LEMMA SpacesSkipped ==
    ASSUME InLoop
    PROVE  /\ Skipped \in Nat /\ start + StringLen + Skipped <= len
           /\ \A m \in 0..(Skipped - 1) : s[start + StringLen + m + 1] = "space"
  <1>. DEFINE p == start + StringLen
              T == {n \in Nat : At(p + n) # "space"}
              Fine(n) == /\ \A m \in 0..(n - 1) : At(p + m) = "space"
                         /\ At(p + n) = "space" => n = len - start
  <1>1. len \in Nat /\ start \in Nat /\ start < len
    BY DEF InLoop, len
  <1>2. p \in Nat /\ p <= len /\ start < p
    <2>1. StringLen \in Nat /\ 1 <= StringLen /\ start + StringLen <= len
      BY LineEnds
    <2>. QED BY <1>1, <2>1
  <1>3. Skipped = CHOOSE n \in 0..(len - start) : Fine(n)
    BY DEF Skipped
  <1>4. \A q \in Nat : At(q) = "space" => q < len /\ s[q + 1] = "space"
    BY DEF At
  <1>. HIDE DEF p
  <1>5. \E n \in 0..(len - start) : Fine(n)
    <2>1. len - p \in T
      <3>1. p + (len - p) = len /\ len - p \in Nat
        BY <1>1, <1>2
      <3>2. At(len) # "space"
        BY <1>1, <1>4
      <3>. QED BY <3>1, <3>2
    <2>2. PICK k \in T : \A y \in T : k <= y
      BY <2>1, LeastExists
    <2>3. k \in Nat /\ k <= len - p /\ At(p + k) # "space"
      BY <2>1, <2>2
    <2>4. ASSUME NEW m \in 0..(k - 1) PROVE At(p + m) = "space"
      <3>1. m \in Nat /\ ~(k <= m)
        BY <2>3
      <3>. QED BY <2>2, <3>1
    <2>5. k \in 0..(len - start)
      BY <1>1, <1>2, <2>3
    <2>. QED BY <2>3, <2>4, <2>5
  <1>6. Skipped \in 0..(len - start) /\ Fine(Skipped)
    BY <1>3, <1>5
  <1>7. Skipped \in Nat
    BY <1>6
  <1>8. \A m \in 0..(Skipped - 1) : m \in Nat /\ p + m \in Nat /\ At(p + m) = "space"
    BY <1>2, <1>6
  <1>9. \A m \in 0..(Skipped - 1) : p + m < len /\ s[p + m + 1] = "space"
    BY <1>4, <1>8
  <1>10. p + Skipped <= len
    <2>1. CASE Skipped = 0
      BY <1>2, <2>1
    <2>2. CASE Skipped # 0
      <3>1. Skipped - 1 \in 0..(Skipped - 1)
        BY <1>7, <2>2
      <3>2. p + (Skipped - 1) < len
        BY <1>9, <3>1
      <3>. QED BY <1>1, <1>2, <1>7, <3>2
    <2>. QED BY <2>1, <2>2
  <1>. QED BY <1>7, <1>9, <1>10 DEF p

-----------------------------------------------------------------------------
(* The invariant.                                                             *)

Line == [from : Nat, to : Nat, width : Nat]

\* The room on a line: indent and text make up the width, before and after the
\* adjustments behind the first line.
Room ==
    /\ s \in Texts /\ secondLineOffset \in Offsets
    /\ indentSpaces \in Nat /\ allowedLen \in Nat \ {0}
    /\ indentSpaces + allowedLen = MaxWidth
    /\ start \in Nat /\ start <= len
    /\ start = 0 => indentSpaces \in Indents

\* The lines are disjoint pieces of the text up to start.
Pieces ==
    /\ lines \in Seq(Line)
    /\ \A j \in 1..Len(lines) : 1 <= lines[j].from /\ lines[j].to <= start
    /\ \A j, k \in 1..Len(lines) : j < k => lines[j].to < lines[k].from

\* What is in no piece is a space.
Covered ==
    \A n \in 1..start :
        s[n] = "space" \/ \E j \in 1..Len(lines) : lines[j].from <= n /\ n <= lines[j].to

\* One line is not too wide, and ends where a line may end.
WellCut(line) ==
    /\ line.width <= MaxWidth
    /\ \/ line.to = len \/ IsBreak(line.to) \/ s[line.to] = "newline"
       \/ /\ line.width = MaxWidth
          /\ \A n \in (line.from + 1)..line.to : s[n] \notin {"space", "comma"}

Cut == \A j \in 1..Len(lines) : WellCut(lines[j])

PrintInv == Room /\ Pieces /\ Covered /\ Cut

\* A line is added to the lines.
LEMMA LineAdded ==
    ASSUME PrintInv, NEW line \in Line, lines' = Append(lines, line), s' = s,
           line.from = start + 1, start' \in Nat, line.to <= start', start <= start',
           \A n \in (line.to + 1)..start' : s[n] = "space",
           WellCut(line)
    PROVE  (Pieces /\ Covered /\ Cut)'
  <1>. DEFINE l == Len(lines)
  <1>1. lines \in Seq(Line) /\ l \in Nat /\ start \in Nat
    BY DEF PrintInv, Pieces, Room
  <1>2. /\ lines' \in Seq(Line) /\ Len(lines') = l + 1 /\ lines'[l + 1] = line
        /\ \A j \in 1..l : lines'[j] = lines[j]
    BY <1>1
  <1>3. \A j \in 1..l : lines[j] \in Line
    BY <1>1
  <1>4. /\ \A j \in 1..l : 1 <= lines[j].from /\ lines[j].to <= start
        /\ \A j, k \in 1..l : j < k => lines[j].to < lines[k].from
    BY DEF PrintInv, Pieces
  <1>5. \A n \in 1..start :
           s[n] = "space" \/ \E j \in 1..l : lines[j].from <= n /\ n <= lines[j].to
    BY DEF PrintInv, Covered
  <1>6. \A j \in 1..l : WellCut(lines[j])
    BY DEF PrintInv, Cut
  <1>. HIDE DEF l
  <1>7. \A j \in 1..(l + 1) : j \in 1..l \/ j = l + 1
    BY <1>1
  <1>8. Pieces'
    <2>1. ASSUME NEW j \in 1..(l + 1)
          PROVE  1 <= lines'[j].from /\ lines'[j].to <= start'
      <3>1. CASE j = l + 1
        BY <1>1, <1>2, <3>1
      <3>2. CASE j \in 1..l
        <4>1. 1 <= lines[j].from /\ lines[j].to <= start /\ lines[j].to \in Nat
          BY <1>3, <1>4, <3>2 DEF Line
        <4>. QED BY <1>1, <1>2, <3>2, <4>1
      <3>. QED BY <1>7, <3>1, <3>2
    <2>2. ASSUME NEW j \in 1..(l + 1), NEW k \in 1..(l + 1), j < k
          PROVE  lines'[j].to < lines'[k].from
      <3>1. j \in 1..l
        BY <1>1, <2>2
      <3>2. lines'[j] = lines[j] /\ lines[j].to <= start /\ lines[j].to \in Nat
        BY <1>2, <1>3, <1>4, <3>1 DEF Line
      <3>3. CASE k = l + 1
        <4>1. lines'[k].from = start + 1
          BY <1>2, <3>3
        <4>. QED BY <1>1, <3>2, <4>1
      <3>4. CASE k \in 1..l
        BY <1>2, <1>4, <2>2, <3>1, <3>2, <3>4
      <3>. QED BY <1>7, <3>3, <3>4
    <2>. QED BY <1>2, <2>1, <2>2 DEF Pieces
  <1>9. Covered'
    <2>1. ASSUME NEW n \in 1..start', s[n] # "space"
          PROVE  \E j \in 1..(l + 1) : lines'[j].from <= n /\ n <= lines'[j].to
      <3>1. CASE n <= start
        <4>1. n \in 1..start
          BY <1>1, <3>1
        <4>2. PICK j \in 1..l : lines[j].from <= n /\ n <= lines[j].to
          BY <1>5, <2>1, <4>1
        <4>3. j \in 1..(l + 1)
          BY <1>1
        <4>. QED BY <1>2, <4>2, <4>3
      <3>2. CASE n > start
        <4>1. n <= line.to
          <5>1. line.to \in Nat
            BY DEF Line
          <5>. QED BY <2>1, <5>1
        <4>2. l + 1 \in 1..(l + 1) /\ start + 1 <= n
          BY <1>1, <3>2
        <4>3. lines'[l + 1].from <= n /\ n <= lines'[l + 1].to
          <5>1. lines'[l + 1].from = start + 1 /\ lines'[l + 1].to = line.to
            BY <1>2
          <5>. QED BY <4>1, <4>2, <5>1
        <4>. QED BY <4>2, <4>3
      <3>3. n <= start \/ n > start
        <4>1. n \in Nat /\ start \in Nat
          BY <1>1
        <4>. QED BY <4>1
      <3>. QED BY <3>1, <3>2, <3>3
    <2>. QED BY <1>2, <2>1 DEF Covered
  <1>10. Cut'
    <2>1. \A j \in 1..(l + 1) : WellCut(lines'[j])
      BY <1>2, <1>6, <1>7
    <2>. QED BY <1>2, <2>1 DEF Cut, WellCut, IsBreak, At, len
  <1>. QED BY <1>8, <1>9, <1>10

\* One round of the loop.
LEMMA PrintLineStep ==
    ASSUME PrintInv, PrintLine
    PROVE  PrintInv'
  <1>. DEFINE line == [from |-> start + 1, to |-> start + StringLen,
                       width |-> indentSpaces + StringLen]
  <1>1. /\ s \in Seq(Char) /\ start \in Nat /\ start < len /\ len \in Nat
        /\ allowedLen \in Nat /\ allowedLen >= 1 /\ indentSpaces \in Nat
        /\ indentSpaces + allowedLen = MaxWidth /\ InLoop
    BY SpacePrintAssumption DEF PrintInv, Room, PrintLine, WriteLine, InLoop, len
  <1>2. /\ StringLen \in Nat /\ 1 <= StringLen /\ StringLen <= allowedLen
        /\ start + StringLen <= len
        /\ \/ start + StringLen = len
           \/ IsBreak(start + StringLen)
           \/ s[start + StringLen] = "newline"
           \/ StringLen = allowedLen /\ \A m \in 1..StringLen : ~IsBreak(start + m)
    BY <1>1, LineEnds
  <1>3. /\ Skipped \in Nat /\ start + StringLen + Skipped <= len
        /\ \A m \in 0..(Skipped - 1) : s[start + StringLen + m + 1] = "space"
    BY <1>1, SpacesSkipped
  <1>4. /\ lines' = Append(lines, line) /\ start' = start + Skipped + StringLen
        /\ s' = s /\ secondLineOffset' = secondLineOffset
    BY DEF PrintLine, WriteLine
  <1>5. /\ line.from = start + 1 /\ line.to = start + StringLen
        /\ line.width = indentSpaces + StringLen /\ line \in Line
    BY <1>1, <1>2 DEF Line
  <1>. HIDE DEF line
  <1>6. /\ start' \in Nat /\ line.to <= start' /\ start <= start' /\ start' <= len /\ start' # 0
    BY <1>1, <1>2, <1>3, <1>4, <1>5
  <1>7. \A n \in (line.to + 1)..start' : s[n] = "space"
    <2>1. ASSUME NEW n \in (line.to + 1)..start'
          PROVE  s[n] = "space"
      <3>. DEFINE m == n - (start + StringLen + 1)
      <3>1. m \in 0..(Skipped - 1) /\ start + StringLen + m + 1 = n
        BY <1>1, <1>2, <1>3, <1>4, <1>5
      <3>. HIDE DEF m
      <3>. QED BY <1>3, <3>1
    <2>. QED BY <2>1
  <1>8. WellCut(line)
    <2>1. line.width <= MaxWidth /\ (StringLen = allowedLen => line.width = MaxWidth)
      BY <1>1, <1>2, <1>5
    <2>2. ASSUME \A m \in 1..StringLen : ~IsBreak(start + m)
          PROVE  \A n \in (line.from + 1)..line.to : s[n] \notin {"space", "comma"}
      <3>1. ASSUME NEW n \in (line.from + 1)..line.to
            PROVE  s[n] \notin {"space", "comma"}
        <4>. DEFINE m == n - 1 - start
        <4>1. m \in 1..StringLen /\ start + m = n - 1 /\ n - 1 < len /\ (n - 1) + 1 = n
          BY <1>1, <1>2, <1>5
        <4>2. ~IsBreak(n - 1)
          <5>. HIDE DEF m
          <5>. QED BY <2>2, <4>1
        <4>. QED BY <4>1, <4>2 DEF IsBreak, At
      <3>. QED BY <3>1
    <2>. QED BY <1>2, <1>5, <2>1, <2>2 DEF WellCut
  <1>9. (Pieces /\ Covered /\ Cut)'
    BY <1>4, <1>5, <1>6, <1>7, <1>8, LineAdded
  <1>10. Room'
    <2>1. start = 0 => /\ indentSpaces' = indentSpaces + secondLineOffset
                       /\ allowedLen' = allowedLen - secondLineOffset
      BY DEF PrintLine, WriteLine
    <2>2. start # 0 => UNCHANGED <<indentSpaces, allowedLen>>
      BY DEF PrintLine, WriteLine
    <2>3. start = 0 => /\ secondLineOffset \in Nat /\ indentSpaces + secondLineOffset < MaxWidth
      BY SpacePrintAssumption DEF PrintInv, Room
    <2>4. MaxWidth \in Nat
      BY SpacePrintAssumption
    <2>5. /\ indentSpaces' \in Nat /\ allowedLen' \in Nat \ {0}
          /\ indentSpaces' + allowedLen' = MaxWidth
      BY <1>1, <2>1, <2>2, <2>3, <2>4
    <2>. QED BY <1>4, <1>6, <2>5 DEF Room, PrintInv, len
  <1>. QED BY <1>9, <1>10 DEF PrintInv

\* A text that fits is one line.
LEMMA PrintAllStep ==
    ASSUME PrintInv, PrintAll
    PROVE  PrintInv'
  <1>. DEFINE line == [from |-> 1, to |-> len, width |-> indentSpaces + len]
  <1>1. /\ len \in Nat /\ indentSpaces \in Nat /\ indentSpaces + len <= MaxWidth
        /\ lines = <<>> /\ lines' = <<line>> /\ start' = len
        /\ UNCHANGED <<s, secondLineOffset, indentSpaces, allowedLen>>
    BY SpacePrintAssumption DEF PrintInv, Room, PrintAll, len
  <1>2. line.from = 1 /\ line.to = len /\ line.width = indentSpaces + len /\ line \in Line
    BY <1>1 DEF Line
  <1>. HIDE DEF line
  <1>3. lines' \in Seq(Line) /\ Len(lines') = 1 /\ lines'[1] = line
    BY <1>1, <1>2
  <1>4. \A j \in 1..Len(lines') : j = 1
    BY <1>3
  <1>5. Pieces'
    BY <1>1, <1>2, <1>3, <1>4 DEF Pieces
  <1>6. Covered'
    BY <1>1, <1>2, <1>3 DEF Covered
  <1>7. Cut'
    <2>1. WellCut(line)
      BY <1>1, <1>2 DEF WellCut
    <2>. QED BY <1>1, <1>3, <1>4, <2>1 DEF Cut, WellCut, IsBreak, At, len
  <1>8. Room'
    <2>1. len' = len
      BY <1>1 DEF len
    <2>2. start' = 0 => indentSpaces' \in Indents
      <3>1. start' = 0 => start = 0
        BY <1>1 DEF PrintInv, Room
      <3>. QED BY <1>1, <3>1 DEF PrintInv, Room
    <2>. QED BY <1>1, <2>1, <2>2 DEF PrintInv, Room
  <1>. QED BY <1>5, <1>6, <1>7, <1>8 DEF PrintInv

\* Before the first line nothing is written.
LEMMA PrintInit == Init => PrintInv
  <1>. SUFFICES ASSUME Init PROVE PrintInv
    OBVIOUS
  <1>1. lines = <<>> /\ Len(lines) = 0 /\ start = 0 /\ lines \in Seq(Line)
    BY DEF Init
  <1>2. Room
    <2>1. s \in Texts /\ s \in Seq(Char) /\ len \in Nat
      BY SpacePrintAssumption DEF Init, len
    <2>2. /\ indentSpaces \in Indents /\ indentSpaces \in Nat /\ secondLineOffset \in Offsets
          /\ secondLineOffset \in Nat /\ MaxWidth \in Nat
          /\ indentSpaces + secondLineOffset < MaxWidth
      BY SpacePrintAssumption DEF Init
    <2>3. /\ allowedLen = MaxWidth - indentSpaces
      BY DEF Init
    <2>4. allowedLen \in Nat \ {0} /\ indentSpaces + allowedLen = MaxWidth
      BY <2>2, <2>3
    <2>. QED BY <1>1, <2>1, <2>2, <2>4 DEF Room
  <1>3. Pieces
    BY <1>1 DEF Pieces
  <1>4. Covered
    BY <1>1 DEF Covered
  <1>5. Cut
    BY <1>1 DEF Cut
  <1>. QED BY <1>2, <1>3, <1>4, <1>5 DEF PrintInv

\* Every step keeps the invariant.
LEMMA PrintNext == PrintInv /\ [Next]_vars => PrintInv'
  <1>. SUFFICES ASSUME PrintInv, [Next]_vars PROVE PrintInv'
    OBVIOUS
  <1>1. CASE PrintLine
    BY <1>1, PrintLineStep
  <1>2. CASE PrintAll
    BY <1>2, PrintAllStep
  <1>3. CASE Return \/ UNCHANGED vars
    <2>1. UNCHANGED <<s, secondLineOffset, indentSpaces, allowedLen, start, lines>>
      BY <1>3 DEF Return, vars
    <2>. QED BY <2>1 DEF PrintInv, Room, Pieces, Covered, Cut, WellCut, IsBreak, At, len
  <1>. QED BY <1>1, <1>2, <1>3 DEF Next

-----------------------------------------------------------------------------
(* Theorems.                                                                  *)

\* At every moment the lines are disjoint pieces of the text, well cut, and
\* between them there are only spaces.
THEOREM PrintInvariantHolds == Spec => []PrintInv
  BY PrintInit, PrintNext, PTL DEF Spec

\* No line of any text is wider than the width, whatever the indents.
THEOREM LinesFitHolds == Spec => []LinesFit
  <1>1. PrintInv => LinesFit
    BY DEF PrintInv, Pieces, Cut, WellCut, LinesFit
  <1>. QED BY <1>1, PrintInvariantHolds, PTL

\* Lines of any text end at breaks, newlines and the end of the text; inside a
\* word only if the word fills the line.
THEOREM WordsKeptHolds == Spec => []WordsKept
  <1>1. PrintInv => WordsKept
    BY DEF PrintInv, Pieces, Cut, WellCut, WordsKept
  <1>. QED BY <1>1, PrintInvariantHolds, PTL

\* Every character of any text is written once, or is a space at a break.
THEOREM TextKeptHolds == Spec => []TextKept
  <1>1. ASSUME PrintInv PROVE TextKept
    <2>1. /\ lines \in Seq(Line) /\ DOMAIN lines = 1..Len(lines) /\ Len(lines) \in Nat
          /\ start \in Nat /\ start <= len
      BY <1>1 DEF PrintInv, Pieces, Room
    <2>2. Least(start, len) = start
      BY <2>1 DEF Least
    <2>3. ASSUME NEW n \in 1..start, NEW found,
                 found = {j \in DOMAIN lines : n \in lines[j].from..lines[j].to}
          PROVE  (found = {} /\ s[n] = "space") \/ Cardinality(found) = 1
      <3>1. \A j \in DOMAIN lines : lines[j] \in Line
        BY <2>1
      <3>2. \A j \in DOMAIN lines : j \in found <=> lines[j].from <= n /\ n <= lines[j].to
        <4>1. ASSUME NEW j \in DOMAIN lines
              PROVE  n \in lines[j].from..lines[j].to <=> lines[j].from <= n /\ n <= lines[j].to
          <5>1. lines[j].from \in Nat /\ lines[j].to \in Nat
            BY <3>1 DEF Line
          <5>. QED BY <5>1
        <4>. QED BY <2>3, <4>1
      <3>3. ASSUME NEW j \in found, NEW k \in found
            PROVE  j = k
        <4>1. j \in 1..Len(lines) /\ k \in 1..Len(lines)
          BY <2>1, <2>3
        <4>2. /\ lines[j].from \in Nat /\ lines[j].to \in Nat /\ lines[j].from <= n
              /\ n <= lines[j].to
              /\ lines[k].from \in Nat /\ lines[k].to \in Nat /\ lines[k].from <= n
              /\ n <= lines[k].to
          BY <2>1, <3>1, <3>2, <4>1 DEF Line
        <4>3. /\ j < k => lines[j].to < lines[k].from
              /\ k < j => lines[k].to < lines[j].from
          BY <1>1, <4>1 DEF PrintInv, Pieces
        <4>. QED BY <4>1, <4>2, <4>3
      <3>4. CASE found = {}
        BY <1>1, <2>1, <3>2, <3>4 DEF PrintInv, Covered
      <3>5. CASE found # {}
        <4>1. PICK j \in found : TRUE
          BY <3>5
        <4>2. found = {j}
          BY <3>3, <4>1
        <4>. QED BY <4>2, FS_Singleton
      <3>. QED BY <3>4, <3>5
    <2>. QED BY <2>2, <2>3 DEF TextKept
  <1>. QED BY <1>1, PrintInvariantHolds, PTL
=============================================================================
