--------------------------- MODULE ScannerProofs ----------------------------
(* The line numbers of the scanner, the ends of its comments, and what it     *)
(* passes over, for every file and every set of keywords.                    *)
EXTENDS Scanner, FiniteSetTheorems, TLAPS

-----------------------------------------------------------------------------
(* The invariant.                                                            *)

\* The newlines up to i that are in none of these tokens.
Uncounted(i, ts) ==
    {j \in 1..i : text[j] = "\n" /\ ~\E t \in Range(ts) : t.first <= j /\ j <= t.last}

\* As long as a comment is open no end of one has been read, nor does a star
\* that has been read stand before a slash.
NoEndBehind ==
    condition = "IN_COMMENT" =>
        \A i \in (opened + 2)..position :
            i < Len(text) => ~(text[i] = "*" /\ text[i + 1] = "/")

IInv == /\ text \in Seq(Range(text))
        /\ TypeOK
        /\ line_num = 1 + Cardinality(Uncounted(position, tokens))
        /\ NoEndBehind

-----------------------------------------------------------------------------
(* Lexemes.                                                                  *)

LEMMA LexemeIs ==
    ASSUME text \in Seq(Range(text)), position \in 0..Len(text),
           NEW n \in 1..(Len(text) - position)
    PROVE  /\ Len(Lexeme(n)) = n
           /\ \A j \in 1..n : Lexeme(n)[j] = text[position + j]
           /\ position + n \in 0..Len(text) /\ position + n \in Nat
BY DEF Lexeme

LEMMA UncountedFinite ==
    ASSUME NEW i \in Nat, NEW ts
    PROVE  IsFiniteSet(Uncounted(i, ts)) /\ Cardinality(Uncounted(i, ts)) \in Nat
<1>1. IsFiniteSet(1..i)
  BY FS_Interval
<1>2. Uncounted(i, ts) \subseteq 1..i
  BY DEF Uncounted
<1>3. IsFiniteSet(Uncounted(i, ts))
  BY <1>1, <1>2, FS_Subset
<1> QED BY <1>3, FS_CardinalityType

\* Passing over n characters without a newline.
LEMMA PassOver ==
    ASSUME text \in Seq(Range(text)), position \in 0..Len(text),
           NEW n \in 1..(Len(text) - position),
           \A j \in 1..n : Lexeme(n)[j] # "\n"
    PROVE  Uncounted(position + n, tokens) = Uncounted(position, tokens)
<1>1. \A j \in (position + 1)..(position + n) : text[j] # "\n"
  <2>1. ASSUME NEW j \in (position + 1)..(position + n) PROVE text[j] # "\n"
    <3>1. j - position \in 1..n /\ position + (j - position) = j
      OBVIOUS
    <3> QED BY <3>1, LexemeIs
  <2> QED BY <2>1
<1> QED BY <1>1, LexemeIs DEF Uncounted

\* Passing over a newline.
LEMMA PassNewline ==
    ASSUME IInv, position + 1 \in 1..Len(text), text[position + 1] = "\n"
    PROVE  Cardinality(Uncounted(position + 1, tokens)) = Cardinality(Uncounted(position, tokens)) + 1
<1>1. position \in Nat
  BY DEF IInv, TypeOK
<1>2. \A t \in Range(tokens) : ~(t.first <= position + 1 /\ position + 1 <= t.last)
  BY <1>1 DEF IInv, TypeOK
<1>3. /\ Uncounted(position + 1, tokens) = Uncounted(position, tokens) \union {position + 1}
      /\ position + 1 \notin Uncounted(position, tokens)
  BY <1>1, <1>2 DEF Uncounted
<1> QED BY <1>1, <1>3, UncountedFinite, FS_AddElement

\* Returning n characters as a token.
LEMMA PassToken ==
    ASSUME IInv, NEW n \in 1..(Len(text) - position),
           NEW t, t.first = position + 1, t.last = position + n, t.line \in Nat
    PROVE  /\ Uncounted(position + n, Append(tokens, t)) = Uncounted(position, tokens)
           /\ Append(tokens, t) \in Seq(Range(Append(tokens, t)))
           /\ Range(Append(tokens, t)) = Range(tokens) \union {t}
<1>1. position \in Nat /\ n \in Nat /\ n >= 1 /\ tokens \in Seq(Range(tokens))
  BY DEF IInv, TypeOK
<1>2. /\ Range(Append(tokens, t)) = Range(tokens) \union {t}
      /\ Append(tokens, t) \in Seq(Range(tokens) \union {t})
  <2> DEFINE s == Append(tokens, t)
             B == Range(tokens)
  <2>1. /\ s \in Seq(B \union {t}) /\ Len(s) = Len(tokens) + 1
        /\ s[Len(tokens) + 1] = t /\ \A j \in 1..Len(tokens) : s[j] = tokens[j]
    <3>1. tokens \in Seq(B)
      BY <1>1
    <3> HIDE DEF B
    <3> QED BY <3>1
  <2> HIDE DEF s
  <2>2. DOMAIN s = 1..(Len(tokens) + 1) /\ DOMAIN tokens = 1..Len(tokens) /\ Len(tokens) \in Nat
    BY <1>1, <2>1
  <2>3. Range(s) = Range(tokens) \union {t}
    BY <2>1, <2>2 DEF Range
  <2> QED BY <2>1, <2>3 DEF s
<1>3. Append(tokens, t) \in Seq(Range(Append(tokens, t)))
  BY <1>2
<1>4. \A j \in 1..position : ~(t.first <= j /\ j <= t.last)
  BY <1>1
<1>5. \A j \in (position + 1)..(position + n) : t.first <= j /\ j <= t.last
  BY <1>1
<1>6. Uncounted(position + n, Append(tokens, t)) = Uncounted(position, tokens)
  <2> DEFINE A == Range(Append(tokens, t))
             B == Range(tokens)
  <2>1. A = B \union {t}
    BY <1>2
  <2> HIDE DEF A, B
  <2>2. {j \in 1..(position + n) : text[j] = "\n" /\ ~\E s \in A : s.first <= j /\ j <= s.last}
        = {j \in 1..position : text[j] = "\n" /\ ~\E s \in B : s.first <= j /\ j <= s.last}
    BY <1>1, <1>4, <1>5, <2>1
  <2> QED BY <2>2 DEF Uncounted, A, B
<1> QED BY <1>2, <1>3, <1>6

-----------------------------------------------------------------------------
(* The steps.                                                                *)

LEMMA InitIInv == ASSUME Init PROVE IInv
<1>1. /\ text \in Seq(Range(text)) /\ position = 0 /\ tokens = <<>> /\ line_num = 1 /\ opened = 0
      /\ condition = "INITIAL" /\ done = FALSE
  BY TextsAssumption DEF Init, TextsAssumption
<1>2. Uncounted(position, tokens) = {}
  BY <1>1 DEF Uncounted
<1>3. Cardinality(Uncounted(position, tokens)) = 0
  BY <1>2, FS_EmptySet
<1>4. TypeOK
  <2>1. tokens \in Seq(Range(tokens)) /\ Range(tokens) = {}
    <3>1. tokens \in Seq({}) /\ DOMAIN tokens = {}
      BY <1>1
    <3>2. Range(tokens) = {}
      BY <3>1 DEF Range
    <3> QED BY <3>1, <3>2
  <2>2. \A t \in Range(tokens) : t.first \in Nat /\ t.last \in 0..position /\ t.line \in Nat
    BY <2>1
  <2>3. position \in 0..Len(text) /\ opened \in 0..position /\ line_num \in Nat \ {0}
    BY <1>1
  <2> QED BY <1>1, <2>1, <2>2, <2>3 DEF TypeOK
<1>5. NoEndBehind
  BY <1>1 DEF NoEndBehind
<1> QED BY <1>1, <1>3, <1>4, <1>5 DEF IInv

LEMMA CloseComment == 10 \in 1..Len(Patterns) /\ Patterns[10] = "close comment"
<1>1. Len(Patterns) = 17
  BY DEF Patterns
<1>2. Patterns[10] = "close comment"
  BY DEF Patterns
<1>3. 10 \in 1..17
  OBVIOUS
<1> QED BY <1>1, <1>2, <1>3

\* Steps of yylex on n characters that return no token.
LEMMA SkipIInv ==
    ASSUME IInv, NEW n \in 1..(Len(text) - position),
           position' = position + n, UNCHANGED <<text, tokens, line_num>>,
           \A j \in 1..n : Lexeme(n)[j] # "\n",
           condition' \in {"INITIAL", "IN_COMMENT"}, opened' \in 0..position', done' \in BOOLEAN,
           NoEndBehind'
    PROVE  IInv'
<1>1. position \in 0..Len(text) /\ text \in Seq(Range(text))
  BY DEF IInv, TypeOK
<1>2. Uncounted(position + n, tokens) = Uncounted(position, tokens)
  BY <1>1, PassOver
<1>3. Uncounted(position, tokens)' = Uncounted(position, tokens)
  BY <1>2 DEF Uncounted
<1>4. TypeOK'
  <2>1. position' \in 0..Len(text)
    BY <1>1
  <2>2. \A t \in Range(tokens) : t.first \in Nat /\ t.last \in 0..position' /\ t.line \in Nat
    BY <1>1 DEF IInv, TypeOK
  <2> QED BY <2>1, <2>2 DEF IInv, TypeOK
<1> QED BY <1>3, <1>4 DEF IInv

\* A newline that counts.
LEMMA NewlineIInv ==
    ASSUME IInv, position + 1 \in 1..Len(text), text[position + 1] = "\n",
           position' = position + 1, line_num' = line_num + 1,
           UNCHANGED <<text, tokens, condition, opened, done>>
    PROVE  IInv'
<1>1. position \in 0..Len(text) /\ position \in Nat
  BY DEF IInv, TypeOK
<1>2. Uncounted(position, tokens)' = Uncounted(position + 1, tokens)
  BY DEF Uncounted
<1>3. line_num' = 1 + Cardinality(Uncounted(position, tokens)')
  BY <1>1, <1>2, PassNewline, UncountedFinite DEF IInv
<1>4. TypeOK'
  <2>1. position' \in 0..Len(text)
    BY <1>1
  <2>2. \A t \in Range(tokens) : t.first \in Nat /\ t.last \in 0..position' /\ t.line \in Nat
    BY <1>1 DEF IInv, TypeOK
  <2>3. opened' \in 0..position'
    BY <1>1 DEF IInv, TypeOK
  <2>4. line_num' \in Nat \ {0}
    BY DEF IInv, TypeOK
  <2> QED BY <2>1, <2>2, <2>3, <2>4 DEF IInv, TypeOK
<1>5. NoEndBehind'
  <2>1. text[position + 1] # "*"
    OBVIOUS
  <2> QED BY <1>1, <2>1 DEF IInv, NoEndBehind, TypeOK
<1> QED BY <1>3, <1>4, <1>5 DEF IInv

\* A token.
LEMMA TokenIInv ==
    ASSUME IInv, NEW n \in 1..(Len(text) - position),
           NEW t, t.first = position + 1, t.last = position + n, t.line = line_num,
           position' = position + n, tokens' = Append(tokens, t), condition = "INITIAL",
           UNCHANGED <<text, line_num, condition, opened, done>>
    PROVE  IInv'
<1>1. position \in 0..Len(text) /\ position \in Nat /\ t.line \in Nat
  BY DEF IInv, TypeOK
<1>2. /\ Uncounted(position + n, Append(tokens, t)) = Uncounted(position, tokens)
      /\ Append(tokens, t) \in Seq(Range(Append(tokens, t)))
      /\ Range(Append(tokens, t)) = Range(tokens) \union {t}
  BY <1>1, PassToken
<1>3. Uncounted(position, tokens)' = Uncounted(position, tokens)
  BY <1>2 DEF Uncounted
<1>4. TypeOK'
  <2>1. position' \in 0..Len(text)
    BY <1>1
  <2>2. \A s \in Range(tokens') : s.first \in Nat /\ s.last \in 0..position' /\ s.line \in Nat
    BY <1>1, <1>2 DEF IInv, TypeOK
  <2>3. opened' \in 0..position' /\ tokens' \in Seq(Range(tokens'))
    BY <1>1, <1>2 DEF IInv, TypeOK
  <2> QED BY <2>1, <2>2, <2>3 DEF IInv, TypeOK
<1>5. NoEndBehind'
  BY DEF NoEndBehind
<1> QED BY <1>3, <1>4, <1>5 DEF IInv

\* One match.
LEMMA MatchIInv ==
    ASSUME IInv, ~done, UNCHANGED text,
           NEW k \in 1..Len(Patterns), NEW n \in 1..(Len(text) - position),
           Best(k, n), position' = position + n, Act(Patterns[k], n)
    PROVE  IInv'
<1> DEFINE p == Patterns[k]
           w == Lexeme(n)
<1>1. /\ position \in 0..Len(text) /\ position \in Nat /\ text \in Seq(Range(text))
      /\ opened \in 0..position /\ n \in Nat /\ n >= 1
  BY DEF IInv, TypeOK
<1>2. /\ Len(w) = n /\ \A j \in 1..n : w[j] = text[position + j]
      /\ position + n \in 0..Len(text)
  BY <1>1, LexemeIs
<1>3. (p \in OfComments <=> condition = "IN_COMMENT") /\ Matches(p, w)
  BY DEF Best, Candidate
<1> HIDE DEF p, w
<1>4. CASE p \in {"blank", "line comment"}
  <2>1. \A j \in 1..n : w[j] # "\n"
    <3>1. IsLineComment(w) \/ (Len(w) = 1 /\ w[1] \in Blanks)
      BY <1>3, <1>4 DEF Matches
    <3>2. CASE IsLineComment(w)
      <4>1. w[1] = "/" /\ w[2] = "/" /\ \A j \in 3..n : w[j] # "\n"
        BY <1>2, <3>2 DEF IsLineComment, No
      <4>2. \A j \in 1..n : j = 1 \/ j = 2 \/ j \in 3..n
        BY <1>1
      <4> QED BY <4>1, <4>2
    <3>3. CASE Len(w) = 1 /\ w[1] \in Blanks
      <4>1. n = 1
        BY <1>2, <3>3
      <4>2. w[1] # "\n"
        BY <3>3 DEF Blanks
      <4> QED BY <4>1, <4>2
    <3> QED BY <3>1, <3>2, <3>3
  <2>2. condition # "IN_COMMENT"
    BY <1>3, <1>4 DEF OfComments
  <2>3. UNCHANGED <<condition, line_num, tokens, opened, done>>
    BY <1>4 DEF Act, p, Returning
  <2>4. NoEndBehind' /\ opened' \in 0..position' /\ condition' \in {"INITIAL", "IN_COMMENT"} /\ done' \in BOOLEAN
    BY <1>1, <2>2, <2>3 DEF NoEndBehind, IInv, TypeOK
  <2> QED BY <2>1, <2>3, <2>4, SkipIInv DEF w
<1>5. CASE p = "chunk"
  <2>1. \A j \in 1..n : w[j] # "\n" /\ w[j] # "*"
    BY <1>1, <1>2, <1>3, <1>5 DEF Matches, IsChunk, No
  <2>2. UNCHANGED <<condition, line_num, tokens, opened, done>>
    BY <1>5 DEF Act, p, Returning
  <2>3. \A i \in (position + 1)..(position + n) : text[i] # "*"
    <3>1. ASSUME NEW i \in (position + 1)..(position + n) PROVE text[i] # "*"
      <4>1. i - position \in 1..n /\ position + (i - position) = i
        BY <1>1
      <4> QED BY <1>2, <2>1, <4>1
    <3> QED BY <3>1
  <2>4. NoEndBehind'
    BY <1>1, <2>2, <2>3 DEF NoEndBehind, IInv
  <2>5. opened' \in 0..position' /\ condition' \in {"INITIAL", "IN_COMMENT"} /\ done' \in BOOLEAN
    BY <1>1, <2>2 DEF IInv, TypeOK
  <2> QED BY <2>1, <2>2, <2>4, <2>5, SkipIInv DEF w
<1>6. CASE p = "star"
  <2>1. n = 1 /\ w[1] = "*"
    <3>1. w = <<"*">>
      BY <1>3, <1>6 DEF Matches, IsStar
    <3> QED BY <1>2, <3>1
  <2>2. UNCHANGED <<condition, line_num, tokens, opened, done>>
    BY <1>6 DEF Act, p, Returning
  <2>3. condition = "IN_COMMENT"
    BY <1>3, <1>6 DEF OfComments
  <2>4. ASSUME position + 1 < Len(text), text[position + 2] = "/" PROVE FALSE
    <3>1. 2 \in 1..(Len(text) - position)
      BY <1>1, <2>4
    <3>2. Lexeme(2) = <<"*", "/">>
      <4>1. Len(Lexeme(2)) = 2 /\ Lexeme(2)[1] = text[position + 1] /\ Lexeme(2)[2] = text[position + 2]
        <5>1. Len(Lexeme(2)) = 2 /\ \A j \in 1..2 : Lexeme(2)[j] = text[position + j]
          BY <1>1, <3>1, LexemeIs
        <5> QED BY <5>1
      <4>2. text[position + 1] = "*"
        BY <1>2, <2>1
      <4>3. Lexeme(2) \in Seq(Range(text))
        <5>1. position + 1 \in 1..Len(text) /\ position + 2 \in 1..Len(text)
          BY <1>1, <2>4
        <5> QED BY <1>1, <5>1 DEF Lexeme
      <4> QED BY <2>4, <4>1, <4>2, <4>3
    <3>3. 10 \in 1..Len(Patterns) /\ Patterns[10] = "close comment"
      BY CloseComment
    <3>4. Candidate(10, 2)
      BY <2>3, <3>2, <3>3 DEF Candidate, OfComments, Matches
    <3>5. 2 < n \/ (2 = n /\ k <= 10)
      BY <3>1, <3>3, <3>4 DEF Best
    <3> QED BY <2>1, <3>5
  <2>5. NoEndBehind'
    <3>1. \A i \in (opened + 2)..(position + 1) : i < Len(text) => ~(text[i] = "*" /\ text[i + 1] = "/")
      <4>1. \A i \in (opened + 2)..position : i < Len(text) => ~(text[i] = "*" /\ text[i + 1] = "/")
        BY <2>3 DEF IInv, NoEndBehind
      <4>2. position + 1 < Len(text) => text[(position + 1) + 1] # "/"
        BY <1>1, <2>4
      <4> QED BY <1>1, <4>1, <4>2
    <3> QED BY <2>1, <2>2, <3>1 DEF NoEndBehind
  <2>6. opened' \in 0..position' /\ condition' \in {"INITIAL", "IN_COMMENT"} /\ done' \in BOOLEAN
    BY <1>1, <2>2 DEF IInv, TypeOK
  <2>7. \A j \in 1..n : Lexeme(n)[j] # "\n"
    BY <2>1 DEF w
  <2> QED BY <2>2, <2>5, <2>6, <2>7, SkipIInv
<1>7. CASE p \in {"newline", "comment newline"}
  <2>1. n = 1 /\ w[1] = "\n"
    <3>1. w = <<"\n">>
      BY <1>3, <1>7 DEF Matches
    <3> QED BY <1>2, <3>1
  <2>2. line_num' = line_num + 1 /\ UNCHANGED <<condition, tokens, opened, done>>
    BY <1>7 DEF Act, p, Returning
  <2>3. position + 1 \in 1..Len(text) /\ text[position + 1] = "\n"
    BY <1>1, <1>2, <2>1
  <2> QED BY <2>1, <2>2, <2>3, NewlineIInv
<1>8. CASE p = "open comment"
  <2>1. n = 2 /\ w = <<"/", "*">>
    BY <1>2, <1>3, <1>8 DEF Matches
  <2>2. condition' = "IN_COMMENT" /\ opened' = position + 1 /\ UNCHANGED <<line_num, tokens, done>>
    BY <1>8 DEF Act, p, Returning
  <2>3. NoEndBehind'
    <3>1. \A i \in (position + 3)..(position + 2) : FALSE
      BY <1>1
    <3>2. (opened + 2)' = position + 3 /\ position' = position + 2
      BY <1>1, <2>1, <2>2
    <3>3. text[position + 2] = "*"
      BY <1>2, <2>1
    <3> QED BY <3>1, <3>2 DEF NoEndBehind
  <2>4. opened' \in 0..position' /\ done' \in BOOLEAN
    BY <1>1, <2>1, <2>2 DEF IInv, TypeOK
  <2>5. \A j \in 1..n : Lexeme(n)[j] # "\n"
    BY <2>1 DEF w
  <2> QED BY <2>2, <2>3, <2>4, <2>5, SkipIInv
<1>9. CASE p = "close comment"
  <2>1. n = 2 /\ w = <<"*", "/">>
    BY <1>2, <1>3, <1>9 DEF Matches
  <2>2. condition' = "INITIAL" /\ UNCHANGED <<line_num, tokens, opened, done>>
    BY <1>9 DEF Act, p, Returning
  <2>3. NoEndBehind'
    BY <2>2 DEF NoEndBehind
  <2>4. opened' \in 0..position' /\ done' \in BOOLEAN
    BY <1>1, <2>2 DEF IInv, TypeOK
  <2>5. \A j \in 1..n : Lexeme(n)[j] # "\n"
    BY <2>1 DEF w
  <2> QED BY <2>2, <2>3, <2>4, <2>5, SkipIInv
<1>10. CASE p \in Returning
  <2> DEFINE t == [kind |-> TokenOf(p, w), text |-> w,
                   first |-> position + 1, last |-> position + n, line |-> line_num]
  <2>1. tokens' = Append(tokens, t) /\ UNCHANGED <<condition, line_num, opened, done>>
    BY <1>10 DEF Act, p, w, Returning
  <2>2. t.first = position + 1 /\ t.last = position + n /\ t.line = line_num
    OBVIOUS
  <2>3. condition = "INITIAL"
    BY <1>3, <1>10 DEF OfComments, Returning, IInv, TypeOK
  <2> HIDE DEF t
  <2> QED BY <2>1, <2>2, <2>3, TokenIInv
<1>11. CASE p = "unknown"
  <2>1. n = 1 /\ w[1] # "\n"
    BY <1>2, <1>3, <1>11 DEF Matches
  <2>2. done' = TRUE /\ UNCHANGED <<condition, line_num, tokens, opened>>
    BY <1>11 DEF Act, p, Returning
  <2>3. condition # "IN_COMMENT"
    BY <1>3, <1>11 DEF OfComments
  <2>4. NoEndBehind' /\ opened' \in 0..position' /\ condition' \in {"INITIAL", "IN_COMMENT"}
    BY <1>1, <2>2, <2>3 DEF NoEndBehind, IInv, TypeOK
  <2>5. \A j \in 1..n : Lexeme(n)[j] # "\n"
    BY <2>1 DEF w
  <2> QED BY <2>2, <2>4, <2>5, SkipIInv
<1>12. \/ p \in {"blank", "line comment", "chunk", "star", "newline", "comment newline",
                 "open comment", "close comment", "unknown"}
       \/ p \in Returning
  BY DEF Act, p
<1> QED BY <1>4, <1>5, <1>6, <1>7, <1>8, <1>9, <1>10, <1>11, <1>12

LEMMA NextIInv == ASSUME IInv, [Next]_vars PROVE IInv'
<1>1. CASE Match
  BY <1>1, MatchIInv DEF Match
<1>2. CASE EndOfFile \/ UNCHANGED vars
  <2>1. UNCHANGED <<text, position, condition, line_num, tokens, opened>> /\ done' \in BOOLEAN
    BY <1>2 DEF EndOfFile, vars, IInv, TypeOK
  <2> QED BY <2>1 DEF IInv, TypeOK, NoEndBehind, Uncounted
<1> QED BY <1>1, <1>2 DEF Next

-----------------------------------------------------------------------------
(* The theorems.                                                             *)

LEMMA Inductive == Spec => []IInv
<1>1. Init => IInv
  BY InitIInv
<1>2. IInv /\ [Next]_vars => IInv'
  BY NextIInv
<1> QED BY <1>1, <1>2, PTL DEF Spec

\* The variables of the scanner keep their types, every token lies in what has
\* been consumed.
THEOREM TypeCorrect == Spec => []TypeOK
<1>1. IInv => TypeOK
  BY DEF IInv
<1> QED BY <1>1, Inductive, PTL

\* line_num counts every newline of the file, whatever comments and literals
\* it holds, but those inside a token.
THEOREM LinesAreCounted == Spec => []LinesCounted
<1>1. IInv => LinesCounted
  BY DEF IInv, LinesCounted, Uncounted, InToken
<1> QED BY <1>1, Inductive, PTL

\* A comment ends at the first */ behind its beginning: a lone star is eaten
\* only where the longer match is not to be had.
THEOREM CommentsAreClosed == Spec => []CommentsClose
<1>1. ASSUME IInv PROVE CommentsClose
  <2>1. ASSUME condition = "IN_COMMENT", NEW i \in (opened + 2)..(position - 1)
        PROVE  ~(text[i] = "*" /\ text[i + 1] = "/")
    <3>1. position \in 0..Len(text) /\ opened \in Nat /\ Len(text) \in Nat
      BY <1>1 DEF IInv, TypeOK
    <3>2. i \in (opened + 2)..position /\ i < Len(text)
      BY <2>1, <3>1
    <3> QED BY <1>1, <2>1, <3>2 DEF IInv, NoEndBehind
  <2> QED BY <2>1 DEF CommentsClose
<1> QED BY <1>1, Inductive, PTL

-----------------------------------------------------------------------------
(* What is passed over.                                                      *)

\* An open comment began with its pair, in no token.
CommentOpened ==
    condition = "IN_COMMENT" =>
        opened \in 1..(position - 1) /\ Pair(opened, "/", "*") /\ ~InToken(opened)

Passed(i) ==
    \/ InToken(i)
    \/ text[i] \in Blanks \union {"\n"}
    \/ \E k \in 1..i : ~InToken(k) /\ InComment(k, i)

ReadInv == IInv /\ CommentOpened /\ NothingSkipped

\* No token is ahead of what has been read.
LEMMA NoTokenAhead ==
    ASSUME IInv, NEW j \in Nat, j > position
    PROVE  ~InToken(j)
<1>1. position \in Nat /\ \A t \in Range(tokens) : t.last \in 0..position
  BY DEF IInv, TypeOK
<1> QED BY <1>1 DEF InToken

\* What has been passed stays so, whatever is read next.
LEMMA StillPassed ==
    ASSUME IInv, UNCHANGED text, NEW i \in 1..position, Passed(i),
           \A j \in 1..position : InToken(j)' <=> InToken(j)
    PROVE  Passed(i)'
<1>1. position \in Nat
  BY DEF IInv, TypeOK
<1>2. CASE InToken(i) \/ text[i] \in Blanks \union {"\n"}
  BY <1>2 DEF Passed
<1>3. CASE \E k \in 1..i : ~InToken(k) /\ InComment(k, i)
  <2>1. PICK k \in 1..i : ~InToken(k) /\ InComment(k, i)
    BY <1>3
  <2>2. k \in 1..position
    BY <1>1
  <2>3. ~InToken(k)' /\ InComment(k, i)'
    BY <2>1, <2>2 DEF InComment, Pair
  <2> QED BY <2>3 DEF Passed
<1> QED BY <1>2, <1>3 DEF Passed

\* A match that passes over n characters, each of them rightly.
LEMMA PassesOver ==
    ASSUME ReadInv, IInv', ~done, UNCHANGED text, NEW n \in Nat, position' = position + n,
           \A j \in 1..position : InToken(j)' <=> InToken(j),
           \A i \in (position + 1)..(position + n) : Passed(i)',
           CommentOpened'
    PROVE  ReadInv'
<1>1. position \in Nat /\ position' \in Nat
  BY DEF ReadInv, IInv, TypeOK
<1>2. \A i \in 1..position : Passed(i)
  BY DEF ReadInv, NothingSkipped, Passed
<1>3. \A i \in 1..position : Passed(i)'
  BY <1>2, StillPassed DEF ReadInv
<1>4. \A i \in 1..position' : i \in 1..position \/ i \in (position + 1)..(position + n)
  BY <1>1
<1>5. \A i \in 1..position' : Passed(i)'
  BY <1>3, <1>4
<1>6. NothingSkipped'
  BY <1>5 DEF NothingSkipped, Passed
<1> QED BY <1>6 DEF ReadInv

\* One match.
LEMMA MatchReads ==
    ASSUME ReadInv, IInv', ~done, UNCHANGED text,
           NEW k \in 1..Len(Patterns), NEW n \in 1..(Len(text) - position),
           Best(k, n), position' = position + n, Act(Patterns[k], n)
    PROVE  ReadInv'
<1> DEFINE p == Patterns[k]
           w == Lexeme(n)
<1>1. /\ position \in 0..Len(text) /\ position \in Nat /\ text \in Seq(Range(text))
      /\ opened \in 0..position /\ n \in Nat /\ n >= 1 /\ Len(text) \in Nat
  BY DEF ReadInv, IInv, TypeOK
<1>2. /\ Len(w) = n /\ \A j \in 1..n : w[j] = text[position + j]
      /\ position + n \in 0..Len(text)
  BY <1>1, LexemeIs
<1>3. (p \in OfComments <=> condition = "IN_COMMENT") /\ Matches(p, w)
  BY DEF Best, Candidate
<1>4. \A j \in Nat : j > position => ~InToken(j)
  BY NoTokenAhead DEF ReadInv
<1> HIDE DEF p, w
<1>1a. PICK m \in Nat : m = position + 1
  BY <1>1
<1>5. ASSUME UNCHANGED tokens
      PROVE  /\ \A j \in Nat : InToken(j)' <=> InToken(j)
             /\ condition' # "IN_COMMENT" \/ UNCHANGED <<condition, opened>> => CommentOpened'
  <2>1. \A j \in Nat : InToken(j)' <=> InToken(j)
    BY <1>5 DEF InToken
  <2>2. ASSUME UNCHANGED <<condition, opened>>, condition = "IN_COMMENT" PROVE CommentOpened'
    <3>1. opened \in 1..(position - 1) /\ Pair(opened, "/", "*") /\ ~InToken(opened)
      BY <2>2 DEF ReadInv, CommentOpened
    <3>2. opened' \in 1..(position' - 1) /\ Pair(opened, "/", "*")' /\ ~InToken(opened)'
      BY <1>1, <2>1, <2>2, <3>1 DEF Pair
    <3> QED BY <3>2 DEF CommentOpened
  <2> QED BY <2>1, <2>2 DEF CommentOpened
<1>6. CASE p \in {"blank", "newline", "comment newline"}
  <2>1. n = 1 /\ w[1] \in Blanks \union {"\n"}
    <3>1. CASE Len(w) = 1 /\ w[1] \in Blanks
      BY <1>2, <3>1
    <3>2. CASE w = <<"\n">>
      <4>1. Len(w) = 1 /\ w[1] = "\n"
        BY <3>2
      <4> QED BY <1>2, <4>1
    <3>3. (Len(w) = 1 /\ w[1] \in Blanks) \/ w = <<"\n">>
      BY <1>3, <1>6 DEF Matches
    <3> QED BY <3>1, <3>2, <3>3
  <2>2. UNCHANGED <<condition, tokens, opened, done>>
    BY <1>6 DEF Act, p, Returning
  <2>3. \A i \in (position + 1)..(position + n) : text[i] \in Blanks \union {"\n"}
    BY <1>1, <1>2, <2>1
  <2>4. \A i \in (position + 1)..(position + n) : Passed(i)'
    BY <2>3 DEF Passed
  <2> QED BY <1>1, <1>5, <2>2, <2>4, PassesOver
<1>7. CASE p = "line comment"
  <2>1. IsLineComment(w) /\ UNCHANGED <<condition, tokens, opened, done>>
    BY <1>3, <1>7 DEF Matches, Act, p, Returning
  <2>2. n >= 2 /\ w[1] = "/" /\ w[2] = "/" /\ \A j \in 3..n : w[j] # "\n"
    BY <1>2, <2>1 DEF IsLineComment, No
  <2>3. Pair(position + 1, "/", "/")
    BY <1>1, <1>2, <2>2 DEF Pair
  <2>4. \A j \in (position + 1)..(position + n) : text[j] # "\n"
    <3>1. ASSUME NEW j \in (position + 1)..(position + n) PROVE text[j] # "\n"
      <4>1. j - position \in 1..n /\ position + (j - position) = j
        BY <1>1
      <4>2. j - position = 1 \/ j - position = 2 \/ j - position \in 3..n
        BY <1>1, <4>1
      <4> QED BY <1>2, <2>2, <4>1, <4>2
    <3> QED BY <3>1
  <2>5. ASSUME NEW i \in (position + 1)..(position + n) PROVE Passed(i)'
    <3>1. m \in 1..i /\ ~InToken(m)'
      BY <1>1, <1>4, <1>5, <1>1a, <2>1
    <3>2. \A j \in m..i : text[j] # "\n"
      BY <1>1, <1>1a, <2>4
    <3>3. InComment(m, i)
      BY <1>1a, <2>3, <3>2 DEF InComment
    <3>4. InComment(m, i)'
      BY <3>3 DEF InComment, Pair
    <3> QED BY <3>1, <3>4 DEF Passed
  <2> QED BY <1>1, <1>5, <2>1, <2>5, PassesOver
<1>8. CASE p = "open comment"
  <2>1. n = 2 /\ w[1] = "/" /\ w[2] = "*"
    <3>1. w = <<"/", "*">>
      BY <1>3, <1>8 DEF Matches
    <3> QED BY <1>2, <3>1
  <2>2. opened' = position + 1 /\ UNCHANGED <<tokens, done>>
    BY <1>8 DEF Act, p, Returning
  <2>3. Pair(m, "/", "*") /\ ~InToken(m)'
    BY <1>1, <1>2, <1>4, <1>5, <1>1a, <2>1, <2>2 DEF Pair
  <2>4. CommentOpened'
    <3>1. opened' \in 1..(position' - 1)
      BY <1>1, <2>1, <2>2
    <3>2. Pair(opened, "/", "*")'
      BY <1>1a, <2>2, <2>3 DEF Pair
    <3>3. ~InToken(opened)'
      BY <1>1a, <2>2, <2>3 DEF InToken
    <3> QED BY <3>1, <3>2, <3>3 DEF CommentOpened
  <2>5. ASSUME NEW i \in (position + 1)..(position + n) PROVE Passed(i)'
    <3>1. m \in 1..i /\ \A j \in (m + 2)..(i - 2) : FALSE
      BY <1>1, <1>1a, <2>1
    <3>2. InComment(m, i)'
      BY <2>3, <3>1 DEF InComment, Pair
    <3> QED BY <2>3, <3>1, <3>2 DEF Passed
  <2> QED BY <1>1, <1>5, <2>2, <2>4, <2>5, PassesOver
<1>9. CASE p \in {"chunk", "star", "close comment"}
  <2>1. condition = "IN_COMMENT"
    BY <1>3, <1>9 DEF OfComments
  <2>2. UNCHANGED <<tokens, opened, done>> /\ (UNCHANGED condition \/ condition' # "IN_COMMENT")
    BY <1>9 DEF Act, p, Returning
  <2>3. opened \in 1..(position - 1) /\ Pair(opened, "/", "*") /\ ~InToken(opened)
    BY <2>1 DEF ReadInv, CommentOpened
  <2>4. \A j \in (position + 1)..(position + n - 2) : text[j] # "*"
    <3>1. CASE p = "chunk"
      <4>1. \A j \in 1..n : w[j] # "*"
        BY <1>2, <1>3, <3>1 DEF Matches, IsChunk, No
      <4>2. \A j \in (position + 1)..(position + n - 2) :
                j - position \in 1..n /\ position + (j - position) = j
        BY <1>1
      <4> QED BY <1>2, <4>1, <4>2
    <3>2. CASE p # "chunk"
      <4>1. w = <<"*">> \/ w = <<"*", "/">>
        BY <1>3, <1>9, <3>2 DEF Matches, IsStar
      <4>2. n = 1 \/ n = 2
        BY <1>2, <4>1
      <4> QED BY <1>1, <4>2
    <3> QED BY <3>1, <3>2
  <2>5. ASSUME NEW i \in (position + 1)..(position + n) PROVE Passed(i)'
    <3>1. ASSUME NEW j \in (opened + 2)..(i - 2) PROVE ~Pair(j, "*", "/")
      <4>1. j \in (opened + 2)..position \/ j \in (position + 1)..(position + n - 2)
        BY <1>1
      <4> QED BY <2>1, <2>4, <4>1 DEF ReadInv, IInv, NoEndBehind, Pair
    <3>2. InComment(opened, i)
      BY <2>3, <3>1 DEF InComment
    <3>3. InComment(opened, i)'
      BY <2>2, <3>2 DEF InComment, Pair
    <3>4. opened \in 1..i /\ ~InToken(opened)'
      BY <1>1, <2>2, <2>3 DEF InToken
    <3> QED BY <2>2, <3>3, <3>4 DEF Passed
  <2> QED BY <1>1, <1>5, <2>2, <2>5, PassesOver
<1>10. CASE p \in Returning
  <2> DEFINE t == [kind |-> TokenOf(p, w), text |-> w,
                   first |-> position + 1, last |-> position + n, line |-> line_num]
  <2>1. tokens' = Append(tokens, t) /\ UNCHANGED condition
    BY <1>10 DEF Act, p, w, Returning
  <2>2. t.first = position + 1 /\ t.last = position + n /\ t.line \in Nat
    BY DEF ReadInv, IInv, TypeOK
  <2>3. condition # "IN_COMMENT"
    BY <1>3, <1>10 DEF OfComments, Returning
  <2> HIDE DEF t
  <2>4. Range(tokens') = Range(tokens) \union {t}
    BY <2>1, <2>2, PassToken DEF ReadInv
  <2>5. \A j \in 1..position : InToken(j)' <=> InToken(j)
    <3>1. \A j \in 1..position : ~(t.first <= j)
      BY <1>1, <2>2
    <3> QED BY <2>4, <3>1 DEF InToken
  <2>6. \A i \in (position + 1)..(position + n) : Passed(i)'
    BY <1>1, <2>2, <2>4 DEF InToken, Passed
  <2> QED BY <1>1, <2>1, <2>3, <2>5, <2>6, PassesOver DEF CommentOpened
<1>11. CASE p = "unknown"
  <2>1. done' = TRUE /\ condition' # "IN_COMMENT"
    BY <1>3, <1>11 DEF Act, p, Returning, OfComments
  <2> QED BY <2>1 DEF ReadInv, CommentOpened, NothingSkipped
<1>12. \/ p \in {"blank", "line comment", "chunk", "star", "newline", "comment newline",
                 "open comment", "close comment", "unknown"}
       \/ p \in Returning
  BY DEF Act, p
<1> QED BY <1>6, <1>7, <1>8, <1>9, <1>10, <1>11, <1>12

\* What is passed over without a token is blank, a newline or in a comment,
\* for every file: the longest match never reaches into the program.
THEOREM NothingIsSkipped == Spec => []NothingSkipped
<1>1. Init /\ IInv => ReadInv
  <2>1. Init => CommentOpened /\ NothingSkipped
    BY DEF Init, CommentOpened, NothingSkipped
  <2> QED BY <2>1 DEF ReadInv
<1>2. ReadInv /\ IInv' /\ [Next]_vars => ReadInv'
  <2> SUFFICES ASSUME ReadInv, IInv', [Next]_vars PROVE ReadInv'
    OBVIOUS
  <2>1. CASE Match
    BY <2>1, MatchReads DEF Match
  <2>2. CASE EndOfFile
    BY <2>2 DEF EndOfFile, ReadInv, CommentOpened, NothingSkipped, Pair, InToken
  <2>3. CASE UNCHANGED vars
    BY <2>3 DEF vars, ReadInv, CommentOpened, NothingSkipped, InToken, InComment, Pair
  <2> QED BY <2>1, <2>2, <2>3 DEF Next
<1>3. ReadInv => NothingSkipped
  BY DEF ReadInv
<1> QED BY <1>1, <1>2, <1>3, Inductive, PTL DEF Spec
=============================================================================
