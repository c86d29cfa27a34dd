---------------------------- MODULE TokenStreamProofs ----------------------------
(***************************************************************************)
(* What reading a source promises, for every source: from where the loops  *)
(* of the scanner stop, over what one call of GetNextToken returns, to     *)
(* what holds between the calls.                                           *)
(***************************************************************************)
EXTENDS TokenStream, InductionLemmas, FiniteSetTheorems

(***************************************************************************)
(* The places where the loops of the scanner stop.                         *)
(***************************************************************************)

LEMMA MinIsLeast ==
  ASSUME NEW T, T \subseteq Nat, T # {}
  PROVE  Min(T) \in T /\ \A t \in T : Min(T) <= t
<1>1. \E least \in T : \A t \in T : least <= t
  BY LeastElement
<1>2. QED
  BY <1>1 DEF Min

\* The first index from i on where p holds, or else the end of the source.
LEMMA FirstIndex ==
  ASSUME Length \in Nat, NEW i \in 0..Length, NEW P,
         NEW e, e = Min({j \in i..Length : j < Length => j \in P})
  PROVE  /\ e \in i..Length
         /\ \A k \in i..(e - 1) : k \notin P
         /\ e < Length => e \in P
<1> DEFINE T == {j \in i..Length : j < Length => j \in P}
<1>1. T \subseteq Nat /\ Length \in T
  OBVIOUS
<1>2. e \in T /\ \A t \in T : e <= t
  <2> HIDE DEF T
  <2>1. T # {}
    BY <1>1
  <2>2. e = Min(T)
    BY DEF T
  <2>3. QED
    BY <1>1, <2>1, <2>2, MinIsLeast
<1>3. ASSUME NEW k \in i..(e - 1), k \in P
      PROVE  FALSE
  <2>1. k \in i..Length
    BY <1>2
  <2>2. k \in T
    BY <1>3, <2>1
  <2>3. QED
    BY <1>2, <2>2
<1>4. QED
  BY <1>2, <1>3

LEMMA FirstOfFound ==
  ASSUME Length \in Nat, NEW i \in 0..Length, NEW c
  PROVE  /\ FirstOf(i, c) \in i..Length
         /\ \A k \in i..(FirstOf(i, c) - 1) : Char(k) # c
         /\ FirstOf(i, c) < Length => Char(FirstOf(i, c)) = c
<1> DEFINE P == {k \in 0..Length : Char(k) = c}
<1>1. {j \in i..Length : j < Length => Char(j) = c} = {j \in i..Length : j < Length => j \in P}
  OBVIOUS
<1>2. FirstOf(i, c) = Min({j \in i..Length : j < Length => j \in P})
  BY <1>1 DEF FirstOf
<1> HIDE DEF P
<1>3. /\ FirstOf(i, c) \in i..Length
      /\ \A k \in i..(FirstOf(i, c) - 1) : k \notin P
      /\ FirstOf(i, c) < Length => FirstOf(i, c) \in P
  BY <1>2, FirstIndex
<1>4. \A k \in i..(FirstOf(i, c) - 1) : k \in 0..Length
  BY <1>3
<1>5. QED
  BY <1>3, <1>4 DEF P

LEMMA RunEnds ==
  ASSUME Length \in Nat, NEW i \in 0..Length, NEW class
  PROVE  /\ EndOfRun(i, class) \in i..Length
         /\ \A k \in i..(EndOfRun(i, class) - 1) : Char(k) \in class
         /\ EndOfRun(i, class) < Length => Char(EndOfRun(i, class)) \notin class
<1> DEFINE P == {k \in 0..Length : Char(k) \notin class}
<1>1. {j \in i..Length : j < Length => Char(j) \notin class}
        = {j \in i..Length : j < Length => j \in P}
  OBVIOUS
<1>2. EndOfRun(i, class) = Min({j \in i..Length : j < Length => j \in P})
  BY <1>1 DEF EndOfRun
<1> HIDE DEF P
<1>3. /\ EndOfRun(i, class) \in i..Length
      /\ \A k \in i..(EndOfRun(i, class) - 1) : k \notin P
      /\ EndOfRun(i, class) < Length => EndOfRun(i, class) \in P
  BY <1>2, FirstIndex
<1>4. \A k \in i..(EndOfRun(i, class) - 1) : k \in 0..Length
  BY <1>3
<1>5. QED
  BY <1>3, <1>4 DEF P

-------------------------------------------------------------------------------
(***************************************************************************)
(* Where consumeWhitespacesAndComments stops.                              *)
(***************************************************************************)
SkipFrom(skip, i) ==
  IF i = Length THEN i
  ELSE IF Char(i) \in Whitespace THEN skip[i + 1]
  ELSE IF CommentAt(i) THEN skip[FirstOf(i, "\n")]
  ELSE i

\* A comment ends behind its second slash, before the next line.
LEMMA CommentEnds ==
  ASSUME Length \in Nat, NEW i \in 0..(Length - 1), CommentAt(i)
  PROVE  FirstOf(i, "\n") \in (i + 2)..Length
<1> DEFINE e == FirstOf(i, "\n")
<1>1. /\ e \in i..Length /\ (e < Length => Char(e) = "\n")
  BY FirstOfFound
<1>2. Char(i) = "/" /\ Char(i + 1) = "/" /\ i + 1 < Length
  BY DEF CommentAt
<1> HIDE DEF e
<1>3. e # i /\ e # i + 1
  BY <1>1, <1>2
<1>4. QED
  BY <1>1, <1>3 DEF e

LEMMA SkipsAll ==
  ASSUME Length \in Nat
  PROVE  \E skip : /\ \A i \in 0..Length : skip[i] = SkipFrom(skip, i)
                   /\ AfterBlanks = skip[m_current_index]
<1> DEFINE Skips(skip, from) == skip = [i \in from..Length |-> SkipFrom(skip, i)]
           Done == {n \in Nat : n <= Length => \E skip : Skips(skip, Length - n)}
<1>1. 0 \in Done
  <2> DEFINE one == [i \in Length..Length |-> i]
  <2>1. \A i \in Length..Length : SkipFrom(one, i) = i
    BY DEF SkipFrom
  <2>2. one = [i \in (Length - 0)..Length |-> SkipFrom(one, i)]
    BY <2>1
  <2> HIDE DEF one
  <2>3. QED
    BY <2>2
<1>2. ASSUME NEW n \in Nat, n \in Done
      PROVE  n + 1 \in Done
  <2> SUFFICES ASSUME n + 1 <= Length
               PROVE  \E skip : Skips(skip, Length - (n + 1))
    OBVIOUS
  <2> DEFINE from == Length - n
             first == Length - (n + 1)
  <2>1. PICK old : Skips(old, from)
    BY <1>2
  <2>2. \A i \in from..Length : old[i] = SkipFrom(old, i)
    BY <2>1
  <2> DEFINE new == [i \in first..Length |-> IF i = first THEN SkipFrom(old, i) ELSE old[i]]
  <2>3. \A i \in from..Length : new[i] = old[i] /\ i \in first..Length /\ i # first
    OBVIOUS
  <2>4. ASSUME NEW i \in first..Length
        PROVE  SkipFrom(new, i) = SkipFrom(old, i)
    <3>1. CASE i = Length
      BY <3>1 DEF SkipFrom
    <3>2. CASE i # Length
      <4>1. i \in 0..(Length - 1) /\ i + 1 \in from..Length
        BY <3>2
      <4>2. CommentAt(i) => FirstOf(i, "\n") \in from..Length
        <5>1. CommentAt(i) => FirstOf(i, "\n") \in (i + 2)..Length
          BY <4>1, CommentEnds
        <5>2. QED
          BY <4>1, <5>1
      <4> HIDE DEF new
      <4>3. QED
        BY <2>3, <3>2, <4>1, <4>2 DEF SkipFrom
    <3>3. QED
      BY <3>1, <3>2
  <2>5. \A i \in first..Length : new[i] = SkipFrom(old, i)
    <3>1. \A i \in first..Length : i = first \/ i \in from..Length
      OBVIOUS
    <3>2. new[first] = SkipFrom(old, first)
      OBVIOUS
    <3> HIDE DEF new
    <3>3. QED
      BY <2>2, <2>3, <3>1, <3>2
  <2>6. new = [i \in first..Length |-> new[i]]
    OBVIOUS
  <2> HIDE DEF new
  <2>7. Skips(new, first)
    BY <2>4, <2>5, <2>6
  <2>8. QED
    BY <2>7
<1>3. \E skip : Skips(skip, 0)
  <2>1. Nat \subseteq Done
    <3> HIDE DEF Done
    <3>1. QED
      BY <1>1, <1>2, Induction
  <2>2. Length \in Done /\ Length - Length = 0
    BY <2>1
  <2>3. QED
    BY <2>2
<1> DEFINE skip == CHOOSE skip : Skips(skip, 0)
<1>4. Skips(skip, 0)
  BY <1>3
<1>5. AfterBlanks = skip[m_current_index]
  BY DEF AfterBlanks, SkipFrom
<1> HIDE DEF skip
<1>6. QED
  BY <1>4, <1>5

\* A stretch without line breaks.
LEMMA NoNewlines ==
  ASSUME NEW i \in Nat, NEW j \in Nat, \A k \in i..(j - 1) : Char(k) # "\n"
  PROVE  Newlines(i, j) = 0
<1>1. {k \in i..(j - 1) : Char(k) = "\n"} = {}
  OBVIOUS
<1>2. QED
  BY <1>1, FS_EmptySet DEF Newlines

LEMMA BlankJoin ==
  ASSUME NEW i \in Nat, NEW j \in Nat, NEW k \in Nat, i <= j, j <= k,
         Blank(i, j), Blank(j, k)
  PROVE  Blank(i, k)
<1> DEFINE Covers(first, last, b, x) ==
             /\ b + 1 < last /\ Char(b) = "/" /\ Char(b + 1) = "/" /\ Newlines(b, x) = 0
<1>1. SUFFICES ASSUME NEW x \in i..(k - 1), Char(x) \notin Whitespace
               PROVE  \E b \in i..x : b + 1 < k /\ Char(b) = "/" /\ Char(b + 1) = "/"
                                     /\ Newlines(b, x) = 0
  BY DEF Blank
<1>2. CASE x < j
  <2>1. x \in i..(j - 1)
    BY <1>2
  <2>2. PICK b \in i..x : /\ b + 1 < j /\ Char(b) = "/" /\ Char(b + 1) = "/"
                          /\ Newlines(b, x) = 0
    BY <1>1, <2>1 DEF Blank
  <2>3. b + 1 < k
    BY <2>2
  <2>4. QED
    BY <2>2, <2>3
<1>3. CASE x >= j
  <2>1. x \in j..(k - 1)
    BY <1>3
  <2>2. PICK b \in j..x : /\ b + 1 < k /\ Char(b) = "/" /\ Char(b + 1) = "/"
                          /\ Newlines(b, x) = 0
    BY <1>1, <2>1 DEF Blank
  <2>3. b \in i..x
    BY <2>2
  <2>4. QED
    BY <2>2, <2>3
<1>4. QED
  BY <1>2, <1>3

LEMMA CommentIsBlank ==
  ASSUME Length \in Nat, NEW i \in 0..(Length - 1), CommentAt(i)
  PROVE  Blank(i, FirstOf(i, "\n"))
<1> DEFINE e == FirstOf(i, "\n")
<1>1. e \in (i + 2)..Length
  BY CommentEnds
<1>2. \A k \in i..(e - 1) : Char(k) # "\n"
  BY FirstOfFound
<1> HIDE DEF e
<1>3. ASSUME NEW k \in i..(e - 1)
      PROVE  \E b \in i..k : /\ b + 1 < e /\ Char(b) = "/" /\ Char(b + 1) = "/"
                             /\ Newlines(b, k) = 0
  <2>1. Newlines(i, k) = 0
    <3>1. \A x \in i..(k - 1) : Char(x) # "\n"
      BY <1>1, <1>2
    <3>2. i \in Nat /\ k \in Nat
      BY <1>1
    <3>3. QED
      BY <3>1, <3>2, NoNewlines
  <2>2. Char(i) = "/" /\ Char(i + 1) = "/"
    BY DEF CommentAt
  <2>3. i \in i..k /\ i + 1 < e
    BY <1>1
  <2>4. QED
    BY <2>1, <2>2, <2>3
<1>4. QED
  BY <1>3 DEF Blank, e

\* What consumeWhitespacesAndComments passes over is blank, and it goes as far as it can.
LEMMA Skipped ==
  ASSUME Length \in Nat, m_current_index \in 0..Length
  PROVE  /\ AfterBlanks \in m_current_index..Length
         /\ Blank(m_current_index, AfterBlanks)
         /\ AfterBlanks < Length =>
              Char(AfterBlanks) \notin Whitespace /\ ~CommentAt(AfterBlanks)
<1> DEFINE Stops(i, e) ==
             /\ e \in i..Length /\ Blank(i, e)
             /\ e < Length => Char(e) \notin Whitespace /\ ~CommentAt(e)
<1>1. PICK skip : /\ \A i \in 0..Length : skip[i] = SkipFrom(skip, i)
                  /\ AfterBlanks = skip[m_current_index]
  BY SkipsAll
<1> DEFINE Done == {n \in Nat : \A i \in 0..Length : Length - i <= n => Stops(i, skip[i])}
<1>2. \A i \in 0..Length : Blank(i, i)
  BY DEF Blank
<1>3. 0 \in Done
  <2>1. ASSUME NEW i \in 0..Length, Length - i <= 0
        PROVE  Stops(i, skip[i])
    <3>1. i = Length
      BY <2>1
    <3>2. skip[i] = i
      BY <1>1, <3>1 DEF SkipFrom
    <3>3. QED
      BY <1>2, <3>1, <3>2
  <2>2. QED
    BY <2>1
<1>4. ASSUME NEW n \in Nat, n \in Done
      PROVE  n + 1 \in Done
  <2>1. \A i \in 0..Length : Length - i <= n => Stops(i, skip[i])
    BY <1>4
  <2>2. SUFFICES ASSUME NEW i \in 0..Length, Length - i = n + 1
                 PROVE  Stops(i, skip[i])
    <3>1. \A i \in 0..Length : Length - i <= n + 1 => Length - i <= n \/ Length - i = n + 1
      OBVIOUS
    <3> HIDE DEF Stops
    <3>2. QED
      BY <2>1, <3>1
  <2>3. i \in 0..(Length - 1)
    BY <2>2
  <2>4. skip[i] = SkipFrom(skip, i)
    BY <1>1
  <2>5. CASE Char(i) \in Whitespace
    <3>1. skip[i] = skip[i + 1]
      BY <2>3, <2>4, <2>5 DEF SkipFrom
    <3>2. i + 1 \in 0..Length /\ Length - (i + 1) <= n
      BY <2>2, <2>3
    <3>3. Stops(i + 1, skip[i + 1])
      BY <2>1, <3>2
    <3>4. Blank(i, i + 1)
      BY <2>5 DEF Blank
    <3>5. skip[i] \in i..Length /\ i <= i + 1 /\ i + 1 <= skip[i + 1] /\ skip[i + 1] \in Nat
      BY <3>1, <3>2, <3>3
    <3>6. Blank(i, skip[i + 1])
      BY <3>3, <3>4, <3>5, BlankJoin
    <3>7. QED
      BY <3>1, <3>3, <3>5, <3>6
  <2>6. CASE Char(i) \notin Whitespace /\ CommentAt(i)
    <3> DEFINE e == FirstOf(i, "\n")
    <3>1. skip[i] = skip[e]
      BY <2>3, <2>4, <2>6 DEF SkipFrom
    <3>2. e \in (i + 2)..Length
      BY <2>3, <2>6, CommentEnds
    <3>3. Blank(i, e)
      BY <2>3, <2>6, CommentIsBlank
    <3> HIDE DEF e
    <3>4. e \in 0..Length /\ Length - e <= n
      BY <2>2, <2>3, <3>2
    <3>5. Stops(e, skip[e])
      BY <2>1, <3>4
    <3>6. skip[i] \in i..Length /\ i <= e /\ e <= skip[e] /\ skip[e] \in Nat
      BY <3>1, <3>2, <3>4, <3>5
    <3>7. Blank(i, skip[e])
      BY <3>3, <3>4, <3>5, <3>6, BlankJoin
    <3>8. QED
      BY <3>1, <3>5, <3>6, <3>7
  <2>7. CASE Char(i) \notin Whitespace /\ ~CommentAt(i)
    <3>1. skip[i] = i
      BY <2>3, <2>4, <2>7 DEF SkipFrom
    <3>2. QED
      BY <1>2, <2>7, <3>1
  <2>8. QED
    BY <2>5, <2>6, <2>7
<1>5. Nat \subseteq Done
  <2> HIDE DEF Done
  <2>1. QED
    BY <1>3, <1>4, Induction
<1>6. Length - m_current_index \in Done
  BY <1>5
<1>7. Stops(m_current_index, skip[m_current_index])
  BY <1>6
<1>8. QED
  BY <1>1, <1>7

-------------------------------------------------------------------------------
(***************************************************************************)
(* What GetNextToken returns.                                              *)
(***************************************************************************)
LEMMA KeywordTypes ==
  \A k \in Keywords : k.type \notin {"aborted", "error", "TOKEN_EOF", "NUMBER", "STRING"}
BY DEF Keywords, Keyword

LEMMA OperatorTypes ==
  /\ \A c \in DOMAIN SingleCharacter :
       SingleCharacter[c] \notin {"aborted", "error", "TOKEN_EOF"}
  /\ \A c \in DOMAIN OneOrTwo :
       /\ OneOrTwo[c][1] \notin {"aborted", "error", "TOKEN_EOF"}
       /\ OneOrTwo[c][2] \notin {"aborted", "error", "TOKEN_EOF"}
BY DEF SingleCharacter, OneOrTwo

\* A word is no failure and not the end of the source.
LEMMA WordTypes ==
  ASSUME NEW start, NEW end
  PROVE  TokenType(start, end) \notin {"aborted", "error", "TOKEN_EOF"}
BY KeywordTypes DEF TokenType

\* The cases of GetNextToken, in their order.
LEMMA TokenCases ==
  ASSUME NEW i
  PROVE  LET c == Char(i) IN
         \/ c \in Letters /\ TokenAt(i) = IdentifierOrKeyword(i)
         \/ c \notin Letters /\ c \in Digits /\ TokenAt(i) = NumberLiteral(i + 1)
         \/ /\ c \notin Letters \cup Digits /\ c \in DOMAIN SingleCharacter
            /\ TokenAt(i) = Answer(SingleCharacter[c], i + 1)
         \/ /\ c \notin Letters \cup Digits \cup DOMAIN SingleCharacter /\ c \in DOMAIN OneOrTwo
            /\ TokenAt(i) = MatchEqual(i + 1, OneOrTwo[c])
         \/ /\ c \notin Letters \cup Digits \cup DOMAIN SingleCharacter \cup DOMAIN OneOrTwo
            /\ c = "\"" /\ TokenAt(i) = StringLiteral(i + 1)
         \/ /\ c \notin Letters \cup Digits \cup DOMAIN SingleCharacter \cup DOMAIN OneOrTwo
            /\ c # "\"" /\ TokenAt(i) = Answer("error", i + 1)
BY DEF TokenAt

\* The scanner goes on in every step, never behind the end, and an error is about one
\* character.
LEMMA TokenEnds ==
  ASSUME Length \in Nat, NEW i \in 0..(Length - 1)
  PROVE  /\ TokenAt(i).end \in (i + 1)..Length
         /\ TokenAt(i).type = "error" => TokenAt(i).end = i + 1
         /\ TokenAt(i).type # "TOKEN_EOF"
<1> DEFINE c == Char(i)
           Ends(answer) == /\ answer.end \in (i + 1)..Length
                           /\ answer.type = "error" => answer.end = i + 1
                           /\ answer.type # "TOKEN_EOF"
<1>1. i + 1 \in 0..Length
  OBVIOUS
<1>2. \A type, end : Answer(type, end).type = type /\ Answer(type, end).end = end
  BY DEF Answer
<1>3. Ends(IdentifierOrKeyword(i))
  <2> DEFINE end == EndOfRun(i + 1, Letters \cup Digits \cup {"_"})
  <2>1. end \in (i + 1)..Length
    BY <1>1, RunEnds
  <2>2. IdentifierOrKeyword(i) = Answer(TokenType(i, end), end)
    BY DEF IdentifierOrKeyword
  <2> HIDE DEF end
  <2>3. QED
    BY <1>2, <2>1, <2>2, WordTypes
<1>4. Ends(NumberLiteral(i + 1))
  <2> DEFINE point == EndOfRun(i + 1, Digits)
             fraction == EndOfRun(point + 1, Digits)
             end == IF point < Length /\ Char(point) = "." THEN fraction ELSE point
  <2>1. point \in (i + 1)..Length
    BY <1>1, RunEnds
  <2>2. point < Length => fraction \in (point + 1)..Length
    <3> HIDE DEF point
    <3>1. point < Length => point + 1 \in 0..Length
      BY <2>1
    <3>2. QED
      BY <3>1, RunEnds
  <2>3. NumberLiteral(i + 1) = Answer("NUMBER", end)
    BY DEF NumberLiteral
  <2> HIDE DEF point, fraction
  <2>4. QED
    BY <1>2, <2>1, <2>2, <2>3
<1>5. \A d \in DOMAIN SingleCharacter : Ends(Answer(SingleCharacter[d], i + 1))
  BY <1>2, OperatorTypes
<1>6. \A d \in DOMAIN OneOrTwo : Ends(MatchEqual(i + 1, OneOrTwo[d]))
  BY <1>2, OperatorTypes DEF MatchEqual
<1>7. Ends(StringLiteral(i + 1))
  <2> DEFINE quote == FirstOf(i + 1, "\"")
  <2>1. quote \in (i + 1)..Length
    BY <1>1, FirstOfFound
  <2>2. StringLiteral(i + 1) = IF i + 1 = Length THEN Answer("error", i + 1)
                               ELSE IF quote = Length THEN Answer("aborted", quote)
                               ELSE Answer("STRING", quote + 1)
    BY DEF StringLiteral
  <2> HIDE DEF quote
  <2>3. QED
    BY <1>2, <2>1, <2>2
<1>8. Ends(Answer("error", i + 1))
  BY <1>2
<1> HIDE DEF Ends
<1>9. Ends(TokenAt(i))
  BY <1>3, <1>4, <1>5, <1>6, <1>7, <1>8, TokenCases
<1>10. QED
  BY <1>9 DEF Ends

-------------------------------------------------------------------------------
(***************************************************************************)
(* Where the scanner stands.                                               *)
(***************************************************************************)
\* The scanner never leaves the source.
InSource == m_source \in Sources /\ m_current_index \in 0..Length /\ m_start \in 0..Length

LEMMA SourceLength ==
  ASSUME m_source \in Sources
  PROVE  m_source \in Seq(STRING) /\ Length \in Nat
BY SourceType DEF Length

\* One call of GetNextToken that does not fail an assertion.
LEMMA TokenScanned ==
  ASSUME InSource
  PROVE  LET start == AfterBlanks
             end   == Scanned.start + Scanned.length
         IN  /\ start \in m_current_index..Length
             /\ Blank(m_current_index, start)
             /\ start = Length => /\ Scanned.type = "TOKEN_EOF" /\ Scanned.start = m_start
                                  /\ end = Length
             /\ start < Length =>
                  /\ Char(start) \notin Whitespace
                  /\ Scanned.type = TokenAt(start).type /\ Scanned.type # "TOKEN_EOF"
                  /\ Scanned.start = start /\ Scanned.length \in Nat
                  /\ end = TokenAt(start).end /\ end \in (start + 1)..Length
                  /\ Scanned.type = "error" => end = start + 1
             /\ Scanned.line_number =
                  m_line + Cardinality({i \in m_current_index..(start - 1) : Char(i) = "\n"})
<1> DEFINE start == AfterBlanks
           answer == TokenAt(start)
           line == m_line + Cardinality({i \in m_current_index..(start - 1) : Char(i) = "\n"})
<1>1. Length \in Nat /\ m_current_index \in 0..Length /\ m_start \in 0..Length
  BY SourceLength DEF InSource
<1>2. /\ start \in m_current_index..Length /\ Blank(m_current_index, start)
      /\ start < Length => Char(start) \notin Whitespace
  BY <1>1, Skipped
<1>3. start < Length => /\ answer.end \in (start + 1)..Length
                        /\ answer.type = "error" => answer.end = start + 1
                        /\ answer.type # "TOKEN_EOF"
  BY <1>1, <1>2, TokenEnds
<1>4. Scanned = IF start = Length THEN Token("TOKEN_EOF", m_start, start, line)
                ELSE Token(answer.type, start, answer.end, line)
  <2>1. \A c : c \in LineBreaks <=> c = "\n"
    BY DEF LineBreaks
  <2>2. {i \in m_current_index..(start - 1) : Char(i) \in LineBreaks}
          = {i \in m_current_index..(start - 1) : Char(i) = "\n"}
    BY <2>1
  <2>3. QED
    BY <2>2 DEF Scanned
<1> HIDE DEF start, answer, line
<1>5. \A type, s, e, l : LET t == Token(type, s, e, l) IN
        t.type = type /\ t.start = s /\ t.length = e - s /\ t.line_number = l
  BY DEF Token
<1>6. CASE start = Length
  <2>1. Scanned.type = "TOKEN_EOF" /\ Scanned.start = m_start
        /\ Scanned.length = start - m_start /\ Scanned.line_number = line
    BY <1>4, <1>5, <1>6
  <2>2. Scanned.start + Scanned.length = Length
    BY <1>1, <1>6, <2>1
  <2>3. QED
    BY <1>1, <1>2, <1>6, <2>1, <2>2 DEF start, line
<1>7. CASE start < Length
  <2>1. Scanned.type = answer.type /\ Scanned.start = start
        /\ Scanned.length = answer.end - start /\ Scanned.line_number = line
    BY <1>1, <1>2, <1>4, <1>5, <1>7
  <2>2. Scanned.start + Scanned.length = answer.end
    BY <1>1, <1>2, <1>3, <1>7, <2>1
  <2>3. Scanned.start + Scanned.length \in (start + 1)..Length
    BY <1>3, <1>7, <2>2
  <2>4. Scanned.type = "error" => Scanned.start + Scanned.length = start + 1
    BY <1>3, <1>7, <2>1, <2>2
  <2>5. start # Length
    BY <1>1, <1>7
  <2>6. Scanned.type # "TOKEN_EOF"
    BY <1>3, <1>7, <2>1
  <2>7. Scanned.length \in Nat
    BY <1>1, <1>2, <1>3, <1>7, <2>1
  <2>8. QED
    BY <1>2, <1>7, <2>1, <2>2, <2>3, <2>4, <2>5, <2>6, <2>7 DEF start, line, answer
<1>8. QED
  BY <1>1, <1>2, <1>6, <1>7

\* What no step of ParserState moves.
StreamStays ==
  /\ m_source' = m_source /\ m_current_index' = m_current_index
  /\ m_start' = m_start /\ m_line' = m_line
  /\ tokens' = tokens /\ rejected' = rejected

\* The steps, by what they do to the stream.
LEMMA StreamSteps ==
  ASSUME [Next]_vars
  PROVE  \/ TokenFound
         \/ ErrorFound
         \/ /\ StreamStays /\ current_token' = current_token
            /\ previous_token' \in {previous_token, current_token}
<1>1. CASE BeginAdvance
  BY <1>1 DEF BeginAdvance, StreamStays, Shift, scannerVars
<1>2. CASE AssertionFails
  BY <1>2 DEF AssertionFails, StreamStays, scannerVars, parserStateVars
<1>3. CASE LeavePanic
  BY <1>3 DEF LeavePanic, StreamStays, scannerVars
<1>4. CASE UNCHANGED vars
  BY <1>4 DEF vars, StreamStays, scannerVars, parserStateVars
<1>5. QED
  BY <1>1, <1>2, <1>3, <1>4 DEF Next, AdvanceLoop

LEMMA StartInSource == Init => InSource
<1> SUFFICES ASSUME Init
             PROVE  InSource
  OBVIOUS
<1>1. m_source \in Sources /\ m_current_index = 0 /\ m_start = 0
  BY DEF Init, ScannerInit
<1>2. QED
  BY <1>1, SourceLength DEF InSource

LEMMA StaysInSource ==
  ASSUME InSource, [Next]_vars
  PROVE  InSource'
<1>1. CASE TokenFound \/ ErrorFound
  <2>1. m_source' = m_source /\ m_start' = Scanned.start
        /\ m_current_index' = Scanned.start + Scanned.length
    BY <1>1 DEF TokenFound, ErrorFound, GetNextToken
  <2>2. Length \in Nat /\ Length' = Length /\ m_current_index \in 0..Length
        /\ m_start \in 0..Length /\ m_source \in Sources
    BY <2>1, SourceLength DEF InSource, Length
  <2>3. AfterBlanks \in m_current_index..Length
    BY TokenScanned
  <2>4. CASE AfterBlanks = Length
    <3>1. Scanned.start = m_start /\ Scanned.start + Scanned.length = Length
      BY <2>4, TokenScanned
    <3>2. QED
      BY <2>1, <2>2, <3>1 DEF InSource
  <2>5. CASE AfterBlanks < Length
    <3>1. Scanned.start = AfterBlanks
          /\ Scanned.start + Scanned.length \in (AfterBlanks + 1)..Length
      BY <2>5, TokenScanned
    <3>2. QED
      BY <2>1, <2>2, <2>3, <3>1 DEF InSource
  <2>6. QED
    BY <2>2, <2>3, <2>4, <2>5
<1>2. CASE StreamStays
  BY <1>2 DEF StreamStays, InSource, Length
<1>3. QED
  BY <1>1, <1>2, StreamSteps

\* A step of the scanner, where a token or an error begins inside the source.
LEMMA LexemeRead ==
  ASSUME InSource, TokenFound \/ ErrorFound, Scanned.type # "TOKEN_EOF"
  PROVE  /\ Length \in Nat /\ m_current_index \in 0..Length
         /\ AfterBlanks \in m_current_index..(Length - 1)
         /\ Blank(m_current_index, AfterBlanks) /\ Char(AfterBlanks) \notin Whitespace
         /\ Scanned.type = TokenAt(AfterBlanks).type /\ Scanned.start = AfterBlanks
         /\ Scanned.length \in Nat
         /\ Scanned.start + Scanned.length = TokenAt(AfterBlanks).end
         /\ Scanned.start + Scanned.length \in (AfterBlanks + 1)..Length
         /\ m_source' = m_source /\ m_start' = AfterBlanks
         /\ m_current_index' = Scanned.start + Scanned.length
<1>1. m_source' = m_source /\ m_start' = Scanned.start
      /\ m_current_index' = Scanned.start + Scanned.length
  BY DEF TokenFound, ErrorFound, GetNextToken
<1>2. Length \in Nat /\ m_current_index \in 0..Length
  BY SourceLength DEF InSource
<1>3. AfterBlanks \in m_current_index..Length /\ AfterBlanks # Length
  BY TokenScanned
<1>4. AfterBlanks < Length
  BY <1>2, <1>3
<1>5. QED
  BY <1>1, <1>2, <1>3, <1>4, TokenScanned

\* A step of the scanner at the end of the source.
LEMMA EndRead ==
  ASSUME InSource, TokenFound, Scanned.type = "TOKEN_EOF"
  PROVE  /\ Length \in Nat /\ AfterBlanks = Length /\ Blank(m_current_index, Length)
         /\ Scanned.start = m_start /\ Scanned.start + Scanned.length = Length
         /\ m_source' = m_source /\ m_start' = m_start /\ m_current_index' = Length
<1>1. m_source' = m_source /\ m_start' = Scanned.start
      /\ m_current_index' = Scanned.start + Scanned.length
  BY DEF TokenFound, GetNextToken
<1>2. Length \in Nat /\ AfterBlanks \in m_current_index..Length /\ m_current_index \in 0..Length
  BY SourceLength, TokenScanned DEF InSource
<1>3. ~(AfterBlanks < Length)
  BY TokenScanned
<1>4. AfterBlanks = Length
  BY <1>2, <1>3
<1>5. QED
  BY <1>1, <1>2, <1>4, TokenScanned

\* An error is passed over, one character of it.
LEMMA ErrorRead ==
  ASSUME InSource, ErrorFound
  PROVE  /\ Scanned.type # "TOKEN_EOF" /\ TokenAt(AfterBlanks).type = "error"
         /\ rejected' = rejected \cup {AfterBlanks} /\ m_current_index' = AfterBlanks + 1
         /\ tokens' = tokens
<1>1. Scanned.type = "error" /\ tokens' = tokens /\ rejected' = rejected \cup {Scanned.start}
  BY DEF ErrorFound
<1>2. Scanned.type # "TOKEN_EOF"
  BY <1>1
<1>3. TokenAt(AfterBlanks).type = "error" /\ Scanned.start = AfterBlanks
      /\ AfterBlanks \in m_current_index..(Length - 1) /\ Length \in Nat
      /\ m_current_index \in 0..Length
      /\ m_current_index' = TokenAt(AfterBlanks).end
  BY <1>1, <1>2, LexemeRead
<1>4. TokenAt(AfterBlanks).end = AfterBlanks + 1
  BY <1>3, TokenEnds
<1>5. QED
  BY <1>1, <1>2, <1>3, <1>4

-------------------------------------------------------------------------------
(***************************************************************************)
(* Failed assertions.                                                      *)
(***************************************************************************)
\* The optional without a value is told apart from every token.
NoTokenIsNone == \A type, start, end, line : Token(type, start, end, line) # NoToken

\* Before the first token there is no previous one, and behind it there is: Advance
\* shifts before it scans.
FirstToken ==
  /\ status \in {"idle", "advancing", "aborted"}
  /\ tokens = <<>> \/ current_token # NoToken
  /\ status = "advancing" /\ previous_token = NoToken => tokens = <<>>

AbortInv == FirstToken /\ AbortsKnown

\* Of all that the scanner reads only a string literal can fail, one without end.
LEMMA OnlyStringsAbort ==
  ASSUME Scanned.type = "aborted"
  PROVE  Unclosed(AfterBlanks)
<1> DEFINE start == AfterBlanks
           answer == TokenAt(start)
           c == Char(start)
<1> HIDE DEF start
<1>1. start # Length
  BY DEF Scanned, Token, start
<1>2. answer.type = "aborted"
  <2>1. \A line : Token(answer.type, start, answer.end, line).type = answer.type
    BY DEF Token
  <2>2. QED
    BY <1>1, <2>1 DEF Scanned, start
<1>3. c \notin Letters
  <2>1. \A end : TokenType(start, end) # "aborted"
    BY KeywordTypes DEF TokenType
  <2>2. IdentifierOrKeyword(start).type # "aborted"
    BY <2>1 DEF IdentifierOrKeyword, Answer
  <2>3. QED
    BY <1>2, <2>2 DEF TokenAt
<1>4. c \notin Digits
  <2>1. NumberLiteral(start + 1).type # "aborted"
    BY DEF NumberLiteral, Answer
  <2>2. QED
    BY <1>2, <1>3, <2>1 DEF TokenAt
<1>5. c \notin DOMAIN SingleCharacter
  BY <1>2, <1>3, <1>4, OperatorTypes DEF TokenAt, Answer
<1>6. c \notin DOMAIN OneOrTwo
  <2>1. \A d \in DOMAIN OneOrTwo : MatchEqual(start + 1, OneOrTwo[d]).type # "aborted"
    BY OperatorTypes DEF MatchEqual, Answer
  <2>2. QED
    BY <1>2, <1>3, <1>4, <1>5, <2>1 DEF TokenAt
<1>7. c = "\""
  BY <1>2, <1>3, <1>4, <1>5, <1>6 DEF TokenAt, Answer
<1>8. answer = StringLiteral(start + 1)
  BY <1>3, <1>4, <1>5, <1>6, <1>7 DEF TokenAt
<1>9. FirstOf(start + 1, "\"") = Length
  <2>1. \A i : StringLiteral(i).type = "aborted" => FirstOf(i, "\"") = Length
    BY DEF StringLiteral, Answer
  <2>2. QED
    BY <1>2, <1>8, <2>1
<1>10. QED
  BY <1>1, <1>7, <1>9 DEF Unclosed, start

LEMMA InitAborts == Init => AbortInv
BY DEF Init, ParserStateInit, AbortInv, FirstToken, AbortsKnown

LEMMA ScannedIsToken ==
  ASSUME NoTokenIsNone
  PROVE  Scanned # NoToken
BY DEF NoTokenIsNone, Scanned

LEMMA NextAborts ==
  ASSUME NoTokenIsNone, AbortInv, [Next]_vars
  PROVE  AbortInv'
<1>1. CASE BeginAdvance
  BY <1>1 DEF BeginAdvance, Shift, AbortInv, FirstToken, AbortsKnown
<1>2. CASE TokenFound
  BY <1>2, ScannedIsToken DEF TokenFound, Deliver, AbortInv, FirstToken, AbortsKnown
<1>3. CASE ErrorFound
  <2>1. rejected' # {} /\ tokens' = tokens
        /\ previous_token' = previous_token /\ current_token' = current_token
    BY <1>3 DEF ErrorFound
  <2>2. CASE UNCHANGED status
    BY <1>3, <2>1, <2>2 DEF ErrorFound, AbortInv, FirstToken, AbortsKnown
  <2>3. CASE previous_token = NoToken /\ status' = "aborted"
    BY <1>3, <2>1, <2>3 DEF ErrorFound, AbortInv, FirstToken, AbortsKnown
  <2>4. QED
    BY <1>3, <2>2, <2>3 DEF ErrorFound
<1>4. CASE AssertionFails
  <2>1. Unclosed(AfterBlanks)
    BY <1>4, OnlyStringsAbort DEF AssertionFails
  <2>2. UNCHANGED scannerVars
    BY <1>4 DEF AssertionFails
  <2>3. Unclosed(AfterBlanks)' <=> Unclosed(AfterBlanks)
    BY <2>2 DEF scannerVars, Unclosed, AfterBlanks, FirstOf, CommentAt, Char, Length
  <2>4. QED
    BY <1>4, <2>1, <2>3 DEF AssertionFails, parserStateVars, AbortInv, FirstToken, AbortsKnown
<1>5. CASE LeavePanic
  BY <1>5 DEF LeavePanic, AbortInv, FirstToken, AbortsKnown
<1>6. CASE UNCHANGED vars
  <2>1. Unclosed(AfterBlanks)' <=> Unclosed(AfterBlanks)
    BY <1>6 DEF vars, scannerVars, Unclosed, AfterBlanks, FirstOf, CommentAt, Char, Length
  <2>2. QED
    BY <1>6, <2>1 DEF vars, parserStateVars, AbortInv, FirstToken, AbortsKnown
<1>7. QED
  BY <1>1, <1>2, <1>3, <1>4, <1>5, <1>6 DEF Next, AdvanceLoop

\* The scanner and the parser state fail an assertion at two places only: at a string
\* literal that is never closed, and at an error before the first token.
THEOREM AbortsAreKnown ==
  ASSUME NoTokenIsNone
  PROVE  Spec => []AbortsKnown
<1>1. AbortInv => AbortsKnown
  BY DEF AbortInv
<1>2. AbortInv /\ [Next]_vars => AbortInv'
  BY NextAborts
<1>3. QED
  BY <1>1, <1>2, InitAborts, PTL DEF Spec

-------------------------------------------------------------------------------
(***************************************************************************)
(* What is refused.                                                        *)
(***************************************************************************)
\* A piece of the source.
LEMMA TextFacts ==
  ASSUME m_source \in Sources, NEW i \in 0..Length, NEW j \in i..Length
  PROVE  /\ Text(i, j) \in Seq(STRING) /\ Len(Text(i, j)) = j - i
         /\ \A k \in 1..(j - i) : Text(i, j)[k] = Char(i + k - 1)
<1>1. m_source \in Seq(STRING) /\ Length \in Nat
  BY SourceLength
<1>2. \A s \in Seq(STRING) : \A x \in 0..Len(s) : \A y \in x..Len(s) :
        /\ SubSeq(s, x + 1, y) \in Seq(STRING) /\ Len(SubSeq(s, x + 1, y)) = y - x
        /\ \A k \in 1..(y - x) : SubSeq(s, x + 1, y)[k] = s[x + k]
  OBVIOUS
<1>3. /\ Text(i, j) \in Seq(STRING) /\ Len(Text(i, j)) = j - i
      /\ \A k \in 1..(j - i) : Text(i, j)[k] = m_source[i + k]
  BY <1>1, <1>2 DEF Text, Length
<1>4. \A k \in 1..(j - i) : (i + k - 1) + 1 = i + k
  BY <1>1
<1>5. QED
  BY <1>3, <1>4 DEF Char

\* What an operator begins with.
LEMMA OperatorFirst ==
  \A o \in Operators :
    /\ o.text[1] \in DOMAIN SingleCharacter \cup DOMAIN OneOrTwo
    /\ Len(o.text) \in 1..2
    /\ Len(o.text) = 2 => o.text[1] \in DOMAIN OneOrTwo /\ o.text[2] = "="
<1> DEFINE Singles == {"(", ")", "{", "}", ",", ".", "-", "+", ";", "/", "*"}
           Doubles == {"!", "=", ">", "<"}
<1>1. DOMAIN SingleCharacter = Singles /\ DOMAIN OneOrTwo = Doubles
  BY DEF SingleCharacter, OneOrTwo
<1> DEFINE Begins(text) ==
             /\ text[1] \in Singles \cup Doubles /\ Len(text) \in 1..2
             /\ Len(text) = 2 => text[1] \in Doubles /\ text[2] = "="
<1>2. \A c \in Singles \cup Doubles : Begins(<<c>>)
  <2> HIDE DEF Singles, Doubles
  <2>1. \A c : Len(<<c>>) = 1 /\ <<c>>[1] = c
    OBVIOUS
  <2>2. QED
    BY <2>1
<1>3. \A c \in Doubles : Begins(<<c, "=">>)
  <2> HIDE DEF Singles, Doubles
  <2>1. \A c : Len(<<c, "=">>) = 2 /\ <<c, "=">>[1] = c /\ <<c, "=">>[2] = "="
    OBVIOUS
  <2>2. QED
    BY <2>1
<1>4. /\ "(" \in Singles /\ ")" \in Singles /\ "{" \in Singles /\ "}" \in Singles
      /\ "," \in Singles /\ "." \in Singles /\ "-" \in Singles /\ "+" \in Singles
      /\ ";" \in Singles /\ "/" \in Singles /\ "*" \in Singles
      /\ "!" \in Doubles /\ "=" \in Doubles /\ ">" \in Doubles /\ "<" \in Doubles
  BY Zenon
<1>5. \A o \in Operators : Begins(o.text)
  <2> HIDE DEF Singles, Doubles, Begins
  <2>1. \A type, c : c \in Singles => Begins(Operator(type, <<c>>).text)
    BY <1>2 DEF Operator
  <2>2. \A type, c : c \in Doubles => Begins(Operator(type, <<c>>).text)
    BY <1>2 DEF Operator
  <2>3. \A type, c : c \in Doubles => Begins(Operator(type, <<c, "=">>).text)
    BY <1>3 DEF Operator
  <2>4. QED
    BY <1>4, <2>1, <2>2, <2>3, ZenonT(60) DEF Operators
<1>6. QED
  BY <1>1, <1>5

\* The kind of a lexeme shows in its first character.
LEMMA LexemeFirst ==
  ASSUME NEW w \in Seq(STRING), w # <<>>
  PROVE  /\ IsNumber(w) => w[1] \in Digits
         /\ IsWord(w) => w[1] \in Letters
         /\ IsString(w) => w[1] = "\"" /\ Len(w) >= 2
         /\ IsOperator(w) => /\ w[1] \in DOMAIN SingleCharacter \cup DOMAIN OneOrTwo
                             /\ Len(w) \in 1..2
                             /\ Len(w) = 2 => w[1] \in DOMAIN OneOrTwo /\ w[2] = "="
<1>1. 1 \in DOMAIN w
  OBVIOUS
<1>2. IsNumber(w) => w[1] \in Digits
  BY DEF IsNumber, Digit
<1>3. IsWord(w) => w[1] \in Letters
  BY DEF IsWord
<1>4. IsString(w) => w[1] = "\"" /\ Len(w) >= 2
  BY <1>1 DEF IsString
<1>5. IsOperator(w) => /\ w[1] \in DOMAIN SingleCharacter \cup DOMAIN OneOrTwo
                       /\ Len(w) \in 1..2
                       /\ Len(w) = 2 => w[1] \in DOMAIN OneOrTwo /\ w[2] = "="
  BY OperatorFirst DEF IsOperator
<1>6. QED
  BY <1>2, <1>3, <1>4, <1>5

\* Where GetNextToken returns an error no lexeme begins, or the source ends.
LEMMA ErrorIsNoLexeme ==
  ASSUME m_source \in Sources, NEW r \in 0..(Length - 1), TokenAt(r).type = "error"
  PROVE  \/ \A end \in (r + 1)..Length : ~IsLexeme(Text(r, end))
         \/ r = Length - 1 /\ Char(r) \in {"!", "=", "<", ">"}
<1> DEFINE c == Char(r)
<1>1. Length \in Nat
  BY SourceLength
<1>2. c \notin Letters \cup Digits \cup DOMAIN SingleCharacter
  <2>1. c \notin Letters
    <3>1. IdentifierOrKeyword(r).type # "error"
      BY WordTypes DEF IdentifierOrKeyword, Answer
    <3>2. QED
      BY <3>1, TokenCases
  <2>2. c \notin Digits
    <3>1. NumberLiteral(r + 1).type # "error"
      BY DEF NumberLiteral, Answer
    <3>2. QED
      BY <2>1, <3>1, TokenCases
  <2>3. c \notin DOMAIN SingleCharacter
    <3>1. \A d \in DOMAIN SingleCharacter : Answer(SingleCharacter[d], r + 1).type # "error"
      BY OperatorTypes DEF Answer
    <3>2. QED
      BY <2>1, <2>2, <3>1, TokenCases
  <2>4. QED
    BY <2>1, <2>2, <2>3
<1>3. CASE c \in DOMAIN OneOrTwo
  <2>1. TokenAt(r) = MatchEqual(r + 1, OneOrTwo[c])
    BY <1>2, <1>3, TokenCases
  <2>2. r + 1 = Length
    BY <1>3, <2>1, OperatorTypes DEF MatchEqual, Answer
  <2>3. c \in {"!", "=", "<", ">"}
    BY <1>3 DEF OneOrTwo
  <2>4. QED
    BY <1>1, <2>2, <2>3
<1>4. CASE c \notin DOMAIN OneOrTwo
  <2> SUFFICES ASSUME NEW end \in (r + 1)..Length, IsLexeme(Text(r, end))
               PROVE  FALSE
    OBVIOUS
  <2> DEFINE w == Text(r, end)
  <2>1. w \in Seq(STRING) /\ Len(w) = end - r /\ w[1] = c
    <3>1. r \in 0..Length /\ end \in r..Length /\ 1 \in 1..(end - r) /\ r + 1 - 1 = r
      BY <1>1
    <3>2. QED
      BY <3>1, TextFacts
  <2> HIDE DEF w
  <2>2. w # <<>>
    BY <1>1, <2>1
  <2>3. IsString(w)
    BY <1>2, <1>4, <2>1, <2>2, LexemeFirst DEF IsLexeme, w
  <2>4. TokenAt(r) = StringLiteral(r + 1)
    <3>1. c = "\""
      BY <2>1, <2>2, <2>3, LexemeFirst
    <3>2. QED
      BY <1>2, <1>4, <3>1, TokenCases
  <2>5. r + 1 = Length
    <3>1. \A i : StringLiteral(i).type = "error" => i = Length
      BY DEF StringLiteral, Answer
    <3>2. QED
      BY <2>4, <3>1
  <2>6. end = r + 1
    BY <1>1, <2>5
  <2>7. Len(w) = 1
    BY <2>1, <2>6
  <2>8. Len(w) >= 2
    BY <2>3 DEF IsString
  <2>9. QED
    BY <2>7, <2>8
<1>5. QED
  BY <1>3, <1>4

RefusedInv == InSource /\ rejected \subseteq 0..(Length - 1) /\ RefusesNonLexemes

LEMMA NextRefused ==
  ASSUME RefusedInv, [Next]_vars
  PROVE  RefusedInv'
<1>1. InSource /\ InSource' /\ m_source \in Sources /\ Length \in Nat
  BY StaysInSource, SourceLength DEF RefusedInv, InSource
<1>2. m_source' = m_source
  BY StreamSteps DEF StreamStays, TokenFound, ErrorFound, GetNextToken
<1>3. rejected' \subseteq 0..(Length - 1)
      /\ \A r \in rejected' \ rejected : TokenAt(r).type = "error"
  <2>1. CASE ErrorFound
    <3>1. rejected' = rejected \cup {AfterBlanks} /\ TokenAt(AfterBlanks).type = "error"
      BY <1>1, <2>1, ErrorRead
    <3>2. AfterBlanks \in m_current_index..(Length - 1) /\ m_current_index \in 0..Length
      BY <1>1, <2>1, ErrorRead, LexemeRead
    <3>3. AfterBlanks \in 0..(Length - 1)
      BY <1>1, <3>2
    <3>4. QED
      BY <3>1, <3>3 DEF RefusedInv
  <2>2. CASE rejected' = rejected
    BY <2>2 DEF RefusedInv
  <2>3. QED
    BY <2>1, <2>2, StreamSteps DEF StreamStays, TokenFound
<1>4. \A r \in rejected' : \/ \A end \in (r + 1)..Length : ~IsLexeme(Text(r, end))
                           \/ r = Length - 1 /\ Char(r) \in {"!", "=", "<", ">"}
  BY <1>1, <1>3, ErrorIsNoLexeme DEF RefusedInv, RefusesNonLexemes
<1>5. Length' = Length /\ \A i : Char(i)' = Char(i)
  BY <1>2 DEF Length, Char
<1>6. \A i, j : Text(i, j)' = Text(i, j)
  BY <1>2 DEF Text
<1>7. QED
  BY <1>1, <1>3, <1>4, <1>5, <1>6 DEF RefusedInv, RefusesNonLexemes

\* Whatever the source, a character is refused only where no lexeme begins, except an
\* operator at the end of the source that could go on.
THEOREM OnlyNonLexemesRefused == Spec => []RefusesNonLexemes
<1>1. Init => RefusedInv
  <2>1. Init => rejected = {}
    BY DEF Init
  <2>2. QED
    BY <2>1, StartInSource DEF RefusedInv, RefusesNonLexemes
<1>2. RefusedInv /\ [Next]_vars => RefusedInv'
  BY NextRefused
<1>3. RefusedInv => RefusesNonLexemes
  BY DEF RefusedInv
<1>4. QED
  BY <1>1, <1>2, <1>3, PTL DEF Spec

-------------------------------------------------------------------------------
(***************************************************************************)
(* Nothing is lost between tokens.                                         *)
(***************************************************************************)
LEMMA MinIs ==
  ASSUME NEW T, T \subseteq Nat, NEW m \in T, \A t \in T : m <= t
  PROVE  Min(T) = m
<1>1. Min(T) \in T /\ \A t \in T : Min(T) <= t
  BY MinIsLeast
<1>2. Min(T) <= m /\ m <= Min(T) /\ Min(T) \in Nat /\ m \in Nat
  BY <1>1
<1>3. QED
  BY <1>2

LEMMA MinOfMore ==
  ASSUME NEW T, T \subseteq Nat, NEW x \in Nat, NEW t \in T, t <= x
  PROVE  Min(T \cup {x}) = Min(T)
<1>1. Min(T) \in T /\ \A u \in T : Min(T) <= u
  BY MinIsLeast
<1>2. Min(T) \in T \cup {x} /\ \A u \in T \cup {x} : Min(T) <= u
  <2>1. Min(T) <= t /\ Min(T) \in Nat /\ t \in Nat
    BY <1>1
  <2>2. Min(T) <= x
    BY <2>1
  <2>3. QED
    BY <1>1, <2>2
<1>3. QED
  BY <1>2, MinIs

\* What Tiled says of a stretch with the characters refused in it.
From(cut, refused) == {r \in refused : r >= cut}
Between(before, begin, refused) ==
  {before} \cup {r + 1 : r \in {r \in refused : before <= r /\ r < begin}}
TiledAt(before, begin, refused) ==
  /\ before <= begin
  /\ \A cut \in Between(before, begin, refused) :
       Blank(cut, Min({begin} \cup From(cut, refused)))

\* The stretch from the last token to where the scanner stands.
Pieces(before, index, refused) ==
  /\ before \in 0..index /\ refused \subseteq 0..(index - 1)
  /\ index = before \/ index - 1 \in From(before, refused)
  /\ \A cut \in Between(before, index, refused) :
       cut < index => Blank(cut, Min(From(cut, refused)))

\* In a stretch that is not yet at its end an error lies ahead of every cut.
LEMMA ErrorAhead ==
  ASSUME NEW index \in Nat, NEW before, NEW refused, Pieces(before, index, refused),
         NEW cut \in Between(before, index, refused)
  PROVE  /\ cut \in 0..index
         /\ cut < index => index - 1 \in From(cut, refused)
<1>1. /\ before \in 0..index /\ refused \subseteq 0..(index - 1)
      /\ index = before \/ index - 1 \in From(before, refused)
  BY DEF Pieces
<1>2. cut = before \/ \E r \in refused : cut = r + 1 /\ before <= r
  BY DEF Between
<1>3. cut \in before..index
  BY <1>1, <1>2
<1>4. ASSUME cut < index
      PROVE  index - 1 \in From(cut, refused)
  <2>1. index - 1 \in refused
    BY <1>1, <1>3, <1>4 DEF From
  <2>2. index - 1 >= cut
    BY <1>1, <1>3, <1>4
  <2>3. QED
    BY <2>1, <2>2 DEF From
<1>5. QED
  BY <1>1, <1>3, <1>4

LEMMA RefuseOneMore ==
  ASSUME NEW index \in Nat, NEW before, NEW refused, Pieces(before, index, refused),
         NEW start \in Nat, index <= start, Blank(index, start)
  PROVE  Pieces(before, start + 1, refused \cup {start})
<1> DEFINE more == refused \cup {start}
<1>1. /\ before \in 0..index /\ refused \subseteq 0..(index - 1)
      /\ index = before \/ index - 1 \in From(before, refused)
  BY DEF Pieces
<1>2. before \in 0..(start + 1) /\ more \subseteq 0..start
  BY <1>1
<1>3. start \in From(before, more)
  BY <1>1 DEF From
<1>4. ASSUME NEW cut \in Between(before, start + 1, more), cut < start + 1
      PROVE  Blank(cut, Min(From(cut, more)))
  <2>1. cut \in Between(before, index, refused)
    <3>1. cut = before \/ \E r \in more : cut = r + 1 /\ before <= r
      BY DEF Between
    <3>2. cut = before \/ \E r \in refused : cut = r + 1 /\ before <= r /\ r < index
      BY <1>1, <1>4, <3>1
    <3>3. QED
      BY <3>2 DEF Between
  <2>2. cut \in 0..index /\ (cut < index => index - 1 \in From(cut, refused))
    BY <2>1, ErrorAhead
  <2>3. From(cut, more) = From(cut, refused) \cup {start}
    BY <2>2 DEF From
  <2>4. CASE cut < index
    <3>1. From(cut, refused) \subseteq Nat /\ index - 1 <= start
      <4>1. index - 1 <= start
        OBVIOUS
      <4>2. refused \subseteq Nat
        BY <1>1
      <4>3. From(cut, refused) \subseteq Nat
        BY <4>2 DEF From
      <4>4. QED
        BY <4>1, <4>3
    <3>2. index - 1 \in From(cut, refused)
      BY <2>2, <2>4
    <3>3. Min(From(cut, refused) \cup {start}) = Min(From(cut, refused))
      BY <3>1, <3>2, MinOfMore
    <3>4. Blank(cut, Min(From(cut, refused)))
      BY <2>1, <2>4 DEF Pieces
    <3>5. QED
      BY <2>3, <3>3, <3>4
  <2>5. CASE cut = index
    <3>1. \A r \in refused : ~(r >= cut)
      BY <1>1, <2>5
    <3>2. From(cut, refused) = {}
      BY <3>1 DEF From
    <3>3. From(cut, more) = {start}
      BY <2>3, <3>2
    <3>4. Min(From(cut, more)) = start
      BY <3>3, MinIs
    <3>5. QED
      BY <2>5, <3>4
  <2>6. QED
    BY <2>2, <2>4, <2>5
<1> HIDE DEF more
<1>5. /\ before \in 0..(start + 1) /\ more \subseteq 0..(start + 1 - 1)
      /\ start + 1 - 1 \in From(before, more)
  BY <1>2, <1>3
<1>6. Pieces(before, start + 1, more)
  BY <1>4, <1>5 DEF Pieces
<1>7. QED
  BY <1>6 DEF more

LEMMA TokenCloses ==
  ASSUME NEW index \in Nat, NEW before, NEW refused, Pieces(before, index, refused),
         NEW start \in Nat, index <= start, Blank(index, start)
  PROVE  TiledAt(before, start, refused)
<1>1. before \in 0..index /\ refused \subseteq 0..(index - 1)
  BY DEF Pieces
<1>2. ASSUME NEW cut \in Between(before, start, refused)
      PROVE  Blank(cut, Min({start} \cup From(cut, refused)))
  <2>1. cut \in Between(before, index, refused)
    BY <1>1 DEF Between
  <2>2. cut \in 0..index /\ (cut < index => index - 1 \in From(cut, refused))
    BY <2>1, ErrorAhead
  <2>3. CASE cut < index
    <3>1. From(cut, refused) \subseteq Nat /\ index - 1 <= start
      <4>1. index - 1 <= start
        OBVIOUS
      <4>2. refused \subseteq Nat
        BY <1>1
      <4>3. From(cut, refused) \subseteq Nat
        BY <4>2 DEF From
      <4>4. QED
        BY <4>1, <4>3
    <3>2. index - 1 \in From(cut, refused)
      BY <2>2, <2>3
    <3>3. Min(From(cut, refused) \cup {start}) = Min(From(cut, refused))
      BY <3>1, <3>2, MinOfMore
    <3>4. Blank(cut, Min(From(cut, refused)))
      BY <2>1, <2>3 DEF Pieces
    <3>5. From(cut, refused) \cup {start} = {start} \cup From(cut, refused)
      OBVIOUS
    <3>6. QED
      BY <3>3, <3>4, <3>5
  <2>4. CASE cut = index
    <3>1. \A r \in refused : ~(r >= cut)
      BY <1>1, <2>4
    <3>2. From(cut, refused) = {}
      BY <3>1 DEF From
    <3>3. {start} \cup From(cut, refused) = {start}
      BY <3>2
    <3>4. Min({start} \cup From(cut, refused)) = start
      BY <3>3, MinIs
    <3>5. QED
      BY <2>4, <3>4
  <2>5. QED
    BY <2>2, <2>3, <2>4
<1>3. before <= start
  BY <1>1
<1>4. QED
  BY <1>2, <1>3 DEF TiledAt

\* What is refused behind a token changes nothing before it.
LEMMA TiledStays ==
  ASSUME NEW before \in Nat, NEW begin \in Nat, NEW refused, refused \subseteq Nat,
         TiledAt(before, begin, refused), NEW start \in Nat, begin < start
  PROVE  TiledAt(before, begin, refused \cup {start})
<1> DEFINE more == refused \cup {start}
<1>1. {r \in more : before <= r /\ r < begin} = {r \in refused : before <= r /\ r < begin}
  OBVIOUS
<1>2. Between(before, begin, more) = Between(before, begin, refused)
  BY <1>1 DEF Between
<1>3. ASSUME NEW cut \in Between(before, begin, refused)
      PROVE  Min({begin} \cup From(cut, more)) = Min({begin} \cup From(cut, refused))
  <2> DEFINE T == {begin} \cup From(cut, refused)
  <2>1. T \subseteq Nat /\ begin \in T
    BY DEF From
  <2>2. From(cut, more) = From(cut, refused) \/ From(cut, more) = From(cut, refused) \cup {start}
    BY DEF From
  <2>3. {begin} \cup From(cut, more) = T \/ {begin} \cup From(cut, more) = T \cup {start}
    BY <2>2
  <2> HIDE DEF T
  <2>4. Min(T \cup {start}) = Min(T)
    <3>1. begin <= start
      OBVIOUS
    <3>2. QED
      BY <2>1, <3>1, MinOfMore
  <2>5. QED
    BY <2>3, <2>4 DEF T
<1> HIDE DEF more
<1>4. TiledAt(before, begin, more)
  BY <1>2, <1>3 DEF TiledAt
<1>5. QED
  BY <1>4 DEF more

\* Where the n-th token begins and ends.
Begins(n) == IF tokens[n].type # "TOKEN_EOF" THEN tokens[n].start ELSE Length
Behind(n) == IF n = 0 THEN 0 ELSE tokens[n].start + tokens[n].length

NewestTiled ==
  tokens # <<>> => TiledAt(Behind(Len(tokens) - 1), Begins(Len(tokens)), rejected)
TokensAreSequence == \E S : tokens \in Seq(S)

LEMMA NewestTiledMeans == TokensAreSequence => (NewestTiled <=> Tiled)
<1> SUFFICES ASSUME TokensAreSequence
             PROVE  NewestTiled <=> Tiled
  OBVIOUS
<1>1. PICK S : tokens \in Seq(S)
  BY DEF TokensAreSequence
<1> DEFINE n == Len(tokens)
<1>2. CASE tokens = <<>>
  <2>1. DOMAIN tokens \cap {n} = {}
    BY <1>2
  <2>2. QED
    BY <1>2, <2>1 DEF NewestTiled, Tiled
<1>3. CASE tokens # <<>>
  <2>1. DOMAIN tokens \cap {n} = {n} /\ n \in Nat /\ n # 0
    BY <1>1, <1>3
  <2>2. (n \in Real) <=> (tokens[n].type # "TOKEN_EOF")
    BY <2>1 DEF Real
  <2>3. Behind(n - 1) = IF n = 1 THEN 0 ELSE tokens[n - 1].start + tokens[n - 1].length
    <3>1. (n - 1 = 0) <=> (n = 1)
      BY <2>1
    <3>2. QED
      BY <3>1 DEF Behind
  <2>4. Begins(n) = IF n \in Real THEN tokens[n].start ELSE Length
    BY <2>2 DEF Begins
  <2>5. Tiled <=> TiledAt(Behind(n - 1), Begins(n), rejected)
    <3> DEFINE Stretch(i) ==
                 TiledAt(IF i = 1 THEN 0 ELSE tokens[i - 1].start + tokens[i - 1].length,
                         IF i \in Real THEN tokens[i].start ELSE Length, rejected)
    <3>1. Tiled <=> \A i \in DOMAIN tokens \cap {n} : Stretch(i)
      BY DEF Tiled, TiledAt, Between, From
    <3>2. Stretch(n) <=> TiledAt(Behind(n - 1), Begins(n), rejected)
      BY <2>3, <2>4
    <3> HIDE DEF Stretch
    <3>3. QED
      BY <2>1, <3>1, <3>2
  <2>6. QED
    BY <1>3, <2>5 DEF NewestTiled
<1>4. QED
  BY <1>2, <1>3

\* A token of the source lies behind the scanner, and behind the end of the source is
\* nothing more.
NewestPassed ==
  tokens # <<>> =>
    LET n == Len(tokens) IN
    /\ Behind(n - 1) \in Nat
    /\ IF tokens[n].type # "TOKEN_EOF"
       THEN tokens[n].start \in Nat /\ tokens[n].start < m_current_index
       ELSE m_current_index = Length

TiledInv ==
  /\ InSource /\ TokensAreSequence
  /\ Pieces(Behind(Len(tokens)), m_current_index, rejected)
  /\ NewestPassed /\ NewestTiled

\* A token is appended.
LEMMA Appended ==
  ASSUME TokensAreSequence, NEW token, tokens' = Append(tokens, token)
  PROVE  LET n == Len(tokens) + 1 IN
         /\ TokensAreSequence' /\ n \in Nat /\ Len(tokens') = n /\ tokens' # <<>>
         /\ tokens'[n] = token /\ n - 1 = Len(tokens) /\ n # 0
         /\ \A i \in 1..Len(tokens) : tokens'[i] = tokens[i]
         /\ DOMAIN tokens' = DOMAIN tokens \cup {n} /\ DOMAIN tokens = 1..Len(tokens)
<1>1. PICK S : tokens \in Seq(S)
  BY DEF TokensAreSequence
<1>2. \A R : \A s \in Seq(R) : \A x : LET t == Append(s, x) IN
        /\ t \in Seq(R \cup {x}) /\ Len(t) = Len(s) + 1 /\ t[Len(s) + 1] = x
        /\ \A i \in 1..Len(s) : t[i] = s[i]
        /\ Len(s) \in Nat /\ DOMAIN s = 1..Len(s) /\ DOMAIN t = 1..(Len(s) + 1)
  OBVIOUS
<1>3. /\ tokens' \in Seq(S \cup {token}) /\ Len(tokens') = Len(tokens) + 1
      /\ tokens'[Len(tokens) + 1] = token
      /\ \A i \in 1..Len(tokens) : tokens'[i] = tokens[i]
      /\ Len(tokens) \in Nat /\ DOMAIN tokens = 1..Len(tokens)
      /\ DOMAIN tokens' = 1..(Len(tokens) + 1)
  BY <1>1, <1>2
<1>4. TokensAreSequence'
  BY <1>3 DEF TokensAreSequence
<1>5. tokens' # <<>>
  BY <1>3
<1>6. 1..(Len(tokens) + 1) = 1..Len(tokens) \cup {Len(tokens) + 1}
  BY <1>3
<1>7. QED
  BY <1>3, <1>4, <1>5, <1>6

LEMMA NextTiled ==
  ASSUME TiledInv, [Next]_vars
  PROVE  TiledInv'
<1> DEFINE n == Len(tokens)
           before == Behind(n)
           start == AfterBlanks
           end == Scanned.start + Scanned.length
<1>1. InSource /\ InSource' /\ TokensAreSequence /\ Pieces(before, m_current_index, rejected)
      /\ NewestPassed /\ NewestTiled
  BY StaysInSource DEF TiledInv
<1>2. m_source' = m_source /\ Length' = Length
  BY StreamSteps DEF StreamStays, TokenFound, ErrorFound, GetNextToken, Length
<1>3. \A i, j : Blank(i, j)' = Blank(i, j)
  BY <1>2 DEF Blank, Newlines, Char
<1>4. /\ \A x, y, z : Pieces(x, y, z)' = Pieces(x, y, z)
      /\ \A x, y, z : TiledAt(x, y, z)' = TiledAt(x, y, z)
  BY <1>3 DEF Pieces, TiledAt, From, Between
<1>5. Length \in Nat /\ m_current_index \in 0..Length
  BY <1>1, SourceLength DEF InSource
<1>6. before \in 0..m_current_index /\ rejected \subseteq 0..(m_current_index - 1)
  BY <1>1 DEF Pieces
<1>7. ASSUME TokenFound
      PROVE  /\ Behind(Len(tokens))' = end /\ Behind(Len(tokens) - 1)' = before
             /\ tokens'[Len(tokens')] = Scanned /\ TokensAreSequence' /\ tokens' # <<>>
             /\ rejected' = rejected
  <2>1. tokens' = Append(tokens, Scanned) /\ rejected' = rejected
    BY <1>7 DEF TokenFound
  <2>2. /\ TokensAreSequence' /\ n + 1 \in Nat /\ Len(tokens') = n + 1 /\ tokens' # <<>>
        /\ tokens'[n + 1] = Scanned /\ n + 1 - 1 = n /\ n + 1 # 0
        /\ \A i \in 1..n : tokens'[i] = tokens[i]
    BY <1>1, <2>1, Appended
  <2>3. Behind(Len(tokens))' = end
    BY <2>2 DEF Behind
  <2>4. Behind(Len(tokens) - 1)' = before
    <3>1. n = 0 \/ n \in 1..n
      BY <2>2
    <3>2. n = 0 \/ tokens'[n] = tokens[n]
      BY <2>2, <3>1
    <3>3. Len(tokens') - 1 = n
      BY <2>2
    <3>4. Behind(Len(tokens) - 1)'
            = IF n = 0 THEN 0 ELSE tokens'[n].start + tokens'[n].length
      BY <3>3 DEF Behind
    <3>5. QED
      BY <3>2, <3>4 DEF Behind
  <2>5. QED
    BY <2>1, <2>2, <2>3, <2>4
<1>8. CASE TokenFound /\ Scanned.type # "TOKEN_EOF"
  <2>1. /\ start \in m_current_index..(Length - 1) /\ Blank(m_current_index, start)
        /\ Scanned.start = start /\ end \in (start + 1)..Length
        /\ m_current_index' = end
    BY <1>1, <1>8, LexemeRead
  <2>2. /\ Behind(Len(tokens))' = end /\ Behind(Len(tokens) - 1)' = before
        /\ tokens'[Len(tokens')] = Scanned /\ TokensAreSequence' /\ tokens' # <<>>
        /\ rejected' = rejected
    BY <1>7, <1>8
  <2>3. start \in Nat /\ m_current_index \in Nat /\ m_current_index <= start
    BY <1>5, <2>1
  <2>4. TiledAt(before, start, rejected)
    BY <1>1, <2>1, <2>3, TokenCloses
  <2>5. Begins(Len(tokens))' = start
    BY <1>8, <2>1, <2>2 DEF Begins
  <2>6. NewestTiled'
    BY <1>4, <2>2, <2>4, <2>5 DEF NewestTiled
  <2>7. NewestPassed'
    <3>1. before \in Nat /\ start < end
      BY <1>5, <1>6, <2>1
    <3>2. QED
      BY <1>8, <2>1, <2>2, <2>3, <3>1 DEF NewestPassed
  <2>8. Pieces(end, end, rejected)
    <3>1. end \in Nat /\ \A r \in rejected : r \in 0..(end - 1) /\ ~(end <= r)
      BY <1>5, <1>6, <2>1
    <3>2. Between(end, end, rejected) = {end}
      BY <3>1 DEF Between
    <3>3. QED
      BY <3>1, <3>2 DEF Pieces
  <2>9. QED
    BY <1>1, <1>4, <2>1, <2>2, <2>6, <2>7, <2>8 DEF TiledInv
<1>9. CASE TokenFound /\ Scanned.type = "TOKEN_EOF"
  <2>1. start = Length /\ Blank(m_current_index, Length) /\ end = Length
        /\ m_current_index' = Length
    BY <1>1, <1>9, EndRead
  <2>2. /\ Behind(Len(tokens))' = end /\ Behind(Len(tokens) - 1)' = before
        /\ tokens'[Len(tokens')] = Scanned /\ TokensAreSequence' /\ tokens' # <<>>
        /\ rejected' = rejected
    BY <1>7, <1>9
  <2>3. m_current_index \in Nat /\ m_current_index <= Length
    BY <1>5
  <2>4. TiledAt(before, Length, rejected)
    BY <1>1, <1>5, <2>1, <2>3, TokenCloses
  <2>5. Begins(Len(tokens))' = Length
    BY <1>2, <1>9, <2>2 DEF Begins
  <2>6. NewestTiled'
    BY <1>4, <2>2, <2>4, <2>5 DEF NewestTiled
  <2>7. NewestPassed'
    <3>1. before \in Nat
      BY <1>5, <1>6
    <3>2. QED
      BY <1>2, <1>9, <2>1, <2>2, <3>1 DEF NewestPassed
  <2>8. Pieces(Length, Length, rejected)
    <3>1. \A r \in rejected : r \in 0..(Length - 1) /\ ~(Length <= r)
      BY <1>5, <1>6
    <3>2. Between(Length, Length, rejected) = {Length}
      BY <3>1 DEF Between
    <3>3. QED
      BY <1>5, <3>1, <3>2 DEF Pieces
  <2>9. QED
    BY <1>1, <1>4, <2>1, <2>2, <2>6, <2>7, <2>8 DEF TiledInv
<1>10. CASE ErrorFound
  <2>1. /\ Scanned.type # "TOKEN_EOF" /\ rejected' = rejected \cup {start}
        /\ m_current_index' = start + 1 /\ tokens' = tokens
    BY <1>1, <1>10, ErrorRead
  <2>2. start \in m_current_index..(Length - 1) /\ Blank(m_current_index, start)
    BY <1>1, <1>10, <2>1, LexemeRead
  <2>3. start \in Nat /\ m_current_index \in Nat /\ m_current_index <= start /\ start < Length
    BY <1>5, <2>2
  <2>4. Pieces(before, start + 1, rejected')
    BY <1>1, <2>1, <2>2, <2>3, RefuseOneMore
  <2>5. \A i : Behind(i)' = Behind(i) /\ Begins(i)' = Begins(i)
    BY <1>2, <2>1 DEF Behind, Begins
  <2>6. ASSUME tokens # <<>>
        PROVE  /\ Behind(n - 1) \in Nat /\ tokens[n].type # "TOKEN_EOF"
               /\ tokens[n].start \in Nat /\ tokens[n].start < start
    <3>1. m_current_index # Length
      BY <2>3
    <3>2. Behind(n - 1) \in Nat /\ tokens[n].type # "TOKEN_EOF"
          /\ tokens[n].start \in Nat /\ tokens[n].start < m_current_index
      BY <1>1, <2>6, <3>1 DEF NewestPassed
    <3>3. QED
      BY <2>3, <3>2
  <2>7. NewestTiled'
    <3>1. SUFFICES ASSUME tokens # <<>>
                   PROVE  TiledAt(Behind(n - 1), Begins(n), rejected')
      BY <1>4, <2>1, <2>5 DEF NewestTiled
    <3>2. Begins(n) = tokens[n].start
      BY <2>6, <3>1 DEF Begins
    <3>3. TiledAt(Behind(n - 1), Begins(n), rejected)
      BY <1>1, <3>1 DEF NewestTiled
    <3>4. rejected \subseteq Nat
      BY <1>5, <1>6
    <3>5. QED
      BY <2>1, <2>3, <2>6, <3>1, <3>2, <3>3, <3>4, TiledStays
  <2>8. NewestPassed'
    <3>1. SUFFICES ASSUME tokens # <<>>
                   PROVE  /\ Behind(n - 1) \in Nat /\ tokens[n].type # "TOKEN_EOF"
                          /\ tokens[n].start \in Nat /\ tokens[n].start < start + 1
      BY <2>1, <2>5 DEF NewestPassed
    <3>2. QED
      BY <2>3, <2>6, <3>1
  <2>9. TokensAreSequence'
    BY <1>1, <2>1 DEF TokensAreSequence
  <2>10. QED
    BY <1>1, <1>4, <2>1, <2>4, <2>5, <2>7, <2>8, <2>9 DEF TiledInv
<1>11. CASE StreamStays
  BY <1>1, <1>2, <1>4, <1>11
     DEF StreamStays, TiledInv, NewestTiled, NewestPassed, TokensAreSequence, Behind, Begins
<1>12. QED
  BY <1>8, <1>9, <1>10, <1>11, StreamSteps

\* For every source: between two tokens, and before the first, lie only whitespace,
\* comments and the characters refused.  The scanner loses nothing and reads nothing twice.
THEOREM SourceIsTiled == Spec => []Tiled
<1>1. Init => TiledInv
  <2> SUFFICES ASSUME Init
               PROVE  TiledInv
    OBVIOUS
  <2>1. tokens = <<>> /\ rejected = {} /\ m_current_index = 0
    BY DEF Init, ScannerInit
  <2>2. TokensAreSequence /\ Behind(Len(tokens)) = 0
    <3>1. <<>> \in Seq({}) /\ Len(<<>>) = 0
      OBVIOUS
    <3>2. QED
      BY <2>1, <3>1 DEF TokensAreSequence, Behind
  <2>3. Pieces(0, 0, {})
    BY DEF Pieces, Between
  <2>4. QED
    BY <2>1, <2>2, <2>3, StartInSource DEF TiledInv, NewestPassed, NewestTiled
<1>2. TiledInv /\ [Next]_vars => TiledInv'
  BY NextTiled
<1>3. TiledInv => Tiled
  BY NewestTiledMeans DEF TiledInv
<1>4. QED
  BY <1>1, <1>2, <1>3, PTL DEF Spec

-------------------------------------------------------------------------------
(***************************************************************************)
(* The lines of tokens.                                                    *)
(***************************************************************************)
\* What m_line counts, where the scanner stands at an index behind n tokens.
InToken(k, n) == \E j \in 1..n : k \in tokens[j].start..(tokens[j].start + tokens[j].length - 1)
Counted(index, n) == {k \in 0..(index - 1) : Char(k) = "\n" /\ ~InToken(k, n)}

CountedSoFar ==
  IF \A i \in DOMAIN tokens : tokens[i].type # "TOKEN_EOF"
  THEN /\ \A i \in DOMAIN tokens : /\ tokens[i].start \in Nat /\ tokens[i].length \in Nat
                                   /\ Behind(i) <= m_current_index
       /\ m_line = 1 + Cardinality(Counted(m_current_index, Len(tokens)))
  ELSE m_current_index = Length

LinesInv == InSource /\ TokensAreSequence /\ CountedSoFar /\ LinesCounted

LEMMA CountedFinite ==
  ASSUME NEW index \in Nat, NEW n
  PROVE  IsFiniteSet(Counted(index, n)) /\ Cardinality(Counted(index, n)) \in Nat
<1>1. IsFiniteSet(0..(index - 1))
  BY FS_Interval
<1>2. Counted(index, n) \subseteq 0..(index - 1)
  BY DEF Counted
<1>3. IsFiniteSet(Counted(index, n))
  BY <1>1, <1>2, FS_Subset
<1>4. QED
  BY <1>3, FS_CardinalityType

\* Passing over blanks counts the lines in them.
LEMMA BlanksCounted ==
  ASSUME NEW index \in Nat, NEW start \in Nat, index <= start, NEW n,
         \A k \in Nat : InToken(k, n) => k < index
  PROVE  Cardinality(Counted(start, n))
           = Cardinality(Counted(index, n))
               + Cardinality({k \in index..(start - 1) : Char(k) = "\n"})
<1> DEFINE S == Counted(index, n)
           T == {k \in index..(start - 1) : Char(k) = "\n"}
<1>1. Counted(start, n) = S \cup T
  <2>1. \A k \in 0..(start - 1) : k \in 0..(index - 1) \/ k \in index..(start - 1)
    OBVIOUS
  <2>2. \A k \in 0..(index - 1) : k \in 0..(start - 1)
    OBVIOUS
  <2>3. \A k \in index..(start - 1) : k \in 0..(start - 1) /\ k \in Nat /\ ~(k < index)
    OBVIOUS
  <2>4. \A k \in index..(start - 1) : ~InToken(k, n)
    BY <2>3
  <2> HIDE DEF InToken
  <2>5. QED
    BY <2>1, <2>2, <2>3, <2>4 DEF Counted
<1>2. S \cap T = {}
  <2>1. \A k \in 0..(index - 1) : k \notin index..(start - 1)
    OBVIOUS
  <2>2. QED
    BY <2>1 DEF Counted
<1>3. IsFiniteSet(S) /\ Cardinality(S) \in Nat
  BY CountedFinite
<1>4. IsFiniteSet(T) /\ Cardinality(T) \in Nat
  <2>1. IsFiniteSet(index..(start - 1))
    BY FS_Interval
  <2>2. T \subseteq index..(start - 1)
    OBVIOUS
  <2> HIDE DEF T
  <2>3. IsFiniteSet(T)
    BY <2>1, <2>2, FS_Subset
  <2>4. QED
    BY <2>3, FS_CardinalityType
<1> HIDE DEF S, T
<1>5. Cardinality(S \cup T) = Cardinality(S) + Cardinality(T) - Cardinality(S \cap T)
  BY <1>3, <1>4, FS_Union
<1>6. Cardinality(S \cap T) = 0
  BY <1>2, FS_EmptySet
<1>7. Cardinality(S \cup T) = Cardinality(S) + Cardinality(T)
  BY <1>3, <1>4, <1>5, <1>6
<1>8. QED
  BY <1>1, <1>7 DEF S, T

NewestCounted ==
  \A i \in Newest :
    tokens[i].line_number = 1 + Cardinality(Counted(tokens[i].start, i - 1))

LEMMA NewestCountedMeans == NewestCounted <=> LinesCounted
<1> DEFINE Inside(i) ==
             {k \in 0..(tokens[i].start - 1) :
                \E j \in 1..(i - 1) :
                  k \in tokens[j].start..(tokens[j].start + tokens[j].length - 1)}
           Lines(i) == {k \in 0..(tokens[i].start - 1) : Char(k) = "\n"}
<1>1. \A i : Lines(i) \ Inside(i) = Counted(tokens[i].start, i - 1)
  BY DEF Counted, InToken
<1>2. LinesCounted <=> \A i \in Newest :
                         tokens[i].line_number = 1 + Cardinality(Lines(i) \ Inside(i))
  BY DEF LinesCounted
<1> HIDE DEF Inside, Lines
<1>3. QED
  BY <1>1, <1>2 DEF NewestCounted

\* The line GetNextToken gives to what begins inside the source.
LEMMA LineScanned ==
  ASSUME InSource, TokensAreSequence, CountedSoFar, AfterBlanks < Length
  PROVE  /\ \A i \in DOMAIN tokens : /\ tokens[i].type # "TOKEN_EOF" /\ tokens[i].start \in Nat
                                     /\ tokens[i].length \in Nat
                                     /\ Behind(i) <= m_current_index
         /\ \A k \in Nat : InToken(k, Len(tokens)) => k < m_current_index
         /\ Scanned.line_number = 1 + Cardinality(Counted(AfterBlanks, Len(tokens)))
<1> DEFINE n == Len(tokens)
           start == AfterBlanks
           T == {k \in m_current_index..(start - 1) : Char(k) = "\n"}
<1>1. Length \in Nat /\ m_current_index \in 0..Length /\ start \in m_current_index..Length
  BY SourceLength, TokenScanned DEF InSource
<1>2. m_current_index # Length
  BY <1>1
<1>3. /\ \A i \in DOMAIN tokens : tokens[i].type # "TOKEN_EOF"
      /\ \A i \in DOMAIN tokens : /\ tokens[i].start \in Nat /\ tokens[i].length \in Nat
                                  /\ Behind(i) <= m_current_index
      /\ m_line = 1 + Cardinality(Counted(m_current_index, n))
  BY <1>2 DEF CountedSoFar
<1>4. ASSUME NEW k \in Nat, InToken(k, n)
      PROVE  k < m_current_index
  <2>1. PICK j \in 1..n : k \in tokens[j].start..(tokens[j].start + tokens[j].length - 1)
    BY <1>4 DEF InToken
  <2>2. j \in DOMAIN tokens /\ j # 0
    BY DEF TokensAreSequence
  <2>3. Behind(j) = tokens[j].start + tokens[j].length
    BY <2>2 DEF Behind
  <2>4. tokens[j].start \in Nat /\ tokens[j].length \in Nat /\ Behind(j) <= m_current_index
    BY <1>3, <2>2
  <2>5. k < Behind(j)
    BY <2>1, <2>3, <2>4
  <2>6. QED
    BY <1>1, <2>3, <2>4, <2>5
<1>5. Cardinality(Counted(start, n)) = Cardinality(Counted(m_current_index, n)) + Cardinality(T)
  <2>1. start \in Nat /\ m_current_index \in Nat /\ m_current_index <= start
    BY <1>1
  <2> HIDE DEF start
  <2>2. QED
    BY <1>4, <2>1, BlanksCounted
<1>6. Scanned.line_number = m_line + Cardinality(T)
  BY TokenScanned
<1>7. Cardinality(Counted(m_current_index, n)) \in Nat /\ Cardinality(T) \in Nat
  <2>1. m_current_index \in Nat
    BY <1>1
  <2>2. m_current_index..(start - 1) \in SUBSET Int /\ IsFiniteSet(m_current_index..(start - 1))
    BY <1>1, FS_Interval
  <2>3. T \subseteq m_current_index..(start - 1)
    OBVIOUS
  <2> HIDE DEF T
  <2>4. IsFiniteSet(T)
    BY <2>2, <2>3, FS_Subset
  <2>5. QED
    BY <2>1, <2>4, CountedFinite, FS_CardinalityType
<1> HIDE DEF T, start
<1>8. Scanned.line_number = 1 + Cardinality(Counted(start, n))
  BY <1>3, <1>5, <1>6, <1>7
<1>9. QED
  BY <1>3, <1>4, <1>8 DEF start

LEMMA NextLines ==
  ASSUME LinesInv, [Next]_vars
  PROVE  LinesInv'
<1> DEFINE n == Len(tokens)
           start == AfterBlanks
           end == Scanned.start + Scanned.length
<1>1. InSource /\ InSource' /\ TokensAreSequence /\ CountedSoFar /\ NewestCounted
  BY StaysInSource, NewestCountedMeans DEF LinesInv
<1>2. m_source' = m_source /\ Length' = Length /\ (\A k : Char(k)' = Char(k))
  BY StreamSteps DEF StreamStays, TokenFound, ErrorFound, GetNextToken, Length, Char
<1>3. SUFFICES TokensAreSequence' /\ CountedSoFar' /\ NewestCounted'
  <2>1. NewestCounted' => LinesCounted'
    BY NewestCountedMeans, PTL
  <2>2. QED
    BY <1>1, <2>1 DEF LinesInv
<1>4. Length \in Nat /\ m_current_index \in 0..Length
  BY <1>1, SourceLength DEF InSource
<1>5. CASE TokenFound /\ Scanned.type # "TOKEN_EOF"
  <2>1. /\ start \in m_current_index..(Length - 1) /\ Scanned.start = start
        /\ end \in (start + 1)..Length /\ m_current_index' = end /\ Scanned.length \in Nat
    BY <1>1, <1>5, LexemeRead
  <2>2. start \in Nat /\ end \in Nat /\ start < end /\ m_current_index <= start /\ start < Length
    BY <1>4, <2>1
  <2>3. tokens' = Append(tokens, Scanned) /\ m_line' = Scanned.line_number
    BY <1>5 DEF TokenFound, GetNextToken
  <2>4. /\ TokensAreSequence' /\ n + 1 \in Nat /\ Len(tokens') = n + 1
        /\ tokens'[n + 1] = Scanned /\ n + 1 - 1 = n /\ n + 1 # 0
        /\ \A i \in 1..n : tokens'[i] = tokens[i]
        /\ DOMAIN tokens' = DOMAIN tokens \cup {n + 1} /\ DOMAIN tokens = 1..n
    BY <1>1, <2>3, Appended
  <2>5. /\ \A i \in DOMAIN tokens : /\ tokens[i].type # "TOKEN_EOF" /\ tokens[i].start \in Nat
                                    /\ tokens[i].length \in Nat
                                    /\ Behind(i) <= m_current_index
        /\ \A k \in Nat : InToken(k, n) => k < m_current_index
        /\ Scanned.line_number = 1 + Cardinality(Counted(start, n))
    BY <1>1, <2>2, LineScanned
  <2>6. \A k, m : m = n => (InToken(k, m)' <=> InToken(k, m))
    BY <2>4 DEF InToken
  <2>7. \A x, m : m = n => Counted(x, m)' = Counted(x, m)
    BY <1>2, <2>6 DEF Counted
  <2>8. Counted(m_current_index, Len(tokens))' = Counted(start, n)
    <3>1. \A k, m : m = n + 1 =>
            (InToken(k, m)' <=> InToken(k, n) \/ k \in start..(end - 1))
      <4>1. 1..(n + 1) = 1..n \cup {n + 1}
        BY <2>4
      <4>2. tokens'[n + 1].start + tokens'[n + 1].length - 1 = end - 1
        BY <2>1, <2>2, <2>4
      <4> HIDE DEF end, start
      <4>3. \A k, m : m = n + 1 =>
              (InToken(k, m)' <=> \E j \in 1..n \cup {n + 1} :
                 k \in tokens'[j].start..(tokens'[j].start + tokens'[j].length - 1))
        BY <4>1 DEF InToken
      <4>4. \A k : InToken(k, n) <=> \E j \in 1..n :
              k \in tokens'[j].start..(tokens'[j].start + tokens'[j].length - 1)
        BY <2>4 DEF InToken
      <4>5. tokens'[n + 1].start..(tokens'[n + 1].start + tokens'[n + 1].length - 1)
              = start..(end - 1)
        BY <2>1, <2>4, <4>2
      <4> HIDE DEF n
      <4>6. QED
        BY <4>3, <4>4, <4>5
    <3>2. Counted(m_current_index, Len(tokens))'
            = {k \in 0..(end - 1) :
                 Char(k) = "\n" /\ ~(InToken(k, n) \/ k \in start..(end - 1))}
      BY <1>2, <2>1, <2>4, <3>1 DEF Counted
    <3>3. \A k : k \in 0..(end - 1) /\ k \notin start..(end - 1) <=> k \in 0..(start - 1)
      BY <2>2
    <3> HIDE DEF start, end
    <3>4. QED
      BY <3>2, <3>3 DEF Counted
  <2>9. NewestCounted'
    <3>1. \A i : (i \in Newest)' => i = n + 1
      BY <2>4 DEF Newest
    <3>2. Counted(tokens'[n + 1].start, n) = Counted(start, n)
      BY <2>1, <2>4
    <3>3. \A x, m : m = n + 1 => Counted(x, m - 1)' = Counted(x, n)
      BY <2>4, <2>7
    <3>4. QED
      BY <2>1, <2>4, <2>5, <3>1, <3>2, <3>3 DEF NewestCounted
  <2>10. ASSUME NEW i \in DOMAIN tokens'
         PROVE  /\ tokens'[i].type # "TOKEN_EOF" /\ tokens'[i].start \in Nat
                /\ tokens'[i].length \in Nat /\ Behind(i)' <= end
    <3>1. CASE i \in DOMAIN tokens
      <4>1. tokens'[i] = tokens[i] /\ Behind(i)' = Behind(i)
        BY <2>4, <3>1 DEF Behind
      <4>2. tokens[i].length \in Nat /\ Behind(i) <= m_current_index
        BY <2>5, <3>1
      <4>3. Behind(i) <= end
        <5>1. Behind(i) \in Nat
          BY <2>5, <3>1, <4>2 DEF Behind
        <5>2. QED
          BY <1>4, <2>2, <4>2, <5>1
      <4>4. QED
        BY <2>5, <3>1, <4>1, <4>2, <4>3
    <3>2. CASE i = n + 1
      <4>1. tokens'[i] = Scanned /\ Behind(i)' = end
        BY <2>4, <3>2 DEF Behind
      <4>2. QED
        BY <1>5, <2>1, <2>2, <4>1
    <3>3. QED
      BY <2>4, <3>1, <3>2
  <2>11. CountedSoFar'
    BY <2>1, <2>3, <2>5, <2>8, <2>10 DEF CountedSoFar
  <2>12. QED
    BY <2>4, <2>9, <2>11
<1>6. CASE TokenFound /\ Scanned.type = "TOKEN_EOF"
  <2>1. m_current_index' = Length
    BY <1>1, <1>6, EndRead
  <2>2. tokens' = Append(tokens, Scanned)
    BY <1>6 DEF TokenFound
  <2>3. /\ TokensAreSequence' /\ Len(tokens') = n + 1 /\ tokens'[n + 1] = Scanned
        /\ DOMAIN tokens' = DOMAIN tokens \cup {n + 1}
    BY <1>1, <2>2, Appended
  <2>4. \A i : ~(i \in Newest)'
    BY <1>6, <2>3 DEF Newest, Real
  <2>5. n + 1 \in DOMAIN tokens' /\ tokens'[n + 1].type = "TOKEN_EOF"
    BY <1>6, <2>3
  <2>6. CountedSoFar'
    BY <1>2, <2>1, <2>5 DEF CountedSoFar
  <2>7. QED
    BY <2>3, <2>4, <2>6 DEF NewestCounted
<1>7. CASE ErrorFound
  <2>1. /\ Scanned.type # "TOKEN_EOF" /\ m_current_index' = start + 1 /\ tokens' = tokens
    BY <1>1, <1>7, ErrorRead
  <2>2. start \in m_current_index..(Length - 1) /\ Char(start) \notin Whitespace
    BY <1>1, <1>7, <2>1, LexemeRead
  <2>3. start \in Nat /\ m_current_index <= start /\ start < Length
    BY <1>4, <2>2
  <2>4. m_line' = Scanned.line_number
    BY <1>7 DEF ErrorFound, GetNextToken
  <2>5. /\ \A i \in DOMAIN tokens : /\ tokens[i].type # "TOKEN_EOF" /\ tokens[i].start \in Nat
                                    /\ tokens[i].length \in Nat
                                    /\ Behind(i) <= m_current_index
        /\ Scanned.line_number = 1 + Cardinality(Counted(start, n))
    BY <1>1, <2>3, LineScanned
  <2>6. Char(start) # "\n"
    BY <2>2 DEF Whitespace
  <2>7. /\ \A x, m : Counted(x, m)' = Counted(x, m)
        /\ \A i : Behind(i)' = Behind(i)
    BY <1>2, <2>1 DEF Counted, InToken, Behind
  <2>8. Counted(m_current_index, Len(tokens))' = Counted(start, n)
    <3>1. Counted(m_current_index, Len(tokens))' = Counted(start + 1, n)
      BY <1>2, <2>1 DEF Counted, InToken
    <3>2. \A k : k \in 0..(start + 1 - 1) <=> k \in 0..(start - 1) \/ k = start
      BY <2>3
    <3> HIDE DEF start
    <3>3. QED
      BY <2>6, <3>1, <3>2 DEF Counted
  <2>9. \A i \in DOMAIN tokens : Behind(i) <= start + 1
    <3>1. \A i \in DOMAIN tokens : Behind(i) \in Nat
      BY <2>5 DEF Behind
    <3>2. QED
      BY <1>4, <2>3, <2>5, <3>1
  <2>10. CountedSoFar'
    BY <2>1, <2>4, <2>5, <2>7, <2>8, <2>9 DEF CountedSoFar
  <2>11. NewestCounted' /\ TokensAreSequence'
    BY <1>1, <2>1, <2>7 DEF NewestCounted, Newest, Real, TokensAreSequence
  <2>12. QED
    BY <2>10, <2>11
<1>8. CASE StreamStays
  <2>1. /\ \A x, m : Counted(x, m)' = Counted(x, m)
        /\ \A i : Behind(i)' = Behind(i)
    BY <1>2, <1>8 DEF StreamStays, Counted, InToken, Behind
  <2>2. CountedSoFar'
    <3>1. Counted(m_current_index, Len(tokens))' = Counted(m_current_index, Len(tokens))
      BY <1>2, <1>8 DEF StreamStays, Counted, InToken
    <3>2. QED
      BY <1>1, <1>2, <1>8, <2>1, <3>1 DEF StreamStays, CountedSoFar
  <2>3. NewestCounted' /\ TokensAreSequence'
    BY <1>1, <1>8, <2>1 DEF StreamStays, NewestCounted, Newest, Real, TokensAreSequence
  <2>4. QED
    BY <2>2, <2>3
<1>9. QED
  BY <1>5, <1>6, <1>7, <1>8, StreamSteps

\* For every source: the line of a token is that of its first character, less the
\* newlines inside the string literals before it.
THEOREM LinesAreCounted == Spec => []LinesCounted
<1>1. Init => LinesInv
  <2> SUFFICES ASSUME Init
               PROVE  LinesInv
    OBVIOUS
  <2>1. tokens = <<>> /\ m_current_index = 0 /\ m_line = 1
    BY DEF Init, ScannerInit
  <2>2. TokensAreSequence
    <3>1. <<>> \in Seq({})
      OBVIOUS
    <3>2. QED
      BY <2>1, <3>1 DEF TokensAreSequence
  <2>3. Cardinality(Counted(0, Len(tokens))) = 0
    <3>1. \A k : k \notin 0..(0 - 1)
      OBVIOUS
    <3>2. Counted(0, Len(tokens)) = {}
      BY <3>1 DEF Counted
    <3>3. QED
      BY <3>2, FS_EmptySet
  <2>4. CountedSoFar
    BY <2>1, <2>3 DEF CountedSoFar
  <2>5. LinesCounted
    BY <2>1 DEF LinesCounted, Newest, Real
  <2>6. QED
    BY <2>2, <2>4, <2>5, StartInSource DEF LinesInv
<1>2. LinesInv /\ [Next]_vars => LinesInv'
  BY NextLines
<1>3. LinesInv => LinesCounted
  BY DEF LinesInv
<1>4. QED
  BY <1>1, <1>2, <1>3, PTL DEF Spec

-------------------------------------------------------------------------------
(***************************************************************************)
(* The line that ReportError shows.                                        *)
(***************************************************************************)
\* A place in a line, and not its end.
Visible(i) == i \in 0..(Length - 1) /\ Char(i) # "\n"

LEMMA LineShown ==
  ASSUME Length \in Nat, NEW token, Visible(token.start)
  PROVE  /\ LineStart(token) <= LineEnd(token) /\ LineEnd(token) <= Length
         /\ LineStart(token) <= token.start \/ token.start = 0
         /\ Newlines(token.start, LineEnd(token)) = 0 /\ token.start <= LineEnd(token)
<1> DEFINE start == token.start
           end == LineEnd(token)
           T == {0} \cup {i \in 0..start : Char(i) = "\n"}
<1>1. start \in 0..(Length - 1) /\ start \in 0..Length /\ start \in Nat /\ Char(start) # "\n"
  BY DEF Visible
<1>2. /\ end \in start..Length /\ \A k \in start..(end - 1) : Char(k) # "\n"
      /\ end < Length => Char(end) = "\n"
  BY <1>1, FirstOfFound DEF LineEnd
<1>3. end # start
  <2>1. start < Length
    BY <1>1
  <2>2. QED
    BY <1>1, <1>2, <2>1
<1>4. end \in Nat /\ start < end /\ end <= Length
  BY <1>1, <1>2, <1>3
<1>5. Newlines(start, end) = 0
  BY <1>1, <1>2, <1>4, NoNewlines
<1>6. LineStart(token) = Max(T) + 1
  <2>1. Min({start, Length - 1}) = start
    <3>1. {start, Length - 1} \subseteq Nat /\ start <= Length - 1
      BY <1>1
    <3>2. \A t \in {start, Length - 1} : start <= t
      BY <1>1, <3>1
    <3>3. QED
      BY <3>1, <3>2, MinIs
  <2>2. QED
    BY <2>1 DEF LineStart
<1>7. Max(T) \in T /\ T \subseteq 0..start
  <2>1. T \subseteq 0..start /\ 0 \in T
    BY <1>1
  <2> HIDE DEF T
  <2>2. QED
    BY <1>1, <2>1, MaxIsGreatest
<1>8. Max(T) \in Nat /\ Max(T) <= start /\ (Max(T) < start \/ start = 0)
  <2>1. Max(T) = 0 \/ Char(Max(T)) = "\n"
    BY <1>7
  <2>2. Max(T) \in 0..start
    BY <1>7
  <2>3. Max(T) # start \/ start = 0
    BY <1>1, <2>1
  <2> HIDE DEF T
  <2>4. QED
    BY <1>1, <2>2, <2>3
<1> HIDE DEF T, start, end
<1>9. Max(T) + 1 <= end /\ (Max(T) + 1 <= start \/ start = 0)
  BY <1>1, <1>4, <1>8
<1>10. LineStart(token) <= end /\ (LineStart(token) <= start \/ start = 0)
  BY <1>6, <1>9
<1>11. start <= end
  BY <1>1, <1>4
<1>12. QED
  BY <1>4, <1>5, <1>10, <1>11 DEF start, end

\* The tokens at which an error can be reported begin in a line, unless the source holds
\* no token.
ShownInv ==
  /\ InSource /\ TokensAreSequence
  /\ Real # {} => Visible(m_start)
  /\ \A token \in {previous_token, current_token} \ {NoToken} :
       Visible(token.start) \/ (Real = {} /\ m_current_index = Length)

LEMMA NextShown ==
  ASSUME ShownInv, [Next]_vars
  PROVE  ShownInv'
<1> DEFINE n == Len(tokens)
           start == AfterBlanks
           Holds(token) == Visible(token.start) \/ (Real = {} /\ m_current_index = Length)
<1>1. InSource /\ InSource' /\ TokensAreSequence /\ (Real # {} => Visible(m_start))
      /\ \A token \in {previous_token, current_token} \ {NoToken} : Holds(token)
  BY StaysInSource DEF ShownInv
<1>2. m_source' = m_source /\ Length' = Length /\ (\A k : Visible(k)' = Visible(k))
  BY StreamSteps
     DEF StreamStays, TokenFound, ErrorFound, GetNextToken, Length, Char, Visible
<1>3. Length \in Nat /\ m_current_index \in 0..Length
  BY <1>1, SourceLength DEF InSource
<1>4. ASSUME TokenFound \/ ErrorFound, Scanned.type # "TOKEN_EOF"
      PROVE  /\ m_start' = start /\ Scanned.start = start /\ Visible(start)
             /\ m_current_index # Length
  <2>1. /\ m_start' = start /\ Scanned.start = start /\ Char(start) \notin Whitespace
        /\ start \in m_current_index..(Length - 1)
    BY <1>1, <1>4, LexemeRead
  <2>2. Visible(start)
    <3>1. Char(start) # "\n"
      BY <2>1 DEF Whitespace
    <3>2. start \in 0..(Length - 1)
      BY <1>3, <2>1
    <3>3. QED
      BY <3>1, <3>2 DEF Visible
  <2>3. m_current_index # Length
    BY <1>3, <2>1
  <2>4. QED
    BY <2>1, <2>2, <2>3
<1>5. CASE TokenFound
  <2>1. tokens' = Append(tokens, Scanned) /\ current_token' = Scanned
        /\ previous_token' = previous_token
    BY <1>5 DEF TokenFound, Deliver
  <2>2. /\ TokensAreSequence' /\ n + 1 \in Nat /\ Len(tokens') = n + 1
        /\ tokens'[n + 1] = Scanned
        /\ \A i \in 1..n : tokens'[i] = tokens[i]
        /\ DOMAIN tokens' = DOMAIN tokens \cup {n + 1} /\ DOMAIN tokens = 1..n
    BY <1>1, <2>1, Appended
  <2>3. CASE Scanned.type # "TOKEN_EOF"
    <3>1. /\ m_start' = start /\ Scanned.start = start /\ Visible(start)
          /\ m_current_index # Length
      BY <1>4, <1>5, <2>3
    <3>2. Visible(m_start)' /\ Visible(Scanned.start)
      BY <1>2, <3>1 DEF Visible
    <3>3. previous_token # NoToken => Visible(previous_token.start)
      BY <1>1, <3>1
    <3>4. \A token \in {previous_token', current_token'} \ {NoToken} : Visible(token.start)
      BY <2>1, <3>2, <3>3
    <3>5. QED
      BY <1>1, <1>2, <2>2, <3>2, <3>4 DEF ShownInv
  <2>4. CASE Scanned.type = "TOKEN_EOF"
    <3>1. Scanned.start = m_start /\ m_start' = m_start /\ m_current_index' = Length
      BY <1>1, <1>5, <2>4, EndRead
    <3>2. Real' = Real
      BY <2>2, <2>4 DEF Real
    <3>3. (Real # {} => Visible(m_start))'
      BY <1>1, <1>2, <3>1, <3>2 DEF Visible
    <3>4. Scanned.start = m_start /\ (Real # {} => Visible(Scanned.start))
      BY <1>1, <3>1
    <3>5. previous_token # NoToken => Visible(previous_token.start) \/ Real = {}
      BY <1>1
    <3>6. \A token \in {previous_token', current_token'} \ {NoToken} :
            Visible(token.start) \/ Real = {}
      BY <2>1, <3>4, <3>5
    <3>7. QED
      BY <1>1, <1>2, <2>2, <3>1, <3>2, <3>3, <3>6 DEF ShownInv
  <2>5. QED
    BY <2>3, <2>4
<1>6. CASE ErrorFound
  <2>1. Scanned.type # "TOKEN_EOF" /\ tokens' = tokens
    BY <1>1, <1>6, ErrorRead
  <2>2. m_start' = start /\ Visible(start) /\ m_current_index # Length
    BY <1>4, <1>6, <2>1
  <2>3. previous_token' = previous_token /\ current_token' = current_token
    BY <1>6 DEF ErrorFound
  <2>4. Visible(m_start)'
    BY <1>2, <2>2 DEF Visible
  <2>5. \A token \in {previous_token', current_token'} \ {NoToken} : Visible(token.start)
    BY <1>1, <2>2, <2>3
  <2>6. TokensAreSequence'
    BY <1>1, <2>1 DEF TokensAreSequence
  <2>7. QED
    BY <1>1, <1>2, <2>4, <2>5, <2>6 DEF ShownInv
<1>7. CASE /\ StreamStays /\ current_token' = current_token
           /\ previous_token' \in {previous_token, current_token}
  <2>1. Real' = Real /\ m_start' = m_start /\ m_current_index' = m_current_index
        /\ TokensAreSequence'
    BY <1>1, <1>7 DEF StreamStays, Real, TokensAreSequence
  <2>2. \A token \in {previous_token', current_token'} \ {NoToken} : Holds(token)
    BY <1>1, <1>7
  <2>3. (Real # {} => Visible(m_start))'
    BY <1>1, <1>2, <2>1 DEF Visible
  <2>4. QED
    BY <1>1, <1>2, <2>1, <2>2, <2>3 DEF ShownInv
<1>8. QED
  BY <1>5, <1>6, <1>7, StreamSteps

\* For every source with a token in it: whatever token an error is reported at, the
\* line shown lies inside the source, and the token begins in it.
THEOREM ShownLineIsInSource == Spec => []ShownLineInSource
<1>1. Init => ShownInv
  <2> SUFFICES ASSUME Init
               PROVE  ShownInv
    OBVIOUS
  <2>1. tokens = <<>> /\ previous_token = NoToken /\ current_token = NoToken
    BY DEF Init, ParserStateInit
  <2>2. TokensAreSequence
    <3>1. <<>> \in Seq({})
      OBVIOUS
    <3>2. QED
      BY <2>1, <3>1 DEF TokensAreSequence
  <2>3. Real = {}
    BY <2>1 DEF Real
  <2>4. QED
    BY <2>1, <2>2, <2>3, StartInSource DEF ShownInv
<1>2. ShownInv /\ [Next]_vars => ShownInv'
  BY NextShown
<1>3. ShownInv => ShownLineInSource
  <2> SUFFICES ASSUME ShownInv, Real # {},
                      NEW token \in {previous_token, current_token} \ {NoToken}
               PROVE  /\ LineStart(token) <= LineEnd(token) /\ LineEnd(token) <= Length
                      /\ LineStart(token) <= token.start \/ token.start = 0
                      /\ Newlines(token.start, LineEnd(token)) = 0
                      /\ token.start <= LineEnd(token)
    BY DEF ShownLineInSource
  <2>1. Visible(token.start)
    BY DEF ShownInv
  <2>2. Length \in Nat
    BY SourceLength DEF ShownInv, InSource
  <2>3. QED
    BY <2>1, <2>2, LineShown
<1>4. QED
  BY <1>1, <1>2, <1>3, PTL DEF Spec

-------------------------------------------------------------------------------
(***************************************************************************)
(* The longest lexeme.                                                     *)
(***************************************************************************)
Quote == "\""

\* The first character tells the four kinds of lexeme apart.
LEMMA OneKindOfLexeme ==
  ASSUME NEW w \in Seq(STRING), w # <<>>
  PROVE  /\ w[1] \in Letters => ~IsNumber(w) /\ ~IsString(w) /\ ~IsOperator(w)
         /\ w[1] \in Digits => ~IsWord(w) /\ ~IsString(w) /\ ~IsOperator(w)
         /\ w[1] = Quote => ~IsNumber(w) /\ ~IsWord(w) /\ ~IsOperator(w)
         /\ w[1] \in DOMAIN SingleCharacter \cup DOMAIN OneOrTwo =>
              ~IsNumber(w) /\ ~IsWord(w) /\ ~IsString(w)
<1>1. "\"" \notin DOMAIN SingleCharacter \cup DOMAIN OneOrTwo
  BY Zenon DEF SingleCharacter, OneOrTwo
<1>2. QED
  BY <1>1, LexemeFirst, CharacterClasses, ZenonT(60) DEF Quote

LEMMA KeywordLengths ==
  \A k \in Keywords :
    /\ Len(k.word) \in 2..6 /\ k.compared \in 2..Len(k.word)
    /\ k.compared = Len(k.word) - (IF k.type \in {"TRUE", "FALSE"} THEN 1 ELSE 0)
<1> DEFINE Fits(k) ==
             /\ Len(k.word) \in 2..6 /\ k.compared \in 2..Len(k.word)
             /\ k.compared = Len(k.word) - (IF k.type \in {"TRUE", "FALSE"} THEN 1 ELSE 0)
<1>1. ASSUME NEW type, NEW word, NEW n \in 2..6, Len(word) = n
      PROVE  /\ type \notin {"TRUE", "FALSE"} => Fits(Keyword(type, word, n))
             /\ n # 2 /\ type \in {"TRUE", "FALSE"} => Fits(Keyword(type, word, n - 1))
  <2> DEFINE k == Keyword(type, word, n)
             l == Keyword(type, word, n - 1)
  <2>1. k.type = type /\ k.word = word /\ k.compared = n
        /\ l.type = type /\ l.word = word /\ l.compared = n - 1
    BY DEF Keyword
  <2> HIDE DEF k, l
  <2>2. type \notin {"TRUE", "FALSE"} => Fits(k)
    BY <1>1, <2>1
  <2>3. n # 2 /\ type \in {"TRUE", "FALSE"} => Fits(l)
    BY <1>1, <2>1
  <2>4. QED
    BY <2>2, <2>3 DEF k, l
<1>2. /\ \A a, b : Len(<<a, b>>) = 2
      /\ \A a, b, c : Len(<<a, b, c>>) = 3
      /\ \A a, b, c, d : Len(<<a, b, c, d>>) = 4
      /\ \A a, b, c, d, e : Len(<<a, b, c, d, e>>) = 5
      /\ \A a, b, c, d, e, f : Len(<<a, b, c, d, e, f>>) = 6
  OBVIOUS
<1>3. \A type : type \notin {"TRUE", "FALSE"} =>
        /\ \A a, b : Fits(Keyword(type, <<a, b>>, 2))
        /\ \A a, b, c : Fits(Keyword(type, <<a, b, c>>, 3))
        /\ \A a, b, c, d : Fits(Keyword(type, <<a, b, c, d>>, 4))
        /\ \A a, b, c, d, e : Fits(Keyword(type, <<a, b, c, d, e>>, 5))
        /\ \A a, b, c, d, e, f : Fits(Keyword(type, <<a, b, c, d, e, f>>, 6))
  <2>1. 2 \in 2..6 /\ 3 \in 2..6 /\ 4 \in 2..6 /\ 5 \in 2..6 /\ 6 \in 2..6
    OBVIOUS
  <2> HIDE DEF Fits
  <2>2. QED
    BY <1>1, <1>2, <2>1
<1>4. /\ \A a, b, c, d : Fits(Keyword("TRUE", <<a, b, c, d>>, 3))
      /\ \A a, b, c, d, e : Fits(Keyword("FALSE", <<a, b, c, d, e>>, 4))
  <2>1. 4 \in 2..6 /\ 5 \in 2..6 /\ 4 # 2 /\ 5 # 2 /\ 4 - 1 = 3 /\ 5 - 1 = 4
    OBVIOUS
  <2> HIDE DEF Fits
  <2>2. QED
    BY <1>1, <1>2, <2>1
<1>5. \A k \in Keywords : Fits(k)
  <2> HIDE DEF Fits
  <2>1. QED
    BY <1>3, <1>4, ZenonT(60) DEF Keywords
<1>6. QED
  BY <1>5

\* No two keywords of a length begin with the same two letters.
LEMMA KeywordsDiffer ==
  \A k, l \in Keywords :
    Len(k.word) = Len(l.word) /\ k.word[1] = l.word[1] /\ k.word[2] = l.word[2] => k = l
BY DEF Keywords, Keyword

LEMMA SingleTypes ==
  /\ SingleCharacter["("] = "LEFT_PAREN" /\ SingleCharacter[")"] = "RIGHT_PAREN"
  /\ SingleCharacter["{"] = "LEFT_BRACE" /\ SingleCharacter["}"] = "RIGHT_BRACE"
  /\ SingleCharacter[","] = "COMMA" /\ SingleCharacter["."] = "DOT"
  /\ SingleCharacter["-"] = "MINUS" /\ SingleCharacter["+"] = "PLUS"
  /\ SingleCharacter[";"] = "SEMICOLON" /\ SingleCharacter["/"] = "SLASH"
  /\ SingleCharacter["*"] = "STAR"
BY ZenonT(60) DEF SingleCharacter

LEMMA DoubleTypes ==
  /\ OneOrTwo["!"] = <<"BANG", "BANG_EQUAL">>
  /\ OneOrTwo["="] = <<"EQUAL", "EQUAL_EQUAL">>
  /\ OneOrTwo[">"] = <<"GREATER", "GREATER_EQUAL">>
  /\ OneOrTwo["<"] = <<"LESS", "LESS_EQUAL">>
BY ZenonT(60) DEF OneOrTwo

LEMMA OperatorDomains ==
  /\ DOMAIN SingleCharacter = {"(", ")", "{", "}", ",", ".", "-", "+", ";", "/", "*"}
  /\ DOMAIN OneOrTwo = {"!", "=", ">", "<"}
  /\ DOMAIN SingleCharacter \cap DOMAIN OneOrTwo = {}
<1>1. /\ DOMAIN SingleCharacter = {"(", ")", "{", "}", ",", ".", "-", "+", ";", "/", "*"}
      /\ DOMAIN OneOrTwo = {"!", "=", ">", "<"}
  BY DEF SingleCharacter, OneOrTwo
<1>2. QED
  BY <1>1, ZenonT(60)

\* The tables of GetNextToken are the operators of the grammar, all of them.
LEMMA OperatorTable ==
  /\ \A c \in DOMAIN SingleCharacter : Operator(SingleCharacter[c], <<c>>) \in Operators
  /\ \A c \in DOMAIN OneOrTwo : /\ Operator(OneOrTwo[c][1], <<c>>) \in Operators
                                /\ Operator(OneOrTwo[c][2], <<c, "=">>) \in Operators
  /\ \A o \in Operators :
       \/ \E c \in DOMAIN SingleCharacter : o = Operator(SingleCharacter[c], <<c>>)
       \/ \E c \in DOMAIN OneOrTwo : \/ o = Operator(OneOrTwo[c][1], <<c>>)
                                     \/ o = Operator(OneOrTwo[c][2], <<c, "=">>)
<1> DEFINE One(c, type) == Operator(type, <<c>>) \in Operators
           Two(c, type) == Operator(type, <<c, "=">>) \in Operators
           InTable(o) ==
             \/ \E c \in DOMAIN SingleCharacter : o = Operator(SingleCharacter[c], <<c>>)
             \/ \E c \in DOMAIN OneOrTwo : \/ o = Operator(OneOrTwo[c][1], <<c>>)
                                           \/ o = Operator(OneOrTwo[c][2], <<c, "=">>)
<1>1. /\ OneOrTwo["!"][1] = "BANG" /\ OneOrTwo["!"][2] = "BANG_EQUAL"
      /\ OneOrTwo["="][1] = "EQUAL" /\ OneOrTwo["="][2] = "EQUAL_EQUAL"
      /\ OneOrTwo[">"][1] = "GREATER" /\ OneOrTwo[">"][2] = "GREATER_EQUAL"
      /\ OneOrTwo["<"][1] = "LESS" /\ OneOrTwo["<"][2] = "LESS_EQUAL"
  BY DoubleTypes
<1>2. \A c \in DOMAIN SingleCharacter : One(c, SingleCharacter[c])
  <2>1. /\ One("(", "LEFT_PAREN") /\ One(")", "RIGHT_PAREN") /\ One("{", "LEFT_BRACE")
        /\ One("}", "RIGHT_BRACE") /\ One(",", "COMMA") /\ One(".", "DOT") /\ One("-", "MINUS")
        /\ One("+", "PLUS") /\ One(";", "SEMICOLON") /\ One("/", "SLASH") /\ One("*", "STAR")
    BY ZenonT(60) DEF Operators
  <2> HIDE DEF One
  <2>2. QED
    BY <2>1, SingleTypes, OperatorDomains, ZenonT(60)
<1>3. \A c \in DOMAIN OneOrTwo : One(c, OneOrTwo[c][1]) /\ Two(c, OneOrTwo[c][2])
  <2>1. /\ One("!", "BANG") /\ Two("!", "BANG_EQUAL") /\ One("=", "EQUAL")
        /\ Two("=", "EQUAL_EQUAL") /\ One(">", "GREATER") /\ Two(">", "GREATER_EQUAL")
        /\ One("<", "LESS") /\ Two("<", "LESS_EQUAL")
    BY ZenonT(60) DEF Operators
  <2> HIDE DEF One, Two
  <2>2. QED
    BY <1>1, <2>1, OperatorDomains, ZenonT(60)
<1>4. \A o \in Operators : InTable(o)
  <2>1. \A c, type : c \in DOMAIN SingleCharacter /\ type = SingleCharacter[c] =>
                       InTable(Operator(type, <<c>>))
    OBVIOUS
  <2>2. \A c, type : c \in DOMAIN OneOrTwo /\ type = OneOrTwo[c][1] =>
                       InTable(Operator(type, <<c>>))
    OBVIOUS
  <2>3. \A c, type : c \in DOMAIN OneOrTwo /\ type = OneOrTwo[c][2] =>
                       InTable(Operator(type, <<c, "=">>))
    OBVIOUS
  <2> HIDE DEF InTable
  <2>4. /\ InTable(Operator("LEFT_PAREN", <<"(">>)) /\ InTable(Operator("RIGHT_PAREN", <<")">>))
        /\ InTable(Operator("LEFT_BRACE", <<"{">>)) /\ InTable(Operator("RIGHT_BRACE", <<"}">>))
        /\ InTable(Operator("COMMA", <<",">>)) /\ InTable(Operator("DOT", <<".">>))
        /\ InTable(Operator("MINUS", <<"-">>)) /\ InTable(Operator("PLUS", <<"+">>))
        /\ InTable(Operator("SEMICOLON", <<";">>)) /\ InTable(Operator("SLASH", <<"/">>))
        /\ InTable(Operator("STAR", <<"*">>))
    BY <2>1, SingleTypes, OperatorDomains, ZenonT(60)
  <2>5. /\ InTable(Operator("BANG", <<"!">>)) /\ InTable(Operator("BANG_EQUAL", <<"!", "=">>))
        /\ InTable(Operator("EQUAL", <<"=">>)) /\ InTable(Operator("EQUAL_EQUAL", <<"=", "=">>))
        /\ InTable(Operator("LESS", <<"<">>)) /\ InTable(Operator("LESS_EQUAL", <<"<", "=">>))
        /\ InTable(Operator("GREATER", <<">">>))
        /\ InTable(Operator("GREATER_EQUAL", <<">", "=">>))
    BY <1>1, <2>2, <2>3, OperatorDomains, ZenonT(60)
  <2>6. QED
    BY <2>4, <2>5, ZenonT(60) DEF Operators
<1>5. QED
  BY <1>2, <1>3, <1>4, ZenonT(60)

\* The kind of an operator is the one in the table.
LEMMA OperatorKind ==
  ASSUME NEW w \in Seq(STRING), NEW o \in Operators, w = o.text
  PROVE  Kind(w) = o.type
<1> DEFINE p == CHOOSE p \in Operators : p.text = w
<1>1. IsOperator(w)
  BY DEF IsOperator
<1>2. w # <<>>
  BY OperatorFirst
<1>3. w[1] \in DOMAIN SingleCharacter \cup DOMAIN OneOrTwo
  BY OperatorFirst
<1>4. ~IsNumber(w) /\ ~IsString(w)
  BY <1>2, <1>3, OneKindOfLexeme
<1>5. p \in Operators /\ p.text = w
  OBVIOUS
<1>6. Kind(w) = p.type
  BY <1>1, <1>4 DEF Kind
<1> HIDE DEF p
<1>7. p.type = o.type
  <2>1. \A t, c, d : /\ Operator(t, <<c>>).text = <<c>> /\ Operator(t, <<c>>).type = t
                     /\ Operator(t, <<c, d>>).text = <<c, d>> /\ Operator(t, <<c, d>>).type = t
    BY DEF Operator
  <2>2. \A c, d, e : <<c>> # <<d, e>>
    OBVIOUS
  <2>3. /\ \A c, d : <<c>> = <<d>> => c = d
        /\ \A c, d, e, f : <<c, e>> = <<d, f>> => c = d
    OBVIOUS
  <2> DEFINE Row(x) ==
               \/ \E c \in DOMAIN SingleCharacter : x.text = <<c>> /\ x.type = SingleCharacter[c]
               \/ \E c \in DOMAIN OneOrTwo : x.text = <<c>> /\ x.type = OneOrTwo[c][1]
               \/ \E c \in DOMAIN OneOrTwo : x.text = <<c, "=">> /\ x.type = OneOrTwo[c][2]
  <2>4. \A x \in Operators : Row(x)
    <3>1. \A c \in DOMAIN SingleCharacter : Row(Operator(SingleCharacter[c], <<c>>))
      BY <2>1
    <3>2. \A c \in DOMAIN OneOrTwo : Row(Operator(OneOrTwo[c][1], <<c>>))
      BY <2>1
    <3>3. \A c \in DOMAIN OneOrTwo : Row(Operator(OneOrTwo[c][2], <<c, "=">>))
      BY <2>1
    <3> HIDE DEF Row
    <3>4. QED
      BY <3>1, <3>2, <3>3, OperatorTable
  <2>5. Row(o) /\ Row(p)
    BY <1>5, <2>4
  <2>6. \A c \in DOMAIN SingleCharacter : c \notin DOMAIN OneOrTwo
    BY OperatorDomains
  <2>7. CASE \E c \in DOMAIN SingleCharacter : w = <<c>> /\ o.type = SingleCharacter[c]
    <3>1. PICK c \in DOMAIN SingleCharacter : w = <<c>> /\ o.type = SingleCharacter[c]
      BY <2>7
    <3>2. p.text = <<c>>
      BY <1>5, <3>1
    <3>3. QED
      BY <2>2, <2>3, <2>5, <2>6, <3>1, <3>2
  <2>8. CASE \E c \in DOMAIN OneOrTwo : w = <<c>> /\ o.type = OneOrTwo[c][1]
    <3>1. PICK c \in DOMAIN OneOrTwo : w = <<c>> /\ o.type = OneOrTwo[c][1]
      BY <2>8
    <3>2. p.text = <<c>>
      BY <1>5, <3>1
    <3>3. QED
      BY <2>2, <2>3, <2>5, <2>6, <3>1, <3>2
  <2>9. CASE \E c \in DOMAIN OneOrTwo : w = <<c, "=">> /\ o.type = OneOrTwo[c][2]
    <3>1. PICK c \in DOMAIN OneOrTwo : w = <<c, "=">> /\ o.type = OneOrTwo[c][2]
      BY <2>9
    <3>2. p.text = <<c, "=">>
      BY <1>5, <3>1
    <3>3. QED
      BY <2>2, <2>3, <2>5, <3>1, <3>2
  <2>10. QED
    BY <2>5, <2>7, <2>8, <2>9
<1>8. QED
  BY <1>6, <1>7

\* A text that is not empty.
LEMMA TextAt ==
  ASSUME m_source \in Sources, NEW s \in 0..(Length - 1), NEW e \in (s + 1)..Length
  PROVE  LET w == Text(s, e) IN
         /\ w \in Seq(STRING) /\ w # <<>> /\ Len(w) = e - s /\ DOMAIN w = 1..(e - s)
         /\ w[1] = Char(s)
         /\ \A k \in 1..(e - s) : w[k] = Char(s + k - 1)
         /\ \A x \in s..(e - 1) : x - s + 1 \in DOMAIN w /\ w[x - s + 1] = Char(x)
<1> DEFINE w == Text(s, e)
<1>1. Length \in Nat
  BY SourceLength
<1>2. s \in 0..Length /\ e \in s..Length /\ s \in Nat /\ e \in Nat /\ e - s >= 1
  BY <1>1
<1>3. w \in Seq(STRING) /\ Len(w) = e - s /\ \A k \in 1..(e - s) : w[k] = Char(s + k - 1)
  BY <1>2, TextFacts
<1> HIDE DEF w
<1>4. DOMAIN w = 1..(e - s) /\ w # <<>>
  BY <1>2, <1>3
<1>5. w[1] = Char(s)
  <2>1. 1 \in 1..(e - s) /\ s + 1 - 1 = s
    BY <1>2
  <2>2. QED
    BY <1>3, <2>1
<1>6. ASSUME NEW x \in s..(e - 1)
      PROVE  x - s + 1 \in DOMAIN w /\ w[x - s + 1] = Char(x)
  <2>1. x - s + 1 \in 1..(e - s) /\ s + (x - s + 1) - 1 = x
    BY <1>2
  <2>2. QED
    BY <1>3, <1>4, <2>1
<1>7. QED
  BY <1>3, <1>4, <1>5, <1>6 DEF w

\* What LongestMatch says of an answer of the scanner.
Longest(s, answer) ==
  /\ IsLexeme(Text(s, answer.end)) /\ answer.type = Kind(Text(s, answer.end))
  /\ \A e \in (answer.end + 1)..Length : ~IsLexeme(Text(s, e))

LEMMA OneKeyword ==
  ASSUME NEW w, NEW k \in Keywords, NEW l \in Keywords, Spells(w, k), Spells(w, l)
  PROVE  k = l
<1>1. \A m \in Keywords : Spells(w, m) =>
        Len(w) = Len(m.word) /\ w[1] = m.word[1] /\ w[2] = m.word[2]
  <2> SUFFICES ASSUME NEW m \in Keywords, Spells(w, m)
               PROVE  Len(w) = Len(m.word) /\ w[1] = m.word[1] /\ w[2] = m.word[2]
    OBVIOUS
  <2> DEFINE n == Len(m.word) - (IF m.type \in {"TRUE", "FALSE"} THEN 1 ELSE 0)
  <2>1. n = m.compared /\ m.compared \in Nat /\ m.compared >= 2
    <3>1. n = m.compared /\ Len(m.word) \in 2..6 /\ m.compared \in 2..Len(m.word)
      BY KeywordLengths
    <3> HIDE DEF n
    <3>2. QED
      BY <3>1
  <2>2. Len(w) = Len(m.word) /\ \A i \in 1..n : w[i] = m.word[i]
    BY DEF Spells
  <2> HIDE DEF n
  <2>3. 1 \in 1..n /\ 2 \in 1..n
    BY <2>1
  <2>4. QED
    BY <2>2, <2>3
<1>2. QED
  BY <1>1, KeywordsDiffer

\* getTokenType finds the keyword that the word spells.
LEMMA WordKind ==
  ASSUME m_source \in Sources, NEW s \in 0..(Length - 1), NEW e \in (s + 1)..Length,
         Char(s) \in Letters
  PROVE  TokenType(s, e) = Kind(Text(s, e))
<1> DEFINE w == Text(s, e)
           found == {k \in Keywords : /\ Len(k.word) = e - s
                                      /\ \A i \in 1..k.compared : Char(s + i - 1) = k.word[i]}
<1>1. /\ w \in Seq(STRING) /\ w # <<>> /\ Len(w) = e - s /\ w[1] = Char(s)
      /\ \A k \in 1..(e - s) : w[k] = Char(s + k - 1)
  BY TextAt
<1>2. TokenType(s, e) = IF found = {} THEN "IDENTIFIER" ELSE (CHOOSE k \in found : TRUE).type
  BY DEF TokenType
<1> HIDE DEF w
<1>3. Kind(w) = IF \E k \in Keywords : Spells(w, k)
                THEN (CHOOSE k \in Keywords : Spells(w, k)).type ELSE "IDENTIFIER"
  BY <1>1, OneKindOfLexeme DEF Kind
<1>4. \A k \in Keywords : k \in found <=> Spells(w, k)
  <2> SUFFICES ASSUME NEW k \in Keywords
               PROVE  k \in found <=> Spells(w, k)
    OBVIOUS
  <2> DEFINE n == Len(k.word) - (IF k.type \in {"TRUE", "FALSE"} THEN 1 ELSE 0)
  <2>1. n = k.compared /\ k.compared \in 2..Len(k.word) /\ Len(k.word) \in 2..6
    BY KeywordLengths
  <2>2. Spells(w, k) <=> Len(w) = Len(k.word) /\ \A i \in 1..n : w[i] = k.word[i]
    BY DEF Spells
  <2> HIDE DEF n
  <2>3. Len(k.word) = e - s => \A i \in 1..k.compared : i \in 1..(e - s)
    BY <2>1
  <2>4. QED
    BY <1>1, <2>1, <2>2, <2>3
<1> HIDE DEF found
<1>5. found \subseteq Keywords
  BY DEF found
<1>6. CASE found = {}
  BY <1>2, <1>3, <1>4, <1>6 DEF w
<1>7. CASE found # {}
  <2> DEFINE k == CHOOSE k \in found : TRUE
             l == CHOOSE l \in Keywords : Spells(w, l)
  <2>1. k \in found
    BY <1>7
  <2>2. l \in Keywords /\ Spells(w, l)
    BY <1>4, <1>5, <1>7
  <2>3. TokenType(s, e) = k.type /\ Kind(w) = l.type
    BY <1>2, <1>3, <1>7, <2>2
  <2> HIDE DEF k, l
  <2>4. k = l
    BY <1>4, <1>5, <2>1, <2>2, OneKeyword
  <2>5. QED
    BY <2>3, <2>4 DEF w
<1>8. QED
  BY <1>6, <1>7

LEMMA WordLongest ==
  ASSUME m_source \in Sources, NEW s \in 0..(Length - 1), Char(s) \in Letters
  PROVE  Longest(s, IdentifierOrKeyword(s))
<1> DEFINE Class == Letters \cup Digits \cup {"_"}
           end == EndOfRun(s + 1, Class)
<1>1. Length \in Nat /\ s + 1 \in 0..Length
  BY SourceLength
<1> HIDE DEF Class
<1>2. /\ end \in (s + 1)..Length
      /\ \A k \in (s + 1)..(end - 1) : Char(k) \in Class
      /\ end < Length => Char(end) \notin Class
  BY <1>1, RunEnds
<1>3. IdentifierOrKeyword(s).end = end /\ IdentifierOrKeyword(s).type = TokenType(s, end)
  BY DEF IdentifierOrKeyword, Answer, Class
<1> HIDE DEF end
<1>4. \A w : IsWord(w) <=> w # <<>> /\ w[1] \in Letters /\ \A i \in DOMAIN w : w[i] \in Class
  BY DEF IsWord, Class
<1>5. IsWord(Text(s, end))
  <2> DEFINE w == Text(s, end)
  <2>1. /\ w # <<>> /\ w[1] = Char(s) /\ DOMAIN w = 1..(end - s)
        /\ \A k \in 1..(end - s) : w[k] = Char(s + k - 1)
    BY <1>2, TextAt
  <2>2. ASSUME NEW i \in 1..(end - s)
        PROVE  Char(s + i - 1) \in Class
    <3>1. CASE i = 1
      <4>1. s + i - 1 = s
        BY <3>1
      <4>2. QED
        BY <4>1 DEF Class
    <3>2. CASE i # 1
      <4>1. s + i - 1 \in (s + 1)..(end - 1)
        BY <1>1, <1>2, <3>2
      <4>2. QED
        BY <1>2, <4>1
    <3>3. QED
      BY <3>1, <3>2
  <2> HIDE DEF w
  <2>3. IsWord(w)
    BY <1>4, <2>1, <2>2
  <2>4. QED
    BY <2>3 DEF w
<1>6. TokenType(s, end) = Kind(Text(s, end))
  BY <1>2, WordKind
<1>7. ASSUME NEW e \in (end + 1)..Length
      PROVE  ~IsLexeme(Text(s, e))
  <2> DEFINE w == Text(s, e)
  <2>1. e \in (s + 1)..Length /\ end \in s..(e - 1) /\ end < Length
    BY <1>1, <1>2
  <2>2. /\ w \in Seq(STRING) /\ w # <<>> /\ w[1] = Char(s)
        /\ end - s + 1 \in DOMAIN w /\ w[end - s + 1] = Char(end)
    BY <2>1, TextAt
  <2> HIDE DEF w
  <2>3. ~IsWord(w)
    BY <1>2, <1>4, <2>1, <2>2
  <2>4. ~IsNumber(w) /\ ~IsString(w) /\ ~IsOperator(w)
    BY <2>2, OneKindOfLexeme
  <2>5. QED
    BY <2>3, <2>4 DEF IsLexeme, w
<1>8. QED
  BY <1>3, <1>5, <1>6, <1>7 DEF Longest, IsLexeme

LEMMA NumberLongest ==
  ASSUME m_source \in Sources, NEW s \in 0..(Length - 1), Char(s) \in Digits
  PROVE  Longest(s, NumberLiteral(s + 1))
<1> DEFINE point == EndOfRun(s + 1, Digits)
           fraction == EndOfRun(point + 1, Digits)
           Dotted == point < Length /\ Char(point) = "."
           end == IF Dotted THEN fraction ELSE point
<1>1. Length \in Nat /\ s \in Nat /\ s + 1 \in 0..Length
  BY SourceLength
<1>2. /\ point \in (s + 1)..Length
      /\ \A k \in (s + 1)..(point - 1) : Char(k) \in Digits
      /\ point < Length => Char(point) \notin Digits
  BY <1>1, RunEnds
<1>3. NumberLiteral(s + 1).end = end /\ NumberLiteral(s + 1).type = "NUMBER"
  BY DEF NumberLiteral, Answer
<1>4. Dotted => /\ fraction \in (point + 1)..Length
                /\ \A k \in (point + 1)..(fraction - 1) : Char(k) \in Digits
                /\ fraction < Length => Char(fraction) \notin Digits
  <2> HIDE DEF point
  <2> SUFFICES ASSUME Dotted
               PROVE  /\ fraction \in (point + 1)..Length
                      /\ \A k \in (point + 1)..(fraction - 1) : Char(k) \in Digits
                      /\ fraction < Length => Char(fraction) \notin Digits
    OBVIOUS
  <2>1. point + 1 \in 0..Length
    BY <1>1, <1>2
  <2>2. QED
    BY <1>1, <2>1, RunEnds
<1> HIDE DEF point, fraction
<1>5. /\ end \in (s + 1)..Length /\ point <= end
      /\ Dotted => end = fraction /\ point < end
      /\ ~Dotted => end = point
  BY <1>1, <1>2, <1>4
<1> HIDE DEF Dotted, end
<1>6. point \in Nat /\ end \in Nat /\ s < point
  BY <1>1, <1>2, <1>5
<1>7. \A w : IsNumber(w) <=>
        /\ w # <<>> /\ w[1] \in Digits
        /\ \E p \in 1..(Len(w) + 1) :
             \A i \in DOMAIN w : IF i = p THEN w[i] = "." ELSE w[i] \in Digits
  BY DEF IsNumber, Digit
<1>8. IsNumber(Text(s, end))
  <2> DEFINE w == Text(s, end)
             p == point - s + 1
  <2>1. /\ w # <<>> /\ w[1] = Char(s) /\ Len(w) = end - s /\ DOMAIN w = 1..(end - s)
        /\ \A k \in 1..(end - s) : w[k] = Char(s + k - 1)
    BY <1>5, TextAt
  <2> HIDE DEF w
  <2>2. p \in 1..(Len(w) + 1)
    BY <1>1, <1>5, <1>6, <2>1
  <2>3. ASSUME NEW i \in 1..(end - s)
        PROVE  IF i = p THEN Char(s + i - 1) = "." ELSE Char(s + i - 1) \in Digits
    <3> DEFINE x == s + i - 1
    <3>1. x \in s..(end - 1) /\ x \in Nat /\ (i = p <=> x = point)
      BY <1>1, <1>5, <1>6
    <3> HIDE DEF x, p
    <3>2. CASE x = s
      BY <1>6, <3>1, <3>2 DEF x
    <3>3. CASE x # s /\ x < point
      <4>1. x \in (s + 1)..(point - 1)
        BY <1>1, <1>6, <3>1, <3>3
      <4>2. x # point
        BY <1>6, <3>1, <3>3
      <4>3. QED
        BY <1>2, <3>1, <4>1, <4>2 DEF x
    <3>4. CASE x = point
      <4>1. Dotted
        BY <1>1, <1>5, <1>6, <3>1, <3>4
      <4>2. Char(x) = "."
        BY <3>4, <4>1 DEF Dotted
      <4>3. QED
        BY <3>1, <3>4, <4>2 DEF x
    <3>5. CASE x > point
      <4>1. x # point /\ Dotted
        BY <1>1, <1>5, <1>6, <3>1, <3>5
      <4>2. x \in (point + 1)..(fraction - 1)
        BY <1>1, <1>4, <1>5, <1>6, <3>1, <3>5, <4>1
      <4>3. Char(x) \in Digits
        BY <1>4, <4>1, <4>2
      <4>4. QED
        BY <3>1, <4>1, <4>3 DEF x
    <3>6. x = s \/ (x # s /\ x < point) \/ x = point \/ x > point
      BY <1>6, <3>1
    <3>7. QED
      BY <3>2, <3>3, <3>4, <3>5, <3>6
  <2>4. \A i \in DOMAIN w : IF i = p THEN w[i] = "." ELSE w[i] \in Digits
    <3> HIDE DEF p
    <3>1. QED
      BY <2>1, <2>3
  <2> HIDE DEF p
  <2>5. IsNumber(w)
    BY <1>7, <2>1, <2>2, <2>4
  <2>6. QED
    BY <2>5 DEF w
<1>9. ASSUME NEW e \in (end + 1)..Length
      PROVE  ~IsLexeme(Text(s, e))
  <2> DEFINE w == Text(s, e)
  <2>1. /\ e \in (s + 1)..Length /\ end \in s..(e - 1) /\ point \in s..(e - 1)
        /\ end < Length /\ point < Length
    BY <1>1, <1>5, <1>6
  <2>2. /\ w \in Seq(STRING) /\ w # <<>> /\ w[1] = Char(s)
        /\ end - s + 1 \in DOMAIN w /\ w[end - s + 1] = Char(end)
        /\ point - s + 1 \in DOMAIN w /\ w[point - s + 1] = Char(point)
    BY <2>1, TextAt
  <2> HIDE DEF w
  <2>3. ASSUME IsNumber(w)
        PROVE  FALSE
    <3>1. PICK p \in 1..(Len(w) + 1) :
                 \A i \in DOMAIN w : IF i = p THEN w[i] = "." ELSE w[i] \in Digits
      BY <1>7, <2>3
    <3>2. Char(point) \notin Digits
      BY <1>2, <2>1
    <3>3. p = point - s + 1 /\ Char(point) = "."
      BY <2>2, <3>1, <3>2
    <3>4. Dotted
      BY <2>1, <3>3 DEF Dotted
    <3>5. end = fraction /\ point < end /\ Char(end) \notin Digits
      BY <1>4, <1>5, <2>1, <3>4
    <3>6. end - s + 1 # p
      BY <1>1, <1>6, <3>3, <3>5
    <3>7. QED
      BY <2>2, <3>1, <3>5, <3>6
  <2>4. ~IsWord(w) /\ ~IsString(w) /\ ~IsOperator(w)
    BY <2>2, OneKindOfLexeme
  <2>5. QED
    BY <2>3, <2>4 DEF IsLexeme, w
<1>10. QED
  BY <1>3, <1>8, <1>9 DEF Longest, IsLexeme, Kind

LEMMA StringLongest ==
  ASSUME m_source \in Sources, NEW s \in 0..(Length - 1), Char(s) = Quote,
         StringLiteral(s + 1).type \notin {"error", "aborted"}
  PROVE  Longest(s, StringLiteral(s + 1))
<1> DEFINE quote == FirstOf(s + 1, Quote)
           answer == StringLiteral(s + 1)
<1>1. Length \in Nat /\ s \in Nat /\ s + 1 \in 0..Length
  BY SourceLength
<1>2. /\ quote \in (s + 1)..Length
      /\ \A k \in (s + 1)..(quote - 1) : Char(k) # Quote
      /\ quote < Length => Char(quote) = Quote
  BY <1>1, FirstOfFound
<1>3. quote # Length /\ answer.end = quote + 1 /\ answer.type = "STRING"
  <2>1. \A i : \/ StringLiteral(i).type \in {"error", "aborted"}
               \/ /\ FirstOf(i, Quote) # Length /\ StringLiteral(i).end = FirstOf(i, Quote) + 1
                  /\ StringLiteral(i).type = "STRING"
    BY DEF StringLiteral, Answer, Quote
  <2>2. QED
    BY <2>1
<1> HIDE DEF quote, answer
<1>4. quote \in Nat /\ s < quote /\ quote < Length /\ Char(quote) = Quote
  BY <1>1, <1>2, <1>3
<1>5. \A w : IsString(w) <=> /\ Len(w) >= 2
                             /\ \A i \in DOMAIN w : w[i] = Quote <=> i \in {1, Len(w)}
  BY DEF IsString, Quote
<1>6. ASSUME NEW e \in (quote + 1)..Length
      PROVE  LET w == Text(s, e) IN
             /\ w \in Seq(STRING) /\ w # <<>> /\ w[1] = Char(s) /\ Len(w) = e - s
             /\ DOMAIN w = 1..(e - s) /\ \A k \in 1..(e - s) : w[k] = Char(s + k - 1)
             /\ quote - s + 1 \in DOMAIN w /\ w[quote - s + 1] = Char(quote)
  <2>1. e \in (s + 1)..Length /\ quote \in s..(e - 1)
    BY <1>1, <1>4
  <2>2. QED
    BY <2>1, TextAt
<1>7. IsString(Text(s, quote + 1))
  <2> DEFINE w == Text(s, quote + 1)
  <2>1. /\ w # <<>> /\ w[1] = Char(s) /\ Len(w) = (quote + 1) - s
        /\ DOMAIN w = 1..((quote + 1) - s) /\ \A k \in 1..((quote + 1) - s) : w[k] = Char(s + k - 1)
    <3>1. quote + 1 \in (quote + 1)..Length
      BY <1>1, <1>4
    <3>2. QED
      BY <1>6, <3>1
  <2> HIDE DEF w
  <2>2. Len(w) >= 2
    <3>1. (quote + 1) - s >= 2
      BY <1>1, <1>4
    <3>2. QED
      BY <2>1, <3>1
  <2>3. ASSUME NEW i \in DOMAIN w
        PROVE  w[i] = Quote <=> i \in {1, Len(w)}
    <3> DEFINE x == s + i - 1
    <3>1. w[i] = Char(x)
      BY <2>1
    <3>2. \/ i = 1 /\ x = s
          \/ i = Len(w) /\ x = quote
          \/ i # 1 /\ i # Len(w) /\ x \in (s + 1)..(quote - 1)
      <4>1. i \in 1..((quote + 1) - s) /\ Len(w) = (quote + 1) - s
        BY <2>1
      <4>2. s \in Nat /\ quote \in Nat /\ s < quote
        BY <1>1, <1>4
      <4>3. QED
        BY <4>1, <4>2, SMT
    <3> HIDE DEF x
    <3>3. QED
      BY <1>2, <1>4, <3>1, <3>2, Zenon
  <2>4. IsString(w)
    BY <1>5, <2>2, <2>3, Zenon
  <2>5. QED
    BY <2>4 DEF w
<1>8. answer.type = Kind(Text(s, quote + 1))
  <2> DEFINE w == Text(s, quote + 1)
  <2>1. w \in Seq(STRING) /\ w # <<>> /\ w[1] = Quote
    <3>1. quote + 1 \in (quote + 1)..Length
      BY <1>1, <1>4
    <3>2. QED
      BY <1>6, <3>1
  <2> HIDE DEF w
  <2>2. ~IsNumber(w)
    BY <2>1, OneKindOfLexeme
  <2>3. QED
    BY <1>3, <1>7, <2>2 DEF Kind, w
<1>9. ASSUME NEW e \in (quote + 1 + 1)..Length
      PROVE  ~IsLexeme(Text(s, e))
  <2> DEFINE w == Text(s, e)
  <2>1. /\ w \in Seq(STRING) /\ w # <<>> /\ w[1] = Quote /\ Len(w) = e - s
        /\ quote - s + 1 \in DOMAIN w /\ w[quote - s + 1] = Quote
    <3>1. e \in (quote + 1)..Length
      BY <1>1, <1>4
    <3>2. QED
      BY <1>4, <1>6, <3>1
  <2> HIDE DEF w
  <2>2. quote - s + 1 # 1 /\ quote - s + 1 # e - s
    BY <1>1, <1>4
  <2>3. ~IsString(w)
    BY <1>5, <2>1, <2>2, Zenon
  <2>4. ~IsNumber(w) /\ ~IsWord(w) /\ ~IsOperator(w)
    BY <2>1, OneKindOfLexeme
  <2>5. QED
    BY <2>3, <2>4 DEF IsLexeme, w
<1>10. QED
  BY <1>3, <1>7, <1>8, <1>9 DEF Longest, IsLexeme, answer

LEMMA OperatorText ==
  ASSUME NEW w \in Seq(STRING), NEW type, NEW text, Operator(type, text) \in Operators, w = text
  PROVE  IsLexeme(w) /\ Kind(w) = type
<1> DEFINE o == Operator(type, text)
<1>1. o.text = text /\ o.type = type
  BY DEF Operator
<1> HIDE DEF o
<1>2. o \in Operators
  BY DEF o
<1>3. IsOperator(w)
  BY <1>1, <1>2 DEF IsOperator
<1>4. Kind(w) = o.type
  BY <1>1, <1>2, OperatorKind
<1>5. QED
  BY <1>1, <1>3, <1>4 DEF IsLexeme

LEMMA SingleLongest ==
  ASSUME m_source \in Sources, NEW s \in 0..(Length - 1), Char(s) \in DOMAIN SingleCharacter
  PROVE  Longest(s, Answer(SingleCharacter[Char(s)], s + 1))
<1> DEFINE c == Char(s)
           answer == Answer(SingleCharacter[c], s + 1)
<1>1. Length \in Nat /\ s \in Nat /\ s < Length
  BY SourceLength
<1>2. answer.end = s + 1 /\ answer.type = SingleCharacter[c]
  BY DEF Answer
<1> HIDE DEF answer
<1>3. IsLexeme(Text(s, s + 1)) /\ Kind(Text(s, s + 1)) = SingleCharacter[c]
  <2> DEFINE w == Text(s, s + 1)
  <2>1. w \in Seq(STRING) /\ Len(w) = 1 /\ w[1] = c
    <3>1. s + 1 \in (s + 1)..Length /\ (s + 1) - s = 1
      BY <1>1
    <3>2. QED
      BY <3>1, TextAt
  <2>2. w = <<c>>
    <3> HIDE DEF w, c
    <3>1. QED
      BY <2>1
  <2>3. Operator(SingleCharacter[c], <<c>>) \in Operators
    BY OperatorTable
  <2> HIDE DEF w, c
  <2>4. IsLexeme(w) /\ Kind(w) = SingleCharacter[c]
    BY <2>1, <2>2, <2>3, OperatorText
  <2>5. QED
    BY <2>4 DEF w
<1>4. ASSUME NEW e \in (s + 1 + 1)..Length
      PROVE  ~IsLexeme(Text(s, e))
  <2> DEFINE w == Text(s, e)
  <2>1. e \in (s + 1)..Length /\ e - s >= 2
    BY <1>1
  <2>2. w \in Seq(STRING) /\ w # <<>> /\ w[1] = c /\ Len(w) = e - s
    BY <2>1, TextAt
  <2> HIDE DEF w
  <2>3. ~IsNumber(w) /\ ~IsWord(w) /\ ~IsString(w)
    BY <2>2, OneKindOfLexeme
  <2>4. c \notin DOMAIN OneOrTwo
    BY OperatorDomains
  <2>5. ASSUME IsOperator(w)
        PROVE  FALSE
    <3>1. Len(w) \in 1..2 /\ (Len(w) = 2 => w[1] \in DOMAIN OneOrTwo)
      BY <2>2, <2>5, LexemeFirst
    <3>2. Len(w) = 2
      BY <2>1, <2>2, <3>1
    <3>3. QED
      BY <2>2, <2>4, <3>1, <3>2
  <2>6. QED
    BY <2>3, <2>5 DEF IsLexeme, w
<1>5. QED
  BY <1>2, <1>3, <1>4 DEF Longest, answer

LEMMA DoubleLongest ==
  ASSUME m_source \in Sources, NEW s \in 0..(Length - 1), Char(s) \in DOMAIN OneOrTwo,
         MatchEqual(s + 1, OneOrTwo[Char(s)]).type # "error"
  PROVE  Longest(s, MatchEqual(s + 1, OneOrTwo[Char(s)]))
<1> DEFINE c == Char(s)
           answer == MatchEqual(s + 1, OneOrTwo[c])
           Matched == Char(s + 1) = "="
           end == IF Matched THEN s + 2 ELSE s + 1
           type == IF Matched THEN OneOrTwo[c][2] ELSE OneOrTwo[c][1]
<1>1. Length \in Nat /\ s \in Nat /\ s < Length
  BY SourceLength
<1>2. s + 1 # Length /\ answer.end = end /\ answer.type = type
  <2>1. \A i, types : MatchEqual(i, types).type # "error" => i # Length
    BY DEF MatchEqual, Answer
  <2>2. s + 1 # Length
    BY <2>1
  <2>3. answer = IF Matched THEN Answer(OneOrTwo[c][2], s + 1 + 1)
                 ELSE Answer(OneOrTwo[c][1], s + 1)
    BY <2>2 DEF MatchEqual
  <2>4. s + 1 + 1 = s + 2
    BY <1>1
  <2>5. \A t, x : Answer(t, x).type = t /\ Answer(t, x).end = x
    BY DEF Answer
  <2> HIDE DEF answer, Matched
  <2>6. QED
    BY <2>2, <2>3, <2>4, <2>5
<1> HIDE DEF answer
<1>3. s + 1 < Length
  BY <1>1, <1>2
<1>4. ASSUME NEW e \in (s + 1)..Length
      PROVE  LET w == Text(s, e) IN
             /\ w \in Seq(STRING) /\ w # <<>> /\ w[1] = c /\ Len(w) = e - s
             /\ e - s >= 2 => w[2] = Char(s + 1)
  <2> DEFINE w == Text(s, e)
  <2>1. /\ w \in Seq(STRING) /\ w # <<>> /\ w[1] = c /\ Len(w) = e - s
        /\ \A k \in 1..(e - s) : w[k] = Char(s + k - 1)
    BY TextAt
  <2> HIDE DEF w
  <2>2. ASSUME e - s >= 2
        PROVE  w[2] = Char(s + 1)
    <3>1. 2 \in 1..(e - s) /\ s + 2 - 1 = s + 1
      BY <1>1, <2>2
    <3>2. QED
      BY <2>1, <3>1
  <2>3. QED
    BY <2>1, <2>2 DEF w
<1> HIDE DEF c
<1>5. c \in DOMAIN OneOrTwo
  BY DEF c
<1>6. IsLexeme(Text(s, end)) /\ Kind(Text(s, end)) = type
  <2> DEFINE w == Text(s, end)
  <2>1. CASE Matched
    <3>1. end = s + 2 /\ end \in (s + 1)..Length /\ end - s = 2
      BY <1>1, <1>3, <2>1
    <3> HIDE DEF end
    <3>2. w \in Seq(STRING) /\ Len(w) = 2 /\ w[1] = c /\ w[2] = "="
      <4>1. end - s >= 2
        BY <3>1
      <4>2. w \in Seq(STRING) /\ Len(w) = end - s /\ w[1] = c /\ w[2] = Char(s + 1)
        BY <1>4, <3>1, <4>1
      <4> HIDE DEF w
      <4>3. QED
        BY <2>1, <3>1, <4>2
    <3> HIDE DEF w
    <3>3. w = <<c, "=">>
      BY <3>2
    <3>4. Operator(OneOrTwo[c][2], <<c, "=">>) \in Operators
      BY <1>5, OperatorTable
    <3>5. IsLexeme(w) /\ Kind(w) = OneOrTwo[c][2]
      BY <3>2, <3>3, <3>4, OperatorText
    <3>6. QED
      BY <2>1, <3>5 DEF w
  <2>2. CASE ~Matched
    <3>1. end = s + 1 /\ end \in (s + 1)..Length /\ end - s = 1
      BY <1>1, <1>3, <2>2
    <3> HIDE DEF end
    <3>2. w \in Seq(STRING) /\ Len(w) = 1 /\ w[1] = c
      BY <1>4, <3>1
    <3> HIDE DEF w
    <3>3. w = <<c>>
      BY <3>2
    <3>4. Operator(OneOrTwo[c][1], <<c>>) \in Operators
      BY <1>5, OperatorTable
    <3>5. IsLexeme(w) /\ Kind(w) = OneOrTwo[c][1]
      BY <3>2, <3>3, <3>4, OperatorText
    <3>6. QED
      BY <2>2, <3>5 DEF w
  <2>3. QED
    BY <2>1, <2>2
<1>7. ASSUME NEW e \in (end + 1)..Length
      PROVE  ~IsLexeme(Text(s, e))
  <2> DEFINE w == Text(s, e)
  <2>1. e \in (s + 1)..Length /\ e - s >= 2 /\ (e - s = 2 => ~Matched)
    BY <1>1, <1>3
  <2>2. w \in Seq(STRING) /\ w # <<>> /\ w[1] = c /\ Len(w) = e - s /\ w[2] = Char(s + 1)
    BY <1>4, <2>1
  <2> HIDE DEF w
  <2>3. ~IsNumber(w) /\ ~IsWord(w) /\ ~IsString(w)
    BY <1>5, <2>2, OneKindOfLexeme
  <2>4. ASSUME IsOperator(w)
        PROVE  FALSE
    <3>1. Len(w) \in 1..2 /\ (Len(w) = 2 => w[2] = "=")
      BY <2>2, <2>4, LexemeFirst
    <3>2. Len(w) = 2
      BY <2>1, <2>2, <3>1
    <3>3. Matched
      BY <2>2, <3>1, <3>2
    <3>4. QED
      BY <2>1, <2>2, <3>2, <3>3
  <2>5. QED
    BY <2>3, <2>4 DEF IsLexeme, w
<1>8. QED
  BY <1>2, <1>6, <1>7 DEF Longest, answer, c

\* A token is the longest lexeme that begins where it begins, and of its kind.
LEMMA TokenLongest ==
  ASSUME m_source \in Sources, NEW s \in 0..(Length - 1),
         TokenAt(s).type \notin {"error", "aborted"}
  PROVE  Longest(s, TokenAt(s))
<1> DEFINE c == Char(s)
<1>1. CASE c \in Letters /\ TokenAt(s) = IdentifierOrKeyword(s)
  BY <1>1, WordLongest
<1>2. CASE c \in Digits /\ TokenAt(s) = NumberLiteral(s + 1)
  BY <1>2, NumberLongest
<1>3. CASE c \in DOMAIN SingleCharacter /\ TokenAt(s) = Answer(SingleCharacter[c], s + 1)
  BY <1>3, SingleLongest
<1>4. CASE c \in DOMAIN OneOrTwo /\ TokenAt(s) = MatchEqual(s + 1, OneOrTwo[c])
  <2>1. MatchEqual(s + 1, OneOrTwo[c]).type # "error"
    BY <1>4
  <2>2. QED
    BY <1>4, <2>1, DoubleLongest
<1>5. CASE c = Quote /\ TokenAt(s) = StringLiteral(s + 1)
  <2>1. StringLiteral(s + 1).type \notin {"error", "aborted"}
    BY <1>5
  <2>2. QED
    BY <1>5, <2>1, StringLongest
<1>6. CASE TokenAt(s) = Answer("error", s + 1)
  BY <1>6 DEF Answer
<1>7. QED
  BY <1>1, <1>2, <1>3, <1>4, <1>5, <1>6, TokenCases DEF Quote

NewestLongest ==
  \A i \in Newest :
    Longest(tokens[i].start,
            Answer(tokens[i].type, tokens[i].start + tokens[i].length))

LEMMA NewestLongestMeans == NewestLongest <=> LongestMatch
BY DEF NewestLongest, LongestMatch, Longest, Answer, Lexeme

LongestInv == InSource /\ TokensAreSequence /\ NewestLongest

LEMMA NextLongest ==
  ASSUME LongestInv, [Next]_vars
  PROVE  LongestInv'
<1> DEFINE n == Len(tokens)
           start == AfterBlanks
<1>1. InSource /\ InSource' /\ TokensAreSequence /\ NewestLongest /\ m_source \in Sources
  BY StaysInSource DEF LongestInv, InSource
<1>2. m_source' = m_source
  BY StreamSteps DEF StreamStays, TokenFound, ErrorFound, GetNextToken
<1>3. \A s, answer : Longest(s, answer)' = Longest(s, answer)
  BY <1>2 DEF Longest, Text, Length
<1>4. CASE TokenFound
  <2>1. tokens' = Append(tokens, Scanned) /\ Scanned.type \notin {"error", "aborted"}
    BY <1>4 DEF TokenFound
  <2>2. /\ TokensAreSequence' /\ Len(tokens') = n + 1 /\ tokens'[n + 1] = Scanned
    BY <1>1, <2>1, Appended
  <2>3. ASSUME Scanned.type # "TOKEN_EOF"
        PROVE  Longest(Scanned.start, Answer(Scanned.type, Scanned.start + Scanned.length))
    <3>1. /\ start \in m_current_index..(Length - 1) /\ m_current_index \in 0..Length
          /\ Length \in Nat /\ Scanned.start = start /\ Scanned.type = TokenAt(start).type
          /\ Scanned.start + Scanned.length = TokenAt(start).end
      BY <1>1, <1>4, <2>3, LexemeRead
    <3>2. start \in 0..(Length - 1)
      BY <3>1
    <3>3. Longest(start, TokenAt(start))
      BY <1>1, <2>1, <3>1, <3>2, TokenLongest
    <3> HIDE DEF start
    <3>4. QED
      BY <3>1, <3>3 DEF Longest, Answer
  <2>4. \A i : (i \in Newest)' => i = n + 1 /\ Scanned.type # "TOKEN_EOF"
    BY <2>2 DEF Newest, Real
  <2>5. NewestLongest'
    BY <1>3, <2>2, <2>3, <2>4 DEF NewestLongest
  <2>6. QED
    BY <1>1, <2>2, <2>5 DEF LongestInv
<1>5. CASE tokens' = tokens
  <2>1. Newest' = Newest /\ TokensAreSequence'
    BY <1>1, <1>5 DEF Newest, Real, TokensAreSequence
  <2>2. NewestLongest'
    BY <1>1, <1>3, <1>5, <2>1 DEF NewestLongest
  <2>3. QED
    BY <1>1, <2>1, <2>2 DEF LongestInv
<1>6. QED
  BY <1>4, <1>5, StreamSteps DEF StreamStays, ErrorFound

\* For every source: each token GetNextToken returns is the longest lexeme that begins
\* where it begins, and of its kind.
THEOREM TokensAreLongest == Spec => []LongestMatch
<1>1. Init => LongestInv
  <2> SUFFICES ASSUME Init
               PROVE  LongestInv
    OBVIOUS
  <2>1. tokens = <<>>
    BY DEF Init
  <2>2. TokensAreSequence
    <3>1. <<>> \in Seq({})
      OBVIOUS
    <3>2. QED
      BY <2>1, <3>1 DEF TokensAreSequence
  <2>3. NewestLongest
    BY <2>1 DEF NewestLongest, Newest, Real
  <2>4. QED
    BY <2>2, <2>3, StartInSource DEF LongestInv
<1>2. LongestInv /\ [Next]_vars => LongestInv'
  BY NextLongest
<1>3. LongestInv => LongestMatch
  BY NewestLongestMeans DEF LongestInv
<1>4. QED
  BY <1>1, <1>2, <1>3, PTL DEF Spec
=================================================================================
