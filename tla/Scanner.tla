-------------------------------- MODULE Scanner --------------------------------
(***************************************************************************)
(* Scanner::GetNextToken of src/scanner.cpp: from a position in the source *)
(* to the next token, an error, or a failed assertion.  The loops of the   *)
(* code are written as the place where they stop.                          *)
(*                                                                         *)
(* Characters are strings of length one.  Indices count from 0, as there.  *)
(***************************************************************************)
EXTENDS Naturals, Sequences, FiniteSets, FiniteSetsExt

CONSTANTS
  Letters, Digits, \* the characters for which isalpha and isdigit hold
  Sources          \* the sources to scan

ASSUME SourceType == \A source \in Sources : source \in Seq(STRING)

VARIABLES
  m_source,
  m_current_index, \* the character to read next
  m_start,         \* where the last token or error began
  m_line           \* the line of the character to read next

scannerVars == <<m_source, m_current_index, m_start, m_line>>

Length  == Len(m_source)
Char(i) == m_source[i + 1]

\* The first index from i on where the characters are no longer of the class.
EndOfRun(i, class) == Min({j \in i..Length : j < Length => Char(j) \notin class})
FirstOf(i, c)      == Min({j \in i..Length : j < Length => Char(j) = c})

-------------------------------------------------------------------------------
\* Where m_line is counted up.
\* Mutant: at any line break.
LineBreaksOfAnySystem == {"\n", "\r"}
LineBreaks == {"\n"}

Whitespace == {" ", "\r", "\t", "\n"}

\* Mutant: one slash is enough.
CommentAtSlash(i) == Char(i) = "/"
CommentAt(i) == Char(i) = "/" /\ i + 1 < Length /\ Char(i + 1) = "/"

\* consumeWhitespacesAndComments: where it stops.
AfterBlanks ==
  LET skip[i \in 0..Length] ==
        IF i = Length THEN i
        ELSE IF Char(i) \in Whitespace THEN skip[i + 1]
        ELSE IF CommentAt(i) THEN skip[FirstOf(i, "\n")]
        ELSE i
  IN  skip[m_current_index]

\* What GetNextToken returns: the kind of token, "error" or "aborted", and the
\* index behind what it read.
Answer(type, end) == [type |-> type, end |-> end]

SingleCharacter ==
  [c \in {"(", ")", "{", "}", ",", ".", "-", "+", ";", "/", "*"} |->
     CASE c = "(" -> "LEFT_PAREN" [] c = ")" -> "RIGHT_PAREN"
       [] c = "{" -> "LEFT_BRACE" [] c = "}" -> "RIGHT_BRACE"
       [] c = "," -> "COMMA" [] c = "." -> "DOT" [] c = "-" -> "MINUS"
       [] c = "+" -> "PLUS" [] c = ";" -> "SEMICOLON" [] c = "/" -> "SLASH"
       [] c = "*" -> "STAR"]

OneOrTwo ==
  [c \in {"!", "=", ">", "<"} |->
     CASE c = "!" -> <<"BANG", "BANG_EQUAL">> [] c = "=" -> <<"EQUAL", "EQUAL_EQUAL">>
       [] c = ">" -> <<"GREATER", "GREATER_EQUAL">> [] c = "<" -> <<"LESS", "LESS_EQUAL">>]

\* What <cctype> says: a letter is no digit, and punctuation is neither.
ASSUME CharacterClasses ==
  /\ Letters \cap Digits = {}
  /\ \A c \in Letters \cup Digits :
       c \notin DOMAIN SingleCharacter \cup DOMAIN OneOrTwo \cup {"\""}

\* matchEqual: an error where the source ends.
\* Mutant: and where no equals sign follows.
MatchEqualOrFail(i, types) ==
  IF i < Length /\ Char(i) = "=" THEN Answer(types[2], i + 1)
  ELSE Answer("error", i)
MatchEqual(i, types) ==
  IF i = Length THEN Answer("error", i)
  ELSE IF Char(i) = "=" THEN Answer(types[2], i + 1)
  ELSE Answer(types[1], i)

\* The loop reads a character before it tests for the end: peek asserts.
StringLiteral(i) ==
  IF i = Length THEN Answer("error", i)
  ELSE LET quote == FirstOf(i, "\"")
       IN  IF quote = Length THEN Answer("aborted", quote)
           ELSE Answer("STRING", quote + 1)

\* Mutant: the digits are read without testing for the end.
NumberUnchecked(i) ==
  LET point == EndOfRun(i, Digits)
  IN  IF point = Length THEN Answer("aborted", point)
      ELSE Answer("NUMBER", IF Char(point) = "." THEN EndOfRun(point + 1, Digits) ELSE point)
NumberLiteral(i) ==
  LET point == EndOfRun(i, Digits)
  IN  Answer("NUMBER", IF point < Length /\ Char(point) = "."
                       THEN EndOfRun(point + 1, Digits) ELSE point)

\* The keywords, and how many of their letters the code compares besides the length.
Keyword(type, word, compared) == [type |-> type, word |-> word, compared |-> compared]
Keywords ==
  {Keyword("AND", <<"a", "n", "d">>, 3), Keyword("CLASS", <<"c", "l", "a", "s", "s">>, 5),
   Keyword("ELSE", <<"e", "l", "s", "e">>, 4), Keyword("FALSE", <<"f", "a", "l", "s", "e">>, 4),
   Keyword("FOR", <<"f", "o", "r">>, 3), Keyword("FUN", <<"f", "u", "n">>, 3),
   Keyword("IF", <<"i", "f">>, 2), Keyword("NIL", <<"n", "i", "l">>, 3),
   Keyword("OR", <<"o", "r">>, 2), Keyword("PRINT", <<"p", "r", "i", "n", "t">>, 5),
   Keyword("RETURN", <<"r", "e", "t", "u", "r", "n">>, 6),
   Keyword("SUPER", <<"s", "u", "p", "e", "r">>, 5), Keyword("THIS", <<"t", "h", "i", "s">>, 4),
   Keyword("TRUE", <<"t", "r", "u", "e">>, 3), Keyword("VAR", <<"v", "a", "r">>, 3),
   Keyword("WHILE", <<"w", "h", "i", "l", "e">>, 5)}

\* getTokenType of the word from start to end.
\* Mutant: without the comparison of lengths.
TokenTypePrefix(start, end) ==
  LET found == {k \in Keywords : /\ k.compared <= end - start
                                 /\ \A i \in 1..k.compared : Char(start + i - 1) = k.word[i]}
  IN  IF found = {} THEN "IDENTIFIER" ELSE (CHOOSE k \in found : TRUE).type
TokenType(start, end) ==
  LET found == {k \in Keywords : /\ Len(k.word) = end - start
                                 /\ \A i \in 1..k.compared : Char(start + i - 1) = k.word[i]}
  IN  IF found = {} THEN "IDENTIFIER" ELSE (CHOOSE k \in found : TRUE).type

IdentifierOrKeyword(start) ==
  LET end == EndOfRun(start + 1, Letters \cup Digits \cup {"_"})
  IN  Answer(TokenType(start, end), end)

\* The character at i, which the switch of GetNextToken is about.
TokenAt(i) ==
  LET c == Char(i) IN
  IF c \in Letters THEN IdentifierOrKeyword(i)
  ELSE IF c \in Digits THEN NumberLiteral(i + 1)
  ELSE IF c \in DOMAIN SingleCharacter THEN Answer(SingleCharacter[c], i + 1)
  ELSE IF c \in DOMAIN OneOrTwo THEN MatchEqual(i + 1, OneOrTwo[c])
  ELSE IF c = "\"" THEN StringLiteral(i + 1)
  ELSE Answer("error", i + 1)

-------------------------------------------------------------------------------
\* Reset.
ScannerInit ==
  /\ m_source \in Sources
  /\ m_current_index = 0 /\ m_start = 0 /\ m_line = 1

\* makeToken.
Token(type, start, end, line) ==
  [type |-> type, start |-> start, length |-> end - start, line_number |-> line]

\* What GetNextToken returns.  At the end of the source m_start is left where it was,
\* so that the last token seems to begin there.
Scanned ==
  LET start == AfterBlanks
      line  == m_line + Cardinality({i \in m_current_index..(start - 1) : Char(i) \in LineBreaks})
  IN  IF start = Length THEN Token("TOKEN_EOF", m_start, start, line)
      ELSE LET answer == TokenAt(start) IN Token(answer.type, start, answer.end, line)

GetNextToken ==
  /\ m_start' = Scanned.start
  /\ m_current_index' = Scanned.start + Scanned.length
  /\ m_line' = Scanned.line_number
  /\ UNCHANGED m_source
================================================================================
