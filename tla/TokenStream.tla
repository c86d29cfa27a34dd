------------------------------ MODULE TokenStream ------------------------------
(***************************************************************************)
(* ParserState::Advance over the scanner: the tokens of a source, the      *)
(* errors on the way, and the line that an error report shows.  The client *)
(* (the grammar rules) reads on and leaves panic mode whenever it likes.   *)
(***************************************************************************)
EXTENDS Scanner, ParserState

VARIABLES
  status,  \* "idle", "advancing" (in the loop of Advance) or "aborted"
  tokens,  \* no part of the program: the tokens delivered
  rejected \* no part of the program: where the scanner found errors

vars == <<scannerVars, parserStateVars, status, tokens, rejected>>

Init ==
  /\ ScannerInit /\ ParserStateInit
  /\ status = "idle" /\ tokens = <<>> /\ rejected = {}

AtEnd(token) == token # NoToken /\ token.type = "TOKEN_EOF"

\* The grammar rules do not read on once both tokens are the end of the source.
BeginAdvance ==
  /\ status = "idle" /\ ~AtEnd(previous_token)
  /\ status' = "advancing"
  /\ Shift
  /\ UNCHANGED <<scannerVars, current_token, errorVars, tokens, rejected>>

TokenFound ==
  /\ status = "advancing" /\ Scanned.type \notin {"error", "aborted"}
  /\ GetNextToken /\ Deliver(Scanned) /\ status' = "idle"
  /\ tokens' = Append(tokens, Scanned)
  /\ UNCHANGED <<previous_token, errorVars, rejected>>

\* The error is reported at the previous token.  If there is none the code reads an
\* optional that is empty: a build with assertions aborts, any other goes on.
\* Mutant: the character in error is read again.
ErrorNotPassed ==
  /\ status = "advancing" /\ Scanned.type = "error"
  /\ rejected' = rejected \cup {Scanned.start}
  /\ ReportError /\ UNCHANGED <<scannerVars, status>>
  /\ UNCHANGED <<previous_token, current_token, tokens>>
ErrorFound ==
  /\ status = "advancing" /\ Scanned.type = "error"
  /\ GetNextToken /\ rejected' = rejected \cup {Scanned.start}
  /\ \/ ReportError /\ UNCHANGED status
     \/ previous_token = NoToken /\ status' = "aborted" /\ UNCHANGED errorVars
  /\ UNCHANGED <<previous_token, current_token, tokens>>

AssertionFails ==
  /\ status = "advancing" /\ Scanned.type = "aborted"
  /\ status' = "aborted"
  /\ UNCHANGED <<scannerVars, parserStateVars, tokens, rejected>>

LeavePanic ==
  /\ status = "idle" /\ m_panic /\ ResetPanicState
  /\ UNCHANGED <<scannerVars, previous_token, current_token, status, tokens, rejected>>

AdvanceLoop == TokenFound \/ ErrorFound \/ AssertionFails
Next == BeginAdvance \/ AdvanceLoop \/ LeavePanic

\* The loop of Advance goes on until it has a token; whether the grammar rules call
\* Advance again is up to them.
Spec == Init /\ [][Next]_vars /\ WF_vars(AdvanceLoop)

-------------------------------------------------------------------------------
\* ReportError: the part of the source it shows for a token.
\* Mutant: up to the first newline of the source.
LineEndOfSource(token) == FirstOf(0, "\n")
LineEnd(token) == FirstOf(token.start, "\n")
LineStart(token) ==
  Max({0} \cup {i \in 0..Min({token.start, Length - 1}) : Char(i) = "\n"}) + 1

-------------------------------------------------------------------------------
(***************************************************************************)
(* The lexical grammar.                                                    *)
(***************************************************************************)
Text(i, j)    == SubSeq(m_source, i + 1, j)
Lexeme(token) == Text(token.start, token.start + token.length)
Digit(c)      == c \in Digits

IsNumber(w) ==
  /\ w # <<>> /\ Digit(w[1])
  /\ \E p \in 1..(Len(w) + 1) :
       \A i \in DOMAIN w : IF i = p THEN w[i] = "." ELSE Digit(w[i])
IsWord(w)   == /\ w # <<>> /\ w[1] \in Letters
               /\ \A i \in DOMAIN w : w[i] \in Letters \cup Digits \cup {"_"}
IsString(w) == /\ Len(w) >= 2
               /\ \A i \in DOMAIN w : w[i] = "\"" <=> i \in {1, Len(w)}
Operator(type, text) == [type |-> type, text |-> text]
Operators ==
  {Operator("LEFT_PAREN", <<"(">>), Operator("RIGHT_PAREN", <<")">>),
   Operator("LEFT_BRACE", <<"{">>), Operator("RIGHT_BRACE", <<"}">>),
   Operator("COMMA", <<",">>), Operator("DOT", <<".">>), Operator("SEMICOLON", <<";">>),
   Operator("PLUS", <<"+">>), Operator("MINUS", <<"-">>),
   Operator("STAR", <<"*">>), Operator("SLASH", <<"/">>),
   Operator("BANG", <<"!">>), Operator("BANG_EQUAL", <<"!", "=">>),
   Operator("EQUAL", <<"=">>), Operator("EQUAL_EQUAL", <<"=", "=">>),
   Operator("LESS", <<"<">>), Operator("LESS_EQUAL", <<"<", "=">>),
   Operator("GREATER", <<">">>), Operator("GREATER_EQUAL", <<">", "=">>)}
IsOperator(w) == \E o \in Operators : o.text = w

IsLexeme(w) == IsNumber(w) \/ IsWord(w) \/ IsString(w) \/ IsOperator(w)

\* The last letter of true and false is not compared.
Spells(w, keyword) ==
  LET n == Len(keyword.word) - (IF keyword.type \in {"TRUE", "FALSE"} THEN 1 ELSE 0)
  IN  Len(w) = Len(keyword.word) /\ \A i \in 1..n : w[i] = keyword.word[i]

Kind(w) ==
  IF IsNumber(w) THEN "NUMBER" ELSE IF IsString(w) THEN "STRING"
  ELSE IF IsOperator(w) THEN (CHOOSE o \in Operators : o.text = w).type
  ELSE IF \E k \in Keywords : Spells(w, k) THEN (CHOOSE k \in Keywords : Spells(w, k)).type
  ELSE "IDENTIFIER"

Newlines(i, j) == Cardinality({k \in i..(j - 1) : Char(k) = "\n"})

\* A stretch of whitespace and comments: a comment runs to the end of its line.
Blank(i, j) ==
  \A k \in i..(j - 1) :
    \/ Char(k) \in Whitespace
    \/ \E b \in i..k : /\ b + 1 < j /\ Char(b) = "/" /\ Char(b + 1) = "/"
                       /\ Newlines(b, k) = 0

\* The token delivered last, if it is one of the source.  The properties are about it
\* alone: the tokens before it were last in earlier states.
Real   == {i \in DOMAIN tokens : tokens[i].type # "TOKEN_EOF"}
Newest == Real \cap {Len(tokens)}

\* Every token is the longest lexeme that begins where it begins, and of its kind.
LongestMatch ==
  \A i \in Newest :
    /\ IsLexeme(Lexeme(tokens[i])) /\ tokens[i].type = Kind(Lexeme(tokens[i]))
    /\ \A end \in (tokens[i].start + tokens[i].length + 1)..Length :
         ~IsLexeme(Text(tokens[i].start, end))

\* Between two tokens, and before the first, lie only whitespace, comments and the
\* characters reported as errors: nothing of the source is lost, nothing read twice.
Tiled ==
  \A i \in DOMAIN tokens \cap {Len(tokens)} :
    LET before == IF i = 1 THEN 0 ELSE tokens[i - 1].start + tokens[i - 1].length
        begin  == IF i \in Real THEN tokens[i].start ELSE Length
        cuts   == {before} \cup {r + 1 : r \in {r \in rejected : before <= r /\ r < begin}}
    IN  /\ before <= begin
        /\ \A cut \in cuts : Blank(cut, Min({begin} \cup {r \in rejected : r >= cut}))

\* The line of a token is that of its first character, less the newlines inside the
\* string literals before it, which the scanner does not count.
LinesCounted ==
  \A i \in Newest :
    LET inside == {k \in 0..(tokens[i].start - 1) :
                     \E j \in 1..(i - 1) : k \in tokens[j].start..(tokens[j].start + tokens[j].length - 1)}
    IN  tokens[i].line_number =
          1 + Cardinality({k \in 0..(tokens[i].start - 1) : Char(k) = "\n"} \ inside)

\* A character is refused only where no lexeme begins, except that the source may not
\* end with an operator that could go on.
RefusesNonLexemes ==
  \A r \in rejected :
    \/ \A end \in (r + 1)..Length : ~IsLexeme(Text(r, end))
    \/ r = Length - 1 /\ Char(r) \in {"!", "=", "<", ">"}

\* The scanner fails an assertion only in a string literal that is never closed; the
\* parser state only for an error before the first token.
Unclosed(i) == i # Length /\ Char(i) = "\"" /\ FirstOf(i + 1, "\"") = Length
AbortsKnown ==
  status = "aborted" => \/ tokens = <<>> /\ rejected # {}
                        \/ Unclosed(AfterBlanks)

\* Whatever token an error is reported at, the line shown lies inside the source and
\* the token in the line; but the first line is shown without its first character.
\* No report is about the end of a source without tokens.
ShownLineInSource ==
  \A token \in {previous_token, current_token} \ {NoToken} :
    Real # {} =>
      /\ LineStart(token) <= LineEnd(token) /\ LineEnd(token) <= Length
      /\ LineStart(token) <= token.start \/ token.start = 0
      /\ Newlines(token.start, LineEnd(token)) = 0 /\ token.start <= LineEnd(token)

\* A call of Advance comes to an end, with a token or a failed assertion, however many
\* errors there are before the next token and wherever the source ends.
AdvanceReturns == status = "advancing" ~> status # "advancing"
================================================================================
