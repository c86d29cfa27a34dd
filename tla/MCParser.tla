-------------------------------- MODULE MCParser --------------------------------
(***************************************************************************)
(* Families of sources for TLC: behind a beginning that leads to the rules *)
(* in question, every sequence of the tokens these rules look at.          *)
(***************************************************************************)
EXTENDS ParsedPrograms

MCIdentifiers == {"a", "b", "e5", "init"}
MCExponents   == {"e5"}

\* At most more tokens behind the prefix.
From(prefix, tokens, more) ==
  [prefix |-> prefix, tokens |-> tokens, length |-> Len(prefix) + more, unscannable |-> FALSE]
WithScannerErrors(text) == [text EXCEPT !.unscannable = TRUE]

AnyToken ==
  MCIdentifiers \cup ControlKeywords \cup {"CLASS"} \cup
  {"LEFT_PAREN", "RIGHT_PAREN", "LEFT_BRACE", "RIGHT_BRACE", "COMMA", "DOT", "MINUS", "PLUS",
   "SEMICOLON", "SLASH", "STAR", "BANG", "BANG_EQUAL", "EQUAL", "EQUAL_EQUAL", "GREATER",
   "GREATER_EQUAL", "LESS", "LESS_EQUAL", "STRING", "NUMBER", "AND", "FALSE", "NIL", "OR",
   "SUPER", "THIS", "TRUE"}
Pairs == From(<<>>, AnyToken, 2)

Expressions ==
  From(<<"a">>, {"a", "EQUAL", "DOT", "LEFT_PAREN", "RIGHT_PAREN", "COMMA", "MINUS",
                 "SEMICOLON"}, 4)

Statements == From(<<"LEFT_BRACE", "VAR">>, {"a", "EQUAL", "LEFT_BRACE", "RIGHT_BRACE",
                                             "SEMICOLON"}, 5)

Loops    == From(<<"FOR", "LEFT_PAREN">>, {"a", "VAR", "SEMICOLON", "RIGHT_PAREN"}, 5)
Whiles   == From(<<"WHILE", "LEFT_PAREN">>, {"a", "RIGHT_PAREN", "SEMICOLON", "RETURN"}, 4)
Branches == From(<<"IF", "LEFT_PAREN", "a", "RIGHT_PAREN">>,
                 {"a", "SEMICOLON", "ELSE", "VAR", "RETURN"}, 5)

Parameters == From(<<"LEFT_BRACE", "FUN", "a", "LEFT_PAREN">>,
                   {"a", "COMMA", "RIGHT_PAREN", "LEFT_BRACE", "RIGHT_BRACE"}, 5)
Bodies     == From(<<"FUN", "a", "LEFT_PAREN", "RIGHT_PAREN", "LEFT_BRACE">>,
                   {"RETURN", "IF", "a", "SEMICOLON", "RIGHT_BRACE"}, 5)

Methods      == From(<<"CLASS", "a", "LEFT_BRACE", "b", "LEFT_PAREN", "RIGHT_PAREN", "LEFT_BRACE">>,
                     {"CLASS", "a", "LEFT_BRACE", "RIGHT_BRACE", "THIS", "SEMICOLON"}, 4)
Initializers == From(<<"FUN", "init", "LEFT_PAREN", "RIGHT_PAREN", "LEFT_BRACE">>,
                     {"RETURN", "a", "SEMICOLON", "RIGHT_BRACE"}, 3)

\* Two sources by the same compiler.
Errors == WithScannerErrors(From(<<>>, {"a", "SEMICOLON", "CLASS", "LEFT_BRACE"}, 3))
Again  == From(<<>>, {"a", "SEMICOLON"}, 2)

MCFamilies ==
  {<<Pairs>>, <<Expressions>>, <<Statements>>, <<Loops>>, <<Whiles>>, <<Branches>>,
   <<Parameters>>, <<Bodies>>, <<Methods>>, <<Initializers>>, <<Errors, Again>>}
================================================================================
