--------------------------------- MODULE Grammar ---------------------------------
(***************************************************************************)
(* The grammar of Lox, written down without looking at how the compiler    *)
(* parses it, and who belongs to it.  Its lenient form adds what the       *)
(* compiler accepts beyond it.                                             *)
(***************************************************************************)
EXTENDS Integers, SequencesExt

T(type)       == [kind |-> "token", type |-> type]
N(name)       == [kind |-> "name", name |-> name]
AllOf(parts)    == [kind |-> "all", parts |-> parts]
OneOf(parts)    == [kind |-> "any", parts |-> parts]
Many(part)    == [kind |-> "many", part |-> part]
Maybe(part)   == OneOf(<<part, AllOf(<<>>)>>)
List(part)    == AllOf(<<part, Many(AllOf(<<T("COMMA"), part>>))>>)
Tokens(types) == [kind |-> "token of", types |-> types]

Production(name, lenient) ==
  CASE name = "program" -> Many(N("declaration"))
    [] name = "declaration" ->
         OneOf(<<N("class"), N("fun"), N("var"), N("return"), N("statement")>>)
    [] name = "class" -> AllOf(<<T("CLASS"), T("IDENTIFIER"), T("LEFT_BRACE"),
                               Many(N("function")), T("RIGHT_BRACE")>>)
    [] name = "fun" -> AllOf(<<T("FUN"), N("function")>>)
    [] name = "function" ->
         AllOf(<<T("IDENTIFIER"), T("LEFT_PAREN"),
               Maybe(List(IF lenient THEN Maybe(T("IDENTIFIER")) ELSE T("IDENTIFIER"))),
               T("RIGHT_PAREN"), N("block")>>)
    \* A name missing behind "var" is not reported, and the declaration ends there.
    [] name = "var" -> IF lenient THEN AllOf(<<T("VAR"), Maybe(N("variable"))>>)
                       ELSE AllOf(<<T("VAR"), N("variable")>>)
    [] name = "variable" ->
         AllOf(<<T("IDENTIFIER"), Maybe(AllOf(<<T("EQUAL"), N("expression")>>)), T("SEMICOLON")>>)
    [] name = "return" -> AllOf(<<T("RETURN"), Maybe(N("expression")), T("SEMICOLON")>>)
    [] name = "statement" ->
         OneOf(<<N("block"), N("if"), N("while"), N("for"),
               AllOf(<<Maybe(T("PRINT")), N("expression"), T("SEMICOLON")>>)>>)
    [] name = "block" -> AllOf(<<T("LEFT_BRACE"), Many(N("declaration")), T("RIGHT_BRACE")>>)
    [] name = "if" -> AllOf(<<T("IF"), T("LEFT_PAREN"), N("expression"), T("RIGHT_PAREN"),
                            N("declaration"), Maybe(AllOf(<<T("ELSE"), N("statement")>>))>>)
    [] name = "while" -> AllOf(<<T("WHILE"), T("LEFT_PAREN"), N("expression"), T("RIGHT_PAREN"),
                               N("statement")>>)
    [] name = "for" ->
         AllOf(<<T("FOR"), T("LEFT_PAREN"), N("initializer"),
               Maybe(N("expression")), T("SEMICOLON"), Maybe(N("expression")),
               T("RIGHT_PAREN"), N("statement")>>)
    [] name = "initializer" ->
         OneOf(<<T("SEMICOLON"), N("var"), AllOf(<<N("expression"), T("SEMICOLON")>>),
               IF lenient THEN AllOf(<<T("VAR"), N("var")>>) ELSE N("var")>>)
    [] name = "expression" ->
         OneOf(<<AllOf(<<N("target"), T("EQUAL"), N("expression")>>),
               AllOf(<<N("operand"), Many(AllOf(<<N("operator"), N("operand")>>))>>)>>)
    [] name = "target" -> OneOf(<<T("IDENTIFIER"), AllOf(<<N("call"), T("DOT"), T("IDENTIFIER")>>)>>)
    [] name = "operator" ->
         Tokens({"OR", "AND", "EQUAL_EQUAL", "BANG_EQUAL", "GREATER", "GREATER_EQUAL", "LESS",
                 "LESS_EQUAL", "PLUS", "MINUS", "STAR", "SLASH"})
    [] name = "operand" -> AllOf(<<Many(Tokens({"BANG", "MINUS"})), N("call")>>)
    [] name = "call" ->
         AllOf(<<N("primary"),
               Many(OneOf(<<AllOf(<<T("DOT"), T("IDENTIFIER")>>),
                          AllOf(<<T("LEFT_PAREN"), Maybe(List(N("expression"))),
                                T("RIGHT_PAREN")>>)>>))>>)
    [] name = "primary" ->
         OneOf(<<Tokens({"IDENTIFIER", "NUMBER", "STRING", "TRUE", "FALSE", "NIL", "THIS"}),
               AllOf(<<T("LEFT_PAREN"), N("expression"), T("RIGHT_PAREN")>>)>>)

\* Where in the word w a part may end that begins at one of the places of starts.
RECURSIVE Ends(_, _, _, _)
Ends(part, w, starts, lenient) ==
  IF starts = {} THEN {}
  ELSE CASE part.kind = "token"    -> {i + 1 : i \in {i \in starts \cap DOMAIN w : w[i] = part.type}}
         [] part.kind = "token of" -> {i + 1 : i \in {i \in starts \cap DOMAIN w : w[i] \in part.types}}
         [] part.kind = "name"     -> Ends(Production(part.name, lenient), w, starts, lenient)
         [] part.kind = "all"      ->
              FoldLeft(LAMBDA from, p : Ends(p, w, from, lenient), starts, part.parts)
         [] part.kind = "any"      ->
              UNION {Ends(part.parts[i], w, starts, lenient) : i \in DOMAIN part.parts}
         [] part.kind = "many"     ->
              LET more == Ends(part.part, w, starts, lenient) \ starts
              IN  IF more = {} THEN starts ELSE starts \cup Ends(part, w, more, lenient)

InGrammar(w, lenient) == Len(w) + 1 \in Ends(N("program"), w, {1}, lenient)
================================================================================
