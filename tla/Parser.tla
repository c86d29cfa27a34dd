--------------------------------- MODULE Parser ---------------------------------
(***************************************************************************)
(* The grammar rules of src/compiler.cpp over any sequence of tokens: what *)
(* they read, which errors they report, and how they go on after an error. *)
(* The code they emit is the matter of Compiler.                           *)
(*                                                                         *)
(* rules is the call stack: for every rule entered, what it has still to   *)
(* do, a sequence of items; the innermost rule is last.  There is one kind *)
(* of item for every way the rules use a token.                            *)
(***************************************************************************)
EXTENDS ParserState, Locals

CONSTANTS
  Families,   \* of sources, each by what its sources may be made of
  Identifiers, \* names, among them "init"
  Exponents    \* those that can be read as part of a number before them: e5, x1F

EOF == "TOKEN_EOF"

\* Several sources can be compiled one after the other by the same compiler.  Of each:
\* the tokens at the beginning, the tokens that may follow, how many there are at most,
\* and whether the scanner may find errors between them.  A name is no keyword.
ASSUME ParserConstants ==
  /\ Families \subseteq Seq([prefix : Seq(STRING), tokens : SUBSET STRING, length : Nat,
                             unscannable : BOOLEAN])
  /\ Identifiers \subseteq STRING /\ "FUN" \notin Identifiers /\ Exponents \subseteq Identifiers
  /\ NoToken \notin STRING /\ NoToken # EOF

VARIABLES
  rules,
  status,      \* "idle", "parsing", "compiled", "failed" or "aborted"
  family,
  source,      \* the number of the source in its family
  read,        \* no part of the program: the tokens delivered of this source
  first_error, \* no part of the program: of what kind the first error shown was
  erred        \* no part of the program: an earlier source was refused

tokenVars == <<previous_token, current_token, read>>
errors    == <<errorVars, first_error>>
sourceVars == <<family, source, erred>>
vars == <<parserStateVars, compilers, rules, status, sourceVars, read, first_error>>

-------------------------------------------------------------------------------
(***************************************************************************)
(* Items.                                                                  *)
(***************************************************************************)
Token(type, items, missing, again) ==
  [op |-> "consume", type |-> type, items |-> items, missing |-> missing, again |-> again]

\* The token and what comes with it may be there; may be there any number of times;
\* has to be there, and the rule goes on or returns if it is not.
Optional(type, items) == Token(type, items, "ignored", FALSE)
Repeat(type, items)   == Token(type, items, "ignored", TRUE)
\* Mutant: the error is not reported.
ExpectSilently(type)  == Token(type, <<>>, "ignored", FALSE)
Expect(type)          == Token(type, <<>>, "reported", FALSE)
\* Mutant: the rule goes on without the token.
RequireNothing(type)  == Token(type, <<>>, "reported", FALSE)
Require(type)         == Token(type, <<>>, "returned", FALSE)

Rule(name)            == [op |-> "rule", name |-> name]
Until(types, name)    == [op |-> "until", types |-> types, name |-> name]
Unless(type, items)   == [op |-> "unless", type |-> type, items |-> items]
Precedence(level)     == [op |-> "precedence", level |-> level]
Infix(level)          == [op |-> "infix", level |-> level]
Named(can_assign)     == [op |-> "named", can_assign |-> can_assign]
FunctionOf(type)      == [op |-> "function", type |-> type]
NotIn(function_type)  == [op |-> "not in", type |-> function_type]
Compilers(change)     == [op |-> "compiler", change |-> change]
Do(op)                == [op |-> op]

PREC_ASSIGNMENT == 1
Expression      == Precedence(PREC_ASSIGNMENT)
ParseVariable(items) == Optional("IDENTIFIER", <<Do("declare")>> \o items)

Is(token, type) == IF type = "IDENTIFIER" THEN token \in Identifiers ELSE token = type

\* The table of parse rules.
PrecedenceOf(type) ==
  CASE type = "OR" -> 2 [] type = "AND" -> 3
    [] type \in {"EQUAL_EQUAL", "BANG_EQUAL"} -> 4
    [] type \in {"GREATER", "GREATER_EQUAL", "LESS", "LESS_EQUAL"} -> 5
    [] type \in {"PLUS", "MINUS"} -> 6
    [] type \in {"STAR", "SLASH"} -> 7
    [] type \in {"LEFT_PAREN", "DOT"} -> 9
    [] OTHER -> 0
PREC_UNARY == 8

HasPrefix(token) ==
  \/ token \in {"LEFT_PAREN", "MINUS", "BANG", "STRING", "NUMBER", "FALSE", "NIL", "THIS", "TRUE"}
  \/ token \in Identifiers

PrefixRule(token, can_assign) ==
  CASE token = "LEFT_PAREN"         -> <<Expression, Expect("RIGHT_PAREN")>>
    [] token \in {"MINUS", "BANG"}  -> <<Precedence(PREC_UNARY)>>
    [] token \in Identifiers        -> <<Named(can_assign)>>
    [] token = "THIS"               -> <<Do("this")>>
    [] OTHER                        -> <<>>

InfixRule(token, can_assign) ==
  CASE token = "DOT" ->
         <<Require("IDENTIFIER")>> \o
         (IF can_assign THEN <<Optional("EQUAL", <<Expression>>)>> ELSE <<>>)
    [] token = "LEFT_PAREN" ->
         <<Unless("RIGHT_PAREN", <<Expression, Repeat("COMMA", <<Expression>>)>>),
           Expect("RIGHT_PAREN")>>
    [] token \in {"AND", "OR"} -> <<Precedence(PrecedenceOf(token))>>
    [] OTHER                   -> <<Precedence(PrecedenceOf(token) + 1)>>

\* declaration, statement and the initializer of a loop choose by the current token.
DeclarationRule(token) ==
  CASE token = "VAR" -> "variableDeclaration" [] token = "FUN" -> "functionDeclaration"
    [] token = "RETURN" -> "returnStatement"  [] token = "CLASS" -> "classDeclaration"
    [] OTHER -> "statement"
StatementRule(token) ==
  CASE token = "PRINT" -> "printStatement" [] token = "LEFT_BRACE" -> "block"
    [] token = "IF" -> "ifStatement"       [] token = "WHILE" -> "whileStatement"
    [] token = "FOR" -> "forStatement"     [] OTHER -> "expressionStatement"
InitializerClause(token) ==
  CASE token = "SEMICOLON" -> Expect("SEMICOLON")
    [] token = "VAR"       -> Optional("VAR", <<Rule("variableDeclaration")>>)
    [] OTHER               -> Rule("expressionStatement")

FunctionBody ==
  <<Expect("LEFT_PAREN"),
    Unless("RIGHT_PAREN",
           <<ParseVariable(<<Compilers("initialized")>>),
             Repeat("COMMA", <<ParseVariable(<<Compilers("initialized")>>)>>)>>),
    Expect("RIGHT_PAREN"), Rule("block"), Do("end function")>>

Body(name) ==
  CASE name = "declaration" -> <<Rule(DeclarationRule(current_token)), Do("recover")>>
    [] name = "statement"   -> <<Rule(StatementRule(current_token))>>
    [] name = "classDeclaration" ->
         <<Optional("CLASS", <<>>), Require("IDENTIFIER"), Do("declare"),
           Compilers("initialized"), Compilers("enter class"), Named(FALSE),
           Expect("LEFT_BRACE"), Until({"RIGHT_BRACE", EOF}, "method"),
           Expect("RIGHT_BRACE"), Compilers("leave class")>>
    [] name = "method" -> <<Require("IDENTIFIER"), FunctionOf("METHOD")>>
    [] name = "functionDeclaration" ->
         <<Optional("FUN", <<>>), ParseVariable(<<>>), Compilers("initialized"),
           FunctionOf("FUNCTION"), Compilers("initialized")>>
    [] name = "variableDeclaration" ->
         <<Optional("VAR", <<>>),
           ParseVariable(<<Optional("EQUAL", <<Expression>>), Expect("SEMICOLON"),
                           Compilers("initialized")>>)>>
    [] name = "returnStatement" ->
         <<NotIn("INITIALIZER"), Optional("RETURN", <<>>), NotIn("TOP_LEVEL_SCRIPT"),
           Unless("SEMICOLON", <<Expression>>), Require("SEMICOLON")>>
    [] name = "printStatement" ->
         <<Optional("PRINT", <<>>), Expression, Expect("SEMICOLON")>>
    [] name = "expressionStatement" -> <<Expression, Expect("SEMICOLON")>>
    [] name = "block" ->
         <<Compilers("begin scope"), Expect("LEFT_BRACE"),
           Until({"RIGHT_BRACE", EOF}, "declaration"), Require("RIGHT_BRACE"),
           Compilers("end scope")>>
    [] name = "ifStatement" ->
         <<Optional("IF", <<>>), Expect("LEFT_PAREN"), Expression, Expect("RIGHT_PAREN"),
           Rule("declaration"), Optional("ELSE", <<Rule("statement")>>)>>
    [] name = "whileStatement" ->
         <<Optional("WHILE", <<>>), Expect("LEFT_PAREN"), Expression, Expect("RIGHT_PAREN"),
           Rule("statement")>>
    [] name = "forStatement" ->
         <<Compilers("begin scope"), Optional("FOR", <<>>), Expect("LEFT_PAREN"),
           Rule("initializer"), Unless("SEMICOLON", <<Expression>>), Expect("SEMICOLON"),
           Unless("RIGHT_PAREN", <<Expression>>), Expect("RIGHT_PAREN"),
           Rule("statement"), Compilers("end scope")>>
    [] name = "initializer" -> <<InitializerClause(current_token)>>

-------------------------------------------------------------------------------
(***************************************************************************)
(* The steps.  A step deals with the first item of the innermost rule and  *)
(* either reads one token (Advance) or none (Stay), with its reports.      *)
(***************************************************************************)
Item == Head(Last(rules))
Rest == Tail(Last(rules))

Doing(op) == status = "parsing" /\ rules # <<>> /\ Item.op = op

Return        == rules' = Front(rules)
Go(items)     == rules' = IF items = <<>> THEN Front(rules) ELSE Append(Front(rules), items)
Call(items)   == rules' = Append(IF Rest = <<>> THEN Front(rules) ELSE Append(Front(rules), Rest),
                                 items)

\* The errors a step finds, by kind, in the order found: all but the first are
\* silent for sure, and the first is silent in a panic.
Report(kinds) ==
  IF kinds = <<>> THEN UNCHANGED errors
  ELSE /\ ReportError
       /\ first_error' = IF m_panic \/ first_error # "none" THEN first_error ELSE Head(kinds)

Text     == family[source]
AtEnd    == read # <<>> /\ Last(read) = EOF
Upcoming ==
  IF AtEnd THEN {EOF}
  ELSE IF Len(read) < Len(Text.prefix) THEN {Text.prefix[Len(read) + 1]}
  ELSE {EOF} \cup (IF Len(read) < Text.length THEN Text.tokens ELSE {})

Scans(token) ==
  /\ Shift /\ Deliver(token)
  /\ read' = IF AtEnd THEN read ELSE Append(read, token)

\* ParserState::Advance: errors of the scanner come before the token.
Advance(kinds) ==
  \E token \in Upcoming :
    /\ Scans(token)
    /\ \/ Report(kinds)
       \/ ~AtEnd /\ Text.unscannable /\ Report(<<"scanner">> \o kinds)
Stay(kinds) == UNCHANGED tokenVars /\ Report(kinds)

Consume ==
  /\ Doing("consume")
  /\ \/ /\ Is(current_token, Item.type) /\ Advance(<<>>)
        /\ Go(Item.items \o (IF Item.again THEN Last(rules) ELSE Rest))
     \/ /\ ~Is(current_token, Item.type)
        /\ \/ Item.missing = "ignored"  /\ Stay(<<>>) /\ Go(Rest)
           \/ Item.missing = "reported" /\ Stay(<<"syntax">>) /\ Go(Rest)
           \/ Item.missing = "returned" /\ Stay(<<"syntax">>) /\ Return
  /\ UNCHANGED <<compilers, status>>

EnterRule ==
  /\ Doing("rule") /\ Call(Body(Item.name))
  /\ Stay(<<>>) /\ UNCHANGED <<compilers, status>>

Loop ==
  /\ Doing("until")
  /\ IF current_token \in Item.types THEN Go(Rest)
     ELSE rules' = Append(rules, Body(Item.name))
  /\ Stay(<<>>) /\ UNCHANGED <<compilers, status>>

Choice ==
  /\ Doing("unless")
  /\ Go((IF current_token = Item.type THEN <<>> ELSE Item.items) \o Rest)
  /\ Stay(<<>>) /\ UNCHANGED <<compilers, status>>

\* parsePrecedence: the prefix rule of the token, whatever it is.
\* Mutant: only a token with a prefix rule is read.
ParsePrecedenceOfPrefix ==
  /\ Doing("precedence")
  /\ \/ /\ HasPrefix(current_token) /\ Advance(<<>>)
        /\ Go(PrefixRule(current_token, Item.level <= PREC_ASSIGNMENT)
                \o <<Infix(Item.level)>> \o Rest)
     \/ ~HasPrefix(current_token) /\ Stay(<<"syntax">>) /\ Go(Rest)
  /\ UNCHANGED <<compilers, status>>
ParsePrecedence ==
  /\ Doing("precedence")
  /\ \/ /\ HasPrefix(current_token) /\ Advance(<<>>)
        /\ Go(PrefixRule(current_token, Item.level <= PREC_ASSIGNMENT)
                \o <<Infix(Item.level)>> \o Rest)
     \/ ~HasPrefix(current_token) /\ Advance(<<"syntax">>) /\ Go(Rest)
  /\ UNCHANGED <<compilers, status>>

\* The prefix rule number() asserts that strtod reads the whole token and no more, but of
\* 1e5 or 0x1F the scanner makes a number and a name, and strtod reads both.  Names do
\* not say whether they follow directly: the assertion may fail.
MisreadNumber ==
  /\ Doing("precedence") /\ current_token = "NUMBER"
  /\ \E token \in Upcoming \cap Exponents : Scans(token)
  /\ status' = "aborted" /\ UNCHANGED <<errors, compilers, rules>>

\* ... then the infix rules that bind at least as tightly, and no "=" behind them.
ParseInfix ==
  LET can_assign == Item.level <= PREC_ASSIGNMENT IN
  /\ Doing("infix")
  /\ \/ /\ Item.level <= PrecedenceOf(current_token) /\ Advance(<<>>)
        /\ rules' = Append(rules, InfixRule(current_token, can_assign))
     \/ /\ Item.level > PrecedenceOf(current_token)
        /\ IF can_assign /\ current_token = "EQUAL" THEN Advance(<<"syntax">>) ELSE Stay(<<>>)
        /\ Go(Rest)
  /\ UNCHANGED <<compilers, status>>

\* Mutant: no variable can be assigned to.
NamedVariableReadOnly ==
  /\ Doing("named") /\ Go(Rest) /\ Stay(<<>>) /\ UNCHANGED <<compilers, status>>
NamedVariable ==
  LET name == IF previous_token = "THIS" THEN "this" ELSE previous_token IN
  /\ Doing("named")
  /\ Stay(IF ReadInItsInitializer(name) THEN <<"name">> ELSE <<>>)
  /\ Go((IF Item.can_assign THEN <<Optional("EQUAL", <<Expression>>)>> ELSE <<>>) \o Rest)
  /\ UNCHANGED <<compilers, status>>

This ==
  /\ Doing("this")
  /\ IF Cur.within_class THEN Stay(<<>>) /\ Go(<<Named(FALSE)>> \o Rest)
     ELSE Stay(<<"this">>) /\ Go(Rest)
  /\ UNCHANGED <<compilers, status>>

\* declareVariable, for the token just read.
Declare ==
  /\ Doing("declare")
  /\ IF Redeclares(Cur, previous_token) THEN Stay(<<"name">>) /\ UNCHANGED compilers
     ELSE Stay(<<>>) /\ compilers' = WithLast(DeclareVariable(Cur, previous_token))
  /\ Go(Rest) /\ UNCHANGED status

Changed(change) ==
  CASE change = "begin scope" -> BeginScope(Cur)
    [] change = "end scope"   -> PopScope(Cur)
    [] change = "initialized" -> MarkInitialized(Cur)
    [] change = "enter class" -> [Cur EXCEPT !.within_class = TRUE]
    [] change = "leave class" -> [Cur EXCEPT !.within_class = FALSE]
ChangeCompiler ==
  /\ Doing("compiler") /\ compilers' = WithLast(Changed(Item.change))
  /\ Go(Rest) /\ Stay(<<>>) /\ UNCHANGED status

NewCompiler(function_type, within_class) ==
  [function_type |-> function_type, within_class |-> within_class,
   current_scope_depth |-> 0, locals |-> <<FirstLocal(function_type)>>]

\* function(): its name is the token just read, or an assertion fails.
EnterFunction ==
  /\ Doing("function") /\ Stay(<<>>)
  /\ \/ /\ previous_token \in Identifiers /\ Go(FunctionBody \o Rest)
        /\ compilers' = Append(compilers,
             [BeginScope(NewCompiler(Item.type, Cur.within_class)) EXCEPT
                !.function_type = IF previous_token = "init" THEN "INITIALIZER" ELSE @])
        /\ UNCHANGED status
     \/ /\ previous_token \notin Identifiers /\ status' = "aborted"
        /\ UNCHANGED <<compilers, rules>>
EndFunction ==
  /\ Doing("end function") /\ compilers' = Front(compilers)
  /\ Go(Rest) /\ Stay(<<>>) /\ UNCHANGED status

ForbidReturn ==
  /\ Doing("not in")
  /\ IF Cur.function_type = Item.type THEN Stay(<<"return">>) /\ Return
     ELSE Stay(<<>>) /\ Go(Rest)
  /\ UNCHANGED <<compilers, status>>

\* declaration() ends with synchronizeError, if need be.
ControlKeywords == {"ELSE", "FOR", "FUN", "IF", "PRINT", "RETURN", "VAR", "WHILE"}
Recover ==
  /\ Doing("recover") /\ UNCHANGED <<tokenVars, first_error>>
  /\ IF m_panic THEN ResetPanicState /\ Go(<<Do("synchronize")>> \o Rest)
     ELSE UNCHANGED errorVars /\ Go(Rest)
  /\ UNCHANGED <<compilers, status>>
Synchronize ==
  /\ Doing("synchronize")
  /\ IF \/ current_token \in ControlKeywords \cup {EOF}
        \/ previous_token = "SEMICOLON"
     THEN Stay(<<>>) /\ Go(Rest)
     ELSE Advance(<<>>) /\ UNCHANGED rules
  /\ UNCHANGED <<compilers, status>>

-------------------------------------------------------------------------------
(***************************************************************************)
(* CompileSource.                                                          *)
(***************************************************************************)
\* Initialize gives the parser state a new source and leaves the rest as it is.
Initialize ==
  /\ status \in {"idle", "compiled", "failed"} /\ source < Len(family)
  /\ status' = "parsing" /\ source' = source + 1 /\ erred' = encountered_error
  /\ read' = <<>> /\ first_error' = "none"
  /\ rules' = <<<<Do("advance"), Until({EOF}, "declaration")>>>>
  /\ UNCHANGED <<previous_token, current_token, errorVars, compilers, family>>

\* Before the first token of all, Advance has none to report an error of the scanner
\* at: it reads an optional without value, which a build with assertions finds out.
FirstAdvance ==
  /\ Doing("advance")
  /\ \/ Advance(<<>>) /\ Go(Rest) /\ UNCHANGED status
     \/ /\ current_token = NoToken /\ Text.unscannable /\ status' = "aborted"
        /\ UNCHANGED <<tokenVars, errors, rules>>
  /\ UNCHANGED compilers

EndSource ==
  /\ status = "parsing" /\ rules = <<>>
  /\ status' = IF encountered_error THEN "failed" ELSE "compiled"
  /\ UNCHANGED <<tokenVars, errors, compilers, rules>>

Init ==
  /\ ParserStateInit
  /\ compilers = <<NewCompiler("TOP_LEVEL_SCRIPT", FALSE)>>
  /\ rules = <<>> /\ status = "idle"
  /\ family \in Families /\ source = 0
  /\ read = <<>> /\ first_error = "none" /\ erred = FALSE

Parse ==
  \/ FirstAdvance \/ Consume \/ EnterRule \/ Loop \/ Choice
  \/ ParsePrecedence \/ MisreadNumber \/ ParseInfix \/ NamedVariable \/ This
  \/ Declare \/ ChangeCompiler \/ EnterFunction \/ EndFunction \/ ForbidReturn
  \/ Recover \/ Synchronize \/ EndSource

Next == Initialize \/ (Parse /\ UNCHANGED sourceVars)

\* The compiler runs until it is done.
Spec == Init /\ [][Next]_vars /\ WF_vars(Parse /\ UNCHANGED sourceVars)

-------------------------------------------------------------------------------
\* Between two declarations the functions under compilation are those whose bodies are
\* being read, each with the scopes of the blocks and loops around and with every local
\* initialised, whichever errors the rules of the declarations before have left half-way.
\* Only the end of the source leaves a scope open, for the next source of the same
\* compiler, which is refused anyway.
EndsScope(k)    == \E i \in DOMAIN rules[k] : rules[k][i] = Compilers("end scope")
EndsFunction(k) == \E i \in DOMAIN rules[k] : rules[k][i] = Do("end function")
FunctionOfRule(k) == 1 + Cardinality({j \in 1..k : EndsFunction(j)})
ScopesOf(function) ==
  {k \in DOMAIN rules : EndsScope(k) /\ FunctionOfRule(k) = function}
ScopesRestored ==
  Doing("until") /\ Item.name = "declaration" /\ current_token # EOF /\ ~erred =>
    /\ Len(compilers) = FunctionOfRule(Len(rules))
    /\ \A f \in DOMAIN compilers : LET c == compilers[f] IN
         /\ c.current_scope_depth = Cardinality(ScopesOf(f)) + (IF f = 1 THEN 0 ELSE 1)
         /\ \A i \in DOMAIN c.locals : c.locals[i].local_scope_depth \in 0..c.current_scope_depth
         /\ c.current_scope_depth = 0 => Len(c.locals) = 1
    /\ Len(compilers) = 1 => ~Cur.within_class

\* A source is refused if and only if an error was shown for it, or for an earlier source
\* of the same compiler: Initialize forgets neither panic nor error.
RefusedForAReason ==
  status \in {"compiled", "failed"} => (status = "failed" <=> erred \/ first_error # "none")

\* An assertion fails only for a function without a name, for a name that strtod takes
\* for part of the number before it, and for a scanner error before the first token of all.
AbortsOnlyHere ==
  status = "aborted" =>
    \/ previous_token = "FUN" /\ Item.op = "function"
    \/ previous_token = "NUMBER" /\ current_token \in Exponents /\ Item.op = "precedence"
    \/ previous_token = NoToken /\ Text.unscannable
================================================================================
