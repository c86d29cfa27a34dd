------------------------------ MODULE ParserProofs ------------------------------
(***************************************************************************)
(* Whatever the sources, and however many the same compiler is given: the  *)
(* parser's flags and the errors it has shown agree, an assertion fails    *)
(* only at a function without a name, at a number read together with the   *)
(* name behind it, or at a first character no token begins with, and every *)
(* scope opened is one that is still to be closed.                         *)
(***************************************************************************)
EXTENDS Parser, InductionLemmas, FiniteSetTheorems, TLAPS

\* A panic is entered by an error that was shown, for this source or an earlier one;
\* only this makes it safe that errors found in a panic are dropped.
FlagsAgree ==
  /\ m_panic \in BOOLEAN /\ encountered_error \in BOOLEAN /\ erred \in BOOLEAN
  /\ m_panic => encountered_error
  /\ encountered_error <=> erred \/ first_error # "none"

ErrorInv == FlagsAgree /\ RefusedForAReason

Kinds == Seq({"scanner", "syntax", "name", "this", "return"})

\* A report keeps the flags in agreement, shown or silent.
LEMMA ReportKeeps ==
  ASSUME FlagsAgree, NEW kinds \in Kinds, Report(kinds), erred' = erred
  PROVE  FlagsAgree'
<1>1. CASE kinds = <<>>
  BY <1>1 DEF FlagsAgree, Report, errors, errorVars
<1>2. CASE kinds # <<>>
  <2>1. Head(kinds) \in {"scanner", "syntax", "name", "this", "return"}
    BY <1>2 DEF Kinds
  <2>2. m_panic' = TRUE /\ encountered_error' = (m_panic => encountered_error)
    BY <1>2 DEF Report, ReportError
  <2>3. first_error' = IF m_panic \/ first_error # "none" THEN first_error ELSE Head(kinds)
    BY <1>2 DEF Report
  <2>4. encountered_error' = TRUE
    BY <2>2 DEF FlagsAgree
  <2>5. erred \/ first_error' # "none"
    BY <2>1, <2>3 DEF FlagsAgree
  <2>6. QED
    BY <2>2, <2>4, <2>5 DEF FlagsAgree
<1>3. QED
  BY <1>1, <1>2

LEMMA StayKeeps ==
  ASSUME FlagsAgree, NEW kinds \in Kinds, Stay(kinds), erred' = erred
  PROVE  FlagsAgree'
  BY ReportKeeps DEF Stay

LEMMA AdvanceKeeps ==
  ASSUME FlagsAgree, NEW kinds \in Kinds, Advance(kinds), erred' = erred
  PROVE  FlagsAgree'
<1>1. CASE Report(kinds)
  BY <1>1, ReportKeeps
<1>2. CASE Report(<<"scanner">> \o kinds)
  <2>1. <<"scanner">> \o kinds \in Kinds
    BY DEF Kinds
  <2>2. QED
    BY <1>2, <2>1, ReportKeeps
<1>3. QED
  BY <1>1, <1>2 DEF Advance

LEMMA KindsUsed ==
  /\ <<>> \in Kinds /\ <<"syntax">> \in Kinds /\ <<"name">> \in Kinds
  /\ <<"this">> \in Kinds /\ <<"return">> \in Kinds
BY DEF Kinds

\* A number read together with the name behind it: the token is read, nothing else done.
LEMMA Misread ==
  ASSUME MisreadNumber
  PROVE  /\ status = "parsing" /\ rules # <<>> /\ Item.op = "precedence"
         /\ Advance(<<>>) /\ status' = "aborted" /\ compilers' = compilers /\ rules' = rules
         /\ current_token = "NUMBER" /\ previous_token' = "NUMBER" /\ current_token' \in Exponents
<1>1. PICK token \in Upcoming \cap Exponents : Scans(token)
  BY DEF MisreadNumber
<1>2. Report(<<>>)
  BY DEF MisreadNumber, Report
<1>3. Advance(<<>>)
  BY <1>1, <1>2 DEF Advance
<1>4. previous_token' = current_token /\ current_token' = token
  BY <1>1 DEF Scans, Shift, Deliver
<1>5. QED
  BY <1>1, <1>3, <1>4 DEF MisreadNumber, Doing

-------------------------------------------------------------------------------
LEMMA InitErrors == Init => ErrorInv
BY DEF Init, ParserStateInit, ErrorInv, FlagsAgree, RefusedForAReason

\* Every rule reports what it reports through Stay or Advance.
LEMMA RulesKeepFlags ==
  ASSUME FlagsAgree, Parse, erred' = erred
  PROVE  FlagsAgree'
<1> USE StayKeeps, AdvanceKeeps, KindsUsed
<1>1. CASE FirstAdvance
  <2>1. CASE Advance(<<>>)
    BY <2>1
  <2>2. CASE UNCHANGED errors
    BY <2>2 DEF errors, errorVars, FlagsAgree
  <2>3. QED
    BY <1>1, <2>1, <2>2 DEF FirstAdvance
<1>2. CASE Consume
  BY <1>2 DEF Consume
<1>3. CASE EnterRule
  BY <1>3 DEF EnterRule
<1>4. CASE Loop
  BY <1>4 DEF Loop
<1>5. CASE Choice
  BY <1>5 DEF Choice
<1>6. CASE ParsePrecedence
  BY <1>6 DEF ParsePrecedence
<1>7. CASE ParseInfix
  BY <1>7 DEF ParseInfix
<1>8. CASE NamedVariable
  BY <1>8 DEF NamedVariable
<1>9. CASE This
  BY <1>9 DEF This
<1>10. CASE Declare
  BY <1>10 DEF Declare
<1>11. CASE ChangeCompiler
  BY <1>11 DEF ChangeCompiler
<1>12. CASE EnterFunction
  BY <1>12 DEF EnterFunction
<1>13. CASE EndFunction
  BY <1>13 DEF EndFunction
<1>14. CASE ForbidReturn
  BY <1>14 DEF ForbidReturn
<1>15. CASE Recover
  BY <1>15 DEF Recover, ResetPanicState, errorVars, FlagsAgree
<1>16. CASE Synchronize
  BY <1>16 DEF Synchronize
<1>17. CASE EndSource
  BY <1>17 DEF EndSource, errors, errorVars, FlagsAgree
<1>18. CASE MisreadNumber
  BY <1>18, Misread
<1>19. QED
  BY <1>1, <1>2, <1>3, <1>4, <1>5, <1>6, <1>7, <1>8, <1>9, <1>10, <1>11, <1>12, <1>13,
     <1>14, <1>15, <1>16, <1>17, <1>18 DEF Parse

\* Only EndSource says whether a source is compiled, and no other rule runs behind it.
LEMMA RulesGiveReason ==
  ASSUME FlagsAgree, Parse, erred' = erred
  PROVE  RefusedForAReason'
<1>1. CASE EndSource
  BY <1>1 DEF EndSource, errors, errorVars, FlagsAgree, RefusedForAReason
<1>2. CASE ~EndSource
  <2>1. status' \in {"parsing", "aborted"}
    BY <1>2 DEF Parse, FirstAdvance, Consume, EnterRule, Loop, Choice, ParsePrecedence,
                MisreadNumber, ParseInfix, NamedVariable, This, Declare, ChangeCompiler, EnterFunction,
                EndFunction, ForbidReturn, Recover, Synchronize, Doing
  <2>2. QED
    BY <2>1 DEF RefusedForAReason
<1>3. QED
  BY <1>1, <1>2

LEMMA NextErrors == ErrorInv /\ [Next]_vars => ErrorInv'
<1> SUFFICES ASSUME ErrorInv, [Next]_vars PROVE ErrorInv'
  OBVIOUS
<1>1. CASE Initialize
  BY <1>1 DEF Initialize, ErrorInv, FlagsAgree, RefusedForAReason, errorVars
<1>2. CASE Parse /\ UNCHANGED sourceVars
  <2>1. erred' = erred
    BY <1>2 DEF sourceVars
  <2>2. QED
    BY <1>2, <2>1, RulesKeepFlags, RulesGiveReason DEF ErrorInv
<1>3. CASE UNCHANGED vars
  BY <1>3 DEF vars, parserStateVars, sourceVars, ErrorInv, FlagsAgree, RefusedForAReason
<1>4. QED
  BY <1>1, <1>2, <1>3 DEF Next

\* The parser refuses a source if and only if an error was shown for it or for an earlier
\* source of the same compiler: m_panic, which keeps errors from being shown, never keeps
\* a wrong source from being refused.
THEOREM RefusalsHaveReasons == Spec => []RefusedForAReason
<1>1. ErrorInv => RefusedForAReason
  BY DEF ErrorInv
<1>2. QED
  BY <1>1, InitErrors, NextErrors, PTL DEF Spec

-------------------------------------------------------------------------------
(***************************************************************************)
(* Where the name of a function is read: the rules whose items assume the  *)
(* token before are entered and left without another rule between.         *)
(***************************************************************************)
RuleName ==
  {"declaration", "statement", "classDeclaration", "variableDeclaration", "returnStatement",
   "printStatement", "expressionStatement", "block", "ifStatement", "whileStatement",
   "forStatement", "initializer"}

TypeName ==
  {"IDENTIFIER", "LEFT_PAREN", "RIGHT_PAREN", "LEFT_BRACE", "RIGHT_BRACE", "COMMA", "SEMICOLON",
   "EQUAL", "CLASS", "FUN", "VAR", "RETURN", "PRINT", "IF", "ELSE", "WHILE", "FOR"}
Change == {"begin scope", "end scope", "initialized", "enter class", "leave class"}
Missing == {"ignored", "reported", "returned"}

\* The items that say nothing of the token before, by how deep others lie in them.
Leaf ==
  [op : {"rule"}, name : RuleName]
    \cup [op : {"until"}, types : SUBSET {"RIGHT_BRACE", EOF}, name : {"declaration", "method"}]
    \cup [op : {"precedence", "infix"}, level : Int] \cup [op : {"named"}, can_assign : BOOLEAN]
    \cup [op : {"not in"}, type : {"INITIALIZER", "TOP_LEVEL_SCRIPT"}] \cup [op : {"compiler"}, change : Change]
    \cup [op : {"declare", "this", "end function", "recover", "synchronize", "advance"}]
With(items) ==
  items \cup [op : {"consume"}, type : TypeName, items : Seq(items), missing : Missing,
              again : BOOLEAN]
        \cup [op : {"unless"}, type : TypeName, items : Seq(items)]
Plain == With(With(With(Leaf)))
PlainList == Seq(Plain) \ {<<>>}

Naming == {Rule("functionDeclaration"), FunctionOf("METHOD"), FunctionOf("FUNCTION")}

\* What is left of functionDeclaration and of method, and the token it relies on.
FunctionNaming(items) ==
  \/ /\ current_token = "FUN"
     /\ \/ items = <<Rule("functionDeclaration"), Do("recover")>>
        \/ items = <<Optional("FUN", <<>>), ParseVariable(<<>>), Compilers("initialized"),
                     FunctionOf("FUNCTION"), Compilers("initialized")>>
  \/ /\ previous_token = "FUN"
     /\ items = <<ParseVariable(<<>>), Compilers("initialized"), FunctionOf("FUNCTION"),
                  Compilers("initialized")>>
  \/ /\ previous_token \in Identifiers
     /\ items = <<Do("declare"), Compilers("initialized"), FunctionOf("FUNCTION"),
                  Compilers("initialized")>>
  \/ /\ previous_token \in Identifiers \cup {"FUN"}
     /\ \/ items = <<Compilers("initialized"), FunctionOf("FUNCTION"), Compilers("initialized")>>
        \/ items = <<FunctionOf("FUNCTION"), Compilers("initialized")>>
MethodNaming(items) ==
  \/ items = <<Require("IDENTIFIER"), FunctionOf("METHOD")>>
  \/ previous_token \in Identifiers /\ items = <<FunctionOf("METHOD")>>
Names(items) == FunctionNaming(items) \/ MethodNaming(items)

RulesInv ==
  /\ rules \in Seq(Seq(Plain \cup Naming) \ {<<>>})
  /\ \A i \in 1..(Len(rules) - 1) : rules[i] \in PlainList
  /\ rules # <<>> => Last(rules) \in PlainList \/ Names(Last(rules))

\* The tokens are those of the source, and only before the first is there none before.
TokensInv ==
  /\ family \in Families /\ read \in Seq(STRING \cup {EOF})
  /\ status \in {"idle", "parsing", "compiled", "failed", "aborted"}
  /\ source \in 0..Len(family) /\ (status # "idle" => source > 0)
  /\ current_token = NoToken => previous_token = NoToken

AbortInv == RulesInv /\ TokensInv /\ AbortsOnlyHere


LEMMA PlainItems ==
  /\ \A i \in Plain : i.op # "function"
  /\ \A i \in Plain : i.op \in {"consume", "unless"} => i.items \in Seq(Plain)
  /\ \A i \in Plain : i.op = "rule" => i.name \in RuleName
  /\ \A i \in Plain : i.op = "until" => i.name \in {"declaration", "method"}
<1>1. \A i \in Leaf : /\ i.op \notin {"function", "consume", "unless"}
                      /\ i.op = "rule" => i.name \in RuleName
                      /\ i.op = "until" => i.name \in {"declaration", "method"}
  BY DEF Leaf
<1>2. ASSUME NEW S, \A i \in S : i.op = "rule" => i.name \in RuleName,
             \A i \in S : i.op = "until" => i.name \in {"declaration", "method"},
             \A i \in S : i.op # "function",
             \A i \in S : i.op \in {"consume", "unless"} => i.items \in Seq(S)
      PROVE  \A i \in With(S) :
               /\ i.op # "function"
               /\ i.op \in {"consume", "unless"} => i.items \in Seq(With(S))
               /\ i.op = "rule" => i.name \in RuleName
               /\ i.op = "until" => i.name \in {"declaration", "method"}
  <2>1. Seq(S) \subseteq Seq(With(S))
    BY DEF With
  <2>2. QED
    BY <1>2, <2>1 DEF With
<1>3. QED
  BY <1>1, <1>2 DEF Plain

LEMMA PlainWith ==
  /\ Leaf \subseteq With(Leaf) /\ With(Leaf) \subseteq With(With(Leaf))
  /\ With(With(Leaf)) \subseteq Plain /\ Leaf \subseteq Plain
BY DEF With, Plain

\* Items around items no deeper than three.
LEMMA MadeOf ==
  ASSUME NEW S, NEW items \in Seq(S), NEW type \in TypeName
  PROVE  /\ Optional(type, items) \in With(S) /\ Repeat(type, items) \in With(S)
         /\ Unless(type, items) \in With(S)
         /\ Expect(type) \in With(S) /\ Require(type) \in With(S)
<1>1. ASSUME NEW some \in Seq(S), NEW missing \in Missing, NEW again \in BOOLEAN
      PROVE  Token(type, some, missing, again) \in With(S)
  <2>1. Token(type, some, missing, again) \in
          [op : {"consume"}, type : TypeName, items : Seq(S), missing : Missing, again : BOOLEAN]
    BY DEF Token
  <2>2. QED
    BY <2>1, Zenon DEF With
<1>2. Unless(type, items) \in With(S)
  <2>1. Unless(type, items) \in [op : {"unless"}, type : TypeName, items : Seq(S)]
    BY DEF Unless
  <2>2. QED
    BY <2>1, Zenon DEF With
<1>3. <<>> \in Seq(S)
  OBVIOUS
<1>4. "ignored" \in Missing /\ "reported" \in Missing /\ "returned" \in Missing
  BY DEF Missing
<1>5. QED
  BY <1>1, <1>2, <1>3, <1>4, Zenon DEF Optional, Repeat, Expect, Require

LEMMA Leaves ==
  /\ \A name \in RuleName : Rule(name) \in Leaf
  /\ \A types \in SUBSET {"RIGHT_BRACE", EOF}, name \in {"declaration", "method"} : Until(types, name) \in Leaf
  /\ \A level \in Int : Precedence(level) \in Leaf /\ Infix(level) \in Leaf
  /\ \A b \in BOOLEAN : Named(b) \in Leaf
  /\ \A s \in {"INITIALIZER", "TOP_LEVEL_SCRIPT"} : NotIn(s) \in Leaf
  /\ \A change \in Change : Compilers(change) \in Leaf
  /\ \A op \in {"declare", "this", "end function", "recover", "synchronize", "advance"} :
       Do(op) \in Leaf
  /\ Expression \in Leaf
<1>1. \A name \in RuleName : Rule(name) \in [op : {"rule"}, name : RuleName]
  BY DEF Rule
<1>2. \A types \in SUBSET {"RIGHT_BRACE", EOF}, name \in {"declaration", "method"} :
        Until(types, name) \in
          [op : {"until"}, types : SUBSET {"RIGHT_BRACE", EOF}, name : {"declaration", "method"}]
  BY DEF Until
<1>3. \A level \in Int : /\ Precedence(level) \in [op : {"precedence", "infix"}, level : Int]
                         /\ Infix(level) \in [op : {"precedence", "infix"}, level : Int]
  BY DEF Precedence, Infix
<1>4. \A b \in BOOLEAN : Named(b) \in [op : {"named"}, can_assign : BOOLEAN]
  BY DEF Named
<1>5. \A s \in {"INITIALIZER", "TOP_LEVEL_SCRIPT"} :
        NotIn(s) \in [op : {"not in"}, type : {"INITIALIZER", "TOP_LEVEL_SCRIPT"}]
  BY DEF NotIn
<1>6. \A s \in Change : Compilers(s) \in [op : {"compiler"}, change : Change]
  BY DEF Compilers
<1>7. \A op \in {"declare", "this", "end function", "recover", "synchronize", "advance"} :
        Do(op) \in [op : {"declare", "this", "end function", "recover", "synchronize", "advance"}]
  BY DEF Do
<1>8. \A level \in Int : Precedence(level) \in Leaf
  BY <1>3, Zenon DEF Leaf
<1>9. PREC_ASSIGNMENT \in Int
  BY DEF PREC_ASSIGNMENT
<1>10. QED
  BY <1>1, <1>2, <1>3, <1>4, <1>5, <1>6, <1>7, <1>8, <1>9, ZenonT(60) DEF Leaf, Expression

LEMMA Top ==
  ASSUME RulesInv, rules # <<>>
  PROVE  /\ Front(rules) \in Seq(PlainList)
         /\ Last(rules) \in Seq(Plain \cup Naming) /\ Last(rules) # <<>>
         /\ Item = Last(rules)[1] /\ Item \in Plain \cup Naming /\ Rest \in Seq(Plain \cup Naming)
         /\ Last(rules) \in PlainList => Item \in Plain /\ Rest \in Seq(Plain)
<1>1. /\ rules \in Seq(Seq(Plain \cup Naming) \ {<<>>}) /\ Len(rules) \in Nat \ {0}
      /\ \A i \in 1..(Len(rules) - 1) : rules[i] \in PlainList
  BY DEF RulesInv
<1> HIDE DEF RulesInv, Plain, Naming
<1>2. Front(rules) \in Seq(PlainList)
  BY <1>1 DEF Front
<1>3. Last(rules) \in Seq(Plain \cup Naming) \ {<<>>}
  BY <1>1 DEF Last
<1>4. \A S : \A s \in Seq(S) : s # <<>> => Head(s) = s[1] /\ s[1] \in S /\ Tail(s) \in Seq(S)
  OBVIOUS
<1>5. QED
  BY <1>2, <1>3, <1>4 DEF Item, Rest, PlainList

LEMMA OnTop ==
  ASSUME NEW rs \in Seq(PlainList), NEW items \in Seq(Plain \cup Naming) \ {<<>>},
         items \in PlainList \/ \A r : r = items => Names(r)', rules' = Append(rs, items)
  PROVE  RulesInv'
<1>1. PlainList \subseteq Seq(Plain \cup Naming) \ {<<>>}
  BY DEF PlainList
<1> DEFINE All == Seq(Plain \cup Naming) \ {<<>>}
<1>2. rs \in Seq(All)
  BY <1>1
<1> HIDE DEF All
<1>3. items \in All
  BY DEF All
<1>4. /\ Append(rs, items) \in Seq(All) /\ Len(Append(rs, items)) = Len(rs) + 1
      /\ Append(rs, items)[Len(rs) + 1] = items
      /\ \A i \in 1..Len(rs) : Append(rs, items)[i] = rs[i]
  BY <1>2, <1>3
<1>5. \A i \in 1..(Len(rules') - 1) : rules'[i] \in PlainList
  <2>1. Len(rules') - 1 = Len(rs)
    BY <1>4
  <2>2. QED
    BY <1>4, <2>1
<1>6. Last(rules') = items
  BY <1>4 DEF Last
<1>7. rules' \in Seq(Seq(Plain \cup Naming) \ {<<>>})
  BY <1>4 DEF All
<1>8. items \in PlainList \/ \A r : r = items => Names(r)'
  OBVIOUS
<1>9. (rules # <<>> => Last(rules) \in PlainList \/ Names(Last(rules)))'
  BY <1>6, <1>8
<1>10. QED
  BY <1>5, <1>7, <1>9 DEF RulesInv

LEMMA NoneOnTop ==
  ASSUME NEW rs \in Seq(PlainList), rules' = rs
  PROVE  RulesInv'
<1>1. PlainList \subseteq Seq(Plain \cup Naming) \ {<<>>}
  BY DEF PlainList
<1> DEFINE All == Seq(Plain \cup Naming) \ {<<>>}
<1>2. rs \in Seq(All)
  BY <1>1
<1> HIDE DEF All
<1>3. \A i \in 1..Len(rs) : rs[i] \in PlainList
  OBVIOUS
<1>4. \A i \in 1..(Len(rs) - 1) : rs[i] \in PlainList
  <2>1. \A n \in Nat : \A i \in 1..(n - 1) : i \in 1..n
    OBVIOUS
  <2>2. QED
    BY <1>3, <2>1
<1>5. rs # <<>> => Last(rs) \in PlainList
  BY <1>3 DEF Last
<1>6. rules' \in Seq(Seq(Plain \cup Naming) \ {<<>>})
  BY <1>2 DEF All
<1>7. QED
  BY <1>4, <1>5, <1>6 DEF RulesInv

\* An item is done with, and other items of no name are put in its place.
LEMMA GoKeeps ==
  ASSUME RulesInv, rules # <<>>, NEW items \in Seq(Plain), Go(items)
  PROVE  RulesInv'
<1>1. CASE items = <<>>
  BY <1>1, Top, NoneOnTop DEF Go
<1>2. CASE items # <<>>
  <2>1. items \in PlainList /\ items \in Seq(Plain \cup Naming) \ {<<>>}
    BY <1>2 DEF PlainList
  <2>2. QED
    BY <1>2, <2>1, Top, OnTop DEF Go
<1>3. QED
  BY <1>1, <1>2

\* ... or an item that goes with a name.
LEMMA GoNames ==
  ASSUME RulesInv, rules # <<>>, NEW items \in Seq(Plain \cup Naming) \ {<<>>}, Go(items),
         \A r : r = items => Names(r)'
  PROVE  RulesInv'
BY Top, OnTop DEF Go

LEMMA ReturnKeeps ==
  ASSUME RulesInv, rules # <<>>, Return
  PROVE  RulesInv'
BY Top, NoneOnTop DEF Return

LEMMA CallKeeps ==
  ASSUME RulesInv, rules # <<>>, Rest \in Seq(Plain),
         NEW items \in Seq(Plain \cup Naming) \ {<<>>},
         items \in PlainList \/ \A r : r = items => Names(r)', Call(items)
  PROVE  RulesInv'
<1>1. CASE Rest = <<>>
  BY <1>1, Top, OnTop DEF Call
<1>2. CASE Rest # <<>>
  <2>1. Rest \in PlainList
    BY <1>2 DEF PlainList
  <2>2. Append(Front(rules), Rest) \in Seq(PlainList)
    BY <2>1, Top
  <2>3. QED
    BY <1>2, <2>2, OnTop DEF Call
<1>3. QED
  BY <1>1, <1>2

LEMMA PlainParts ==
  /\ \A i \in Leaf : i \in With(Leaf) /\ i \in Plain
  /\ \A type \in TypeName :
       /\ Expect(type) \in Plain /\ Require(type) \in Plain /\ Optional(type, <<>>) \in Plain
       /\ Expect(type) \in With(Leaf)
  /\ \A type \in TypeName, items \in Seq(Leaf) :
       /\ Optional(type, items) \in With(Leaf) /\ Optional(type, items) \in Plain
       /\ Unless(type, items) \in Plain
       /\ Repeat(type, items) \in With(Leaf)
  /\ \A type \in TypeName, items \in Seq(With(Leaf)) :
       /\ Optional(type, items) \in Plain
       /\ Unless(type, items) \in Plain /\ Repeat(type, items) \in With(With(Leaf))
  /\ \A type \in TypeName, items \in Seq(With(With(Leaf))) : Unless(type, items) \in Plain
<1>1. Seq(Leaf) \subseteq Seq(With(With(Leaf)))
  BY PlainWith
<1>2. Plain = With(With(With(Leaf))) /\ <<>> \in Seq(Leaf) /\ <<>> \in Seq(With(With(Leaf)))
  BY DEF Plain
<1>3. QED
  BY <1>1, <1>2, PlainWith, MadeOf, Zenon

LEMMA ItemsOfRules ==
  /\ Expression \in Leaf /\ Do("declare") \in Leaf /\ Do("this") \in Leaf /\ Do("recover") \in Leaf
  /\ Do("end function") \in Leaf
  /\ \A change \in Change : Compilers(change) \in Leaf
  /\ \A name \in RuleName : Rule(name) \in Leaf
  /\ ParseVariable(<<Compilers("initialized")>>) \in With(Leaf)
  /\ ParseVariable(<<>>) \in Plain
  /\ ParseVariable(<<Optional("EQUAL", <<Expression>>), Expect("SEMICOLON"),
                     Compilers("initialized")>>) \in Plain
<1>1. "initialized" \in Change /\ "EQUAL" \in TypeName /\ "SEMICOLON" \in TypeName
      /\ "IDENTIFIER" \in TypeName
  BY DEF Change, TypeName
<1>2. Compilers("initialized") \in Leaf /\ Do("declare") \in Leaf /\ Expression \in Leaf
  BY <1>1, Leaves
<1>3. \A S : \A a, b \in S : /\ <<a>> \in Seq(S) /\ <<a>> \o <<b>> \in Seq(S)
                            /\ <<a>> \o <<>> \in Seq(S)
  OBVIOUS
<1>4. ParseVariable(<<Compilers("initialized")>>) \in With(Leaf)
  <2>1. <<Do("declare")>> \o <<Compilers("initialized")>> \in Seq(Leaf)
    BY <1>2, <1>3
  <2>2. QED
    BY <1>1, <2>1, MadeOf DEF ParseVariable
<1>5. ParseVariable(<<>>) \in Plain
  <2>1. <<Do("declare")>> \o <<>> \in Seq(Leaf)
    BY <1>2, <1>3
  <2>2. QED
    BY <1>1, <2>1, PlainParts DEF ParseVariable
<1>6. ParseVariable(<<Optional("EQUAL", <<Expression>>), Expect("SEMICOLON"),
                      Compilers("initialized")>>) \in Plain
  <2>1. <<Expression>> \in Seq(Leaf)
    BY <1>2, <1>3
  <2>2. Optional("EQUAL", <<Expression>>) \in With(Leaf) /\ Expect("SEMICOLON") \in With(Leaf)
        /\ Compilers("initialized") \in With(Leaf) /\ Do("declare") \in With(Leaf)
    BY <1>1, <1>2, <2>1, PlainParts
  <2>3. \A S : \A a, b, c, d \in S : <<a>> \o <<b, c, d>> \in Seq(S)
    OBVIOUS
  <2>4. <<Do("declare")>> \o <<Optional("EQUAL", <<Expression>>), Expect("SEMICOLON"),
                              Compilers("initialized")>> \in Seq(With(Leaf))
    BY <2>2, <2>3
  <2>5. QED
    BY <1>1, <2>4, PlainParts DEF ParseVariable
<1>7. /\ Do("this") \in Leaf /\ Do("recover") \in Leaf /\ Do("end function") \in Leaf
      /\ \A change \in Change : Compilers(change) \in Leaf
      /\ \A name \in RuleName : Rule(name) \in Leaf
  BY Leaves
<1>8. QED
  BY <1>2, <1>4, <1>5, <1>6, <1>7

LEMMA FunctionBodyPlain == FunctionBody \in Seq(Plain)
<1>1. "RIGHT_PAREN" \in TypeName /\ "LEFT_PAREN" \in TypeName /\ "COMMA" \in TypeName
      /\ "block" \in RuleName
  BY DEF TypeName, RuleName
<1> DEFINE parameter == ParseVariable(<<Compilers("initialized")>>)
<1>2. parameter \in With(Leaf) /\ parameter \in With(With(Leaf))
  BY ItemsOfRules, PlainWith
<1> HIDE DEF parameter
<1>3. <<parameter>> \in Seq(With(Leaf))
  BY <1>2
<1>4. Repeat("COMMA", <<parameter>>) \in With(With(Leaf))
  BY <1>1, <1>3, PlainParts
<1>5. <<parameter, Repeat("COMMA", <<parameter>>)>> \in Seq(With(With(Leaf)))
  BY <1>2, <1>4
<1>6. Unless("RIGHT_PAREN", <<parameter, Repeat("COMMA", <<parameter>>)>>) \in Plain
  BY <1>1, <1>5, PlainParts
<1>7. /\ Expect("LEFT_PAREN") \in Plain /\ Expect("RIGHT_PAREN") \in Plain
      /\ Rule("block") \in Plain /\ Do("end function") \in Plain
  BY <1>1, ItemsOfRules, PlainParts
<1>8. \A S : \A a, b, c, d, e \in S : <<a, b, c, d, e>> \in Seq(S)
  OBVIOUS
<1>9. QED
  BY <1>6, <1>7, <1>8 DEF FunctionBody, parameter

\* Every rule begins with items of no name, but for functionDeclaration, which
\* declaration calls at "fun".
LEMMA Bodies ==
  ASSUME NEW name \in RuleName
  PROVE  /\ Body(name) \in Seq(Plain \cup Naming) \ {<<>>}
         /\ \/ Body(name) \in PlainList
            \/ current_token = "FUN" /\ Body(name) = <<Rule("functionDeclaration"), Do("recover")>>
<1>1. \A type \in {"IDENTIFIER", "LEFT_PAREN", "RIGHT_PAREN", "LEFT_BRACE", "RIGHT_BRACE", "COMMA",
                   "SEMICOLON", "EQUAL", "CLASS", "VAR", "RETURN", "PRINT", "IF", "ELSE", "WHILE",
                   "FOR"} :
        /\ Expect(type) \in Plain /\ Require(type) \in Plain /\ Optional(type, <<>>) \in Plain
        /\ \A i \in Leaf : Optional(type, <<i>>) \in Plain /\ Unless(type, <<i>>) \in Plain
  <2>1. \A i \in Leaf : <<i>> \in Seq(Leaf)
    OBVIOUS
  <2>2. QED
    BY <2>1, PlainParts DEF TypeName
<1>2. \A change \in Change : Compilers(change) \in Plain
  BY Leaves, PlainParts
<1>3. \A n \in RuleName : Rule(n) \in Plain /\ Rule(n) \in Leaf
  BY Leaves, PlainParts
<1>4. /\ Expression \in Plain /\ Expression \in Leaf /\ Do("declare") \in Plain
      /\ Do("recover") \in Plain
  BY ItemsOfRules, PlainParts
<1>5. Named(FALSE) \in Plain /\ Until({"RIGHT_BRACE", EOF}, "method") \in Plain
      /\ Until({"RIGHT_BRACE", EOF}, "declaration") \in Plain
      /\ NotIn("INITIALIZER") \in Plain /\ NotIn("TOP_LEVEL_SCRIPT") \in Plain
  <2>1. {"RIGHT_BRACE", EOF} \in SUBSET {"RIGHT_BRACE", EOF}
    OBVIOUS
  <2>2. QED
    BY <2>1, Leaves, PlainParts
<1>6. /\ \A a \in Plain : <<a>> \in Seq(Plain) \ {<<>>}
      /\ \A a, b \in Plain : <<a, b>> \in Seq(Plain) \ {<<>>}
      /\ \A a, b, c \in Plain : <<a, b, c>> \in Seq(Plain) \ {<<>>}
      /\ \A a, b, c, d, e \in Plain : <<a, b, c, d, e>> \in Seq(Plain) \ {<<>>}
  OBVIOUS
<1>7. /\ \A a, b, c, d, e, f \in Plain : <<a, b, c, d, e, f>> \in Seq(Plain) \ {<<>>}
      /\ \A a, b, c, d, e, f, g, h, i, j \in Plain :
           <<a, b, c, d, e, f, g, h, i, j>> \in Seq(Plain) \ {<<>>}
  OBVIOUS
<1>8. SUFFICES \/ Body(name) \in Seq(Plain) \ {<<>>}
               \/ current_token = "FUN" /\ Body(name) = <<Rule("functionDeclaration"), Do("recover")>>
  <2>1. Rule("functionDeclaration") \in Plain \cup Naming /\ Do("recover") \in Plain \cup Naming
    BY <1>4 DEF Naming
  <2>2. Seq(Plain) \subseteq Seq(Plain \cup Naming)
    OBVIOUS
  <2>3. <<Rule("functionDeclaration"), Do("recover")>> \in Seq(Plain \cup Naming) \ {<<>>}
    BY <2>1
  <2>4. QED
    BY <2>2, <2>3, Zenon DEF PlainList
<1>9. CASE name = "declaration"
  <2>1. Body(name) = <<Rule(DeclarationRule(current_token)), Do("recover")>>
    BY <1>9 DEF Body
  <2>2. CASE current_token = "FUN"
    <3>1. DeclarationRule(current_token) = "functionDeclaration"
      BY <2>2 DEF DeclarationRule
    <3>2. QED
      BY <2>1, <2>2, <3>1, Zenon
  <2>3. CASE current_token # "FUN"
    <3>1. DeclarationRule(current_token) \in
            {"variableDeclaration", "returnStatement", "classDeclaration", "statement"}
      BY <2>3 DEF DeclarationRule
    <3>2. DeclarationRule(current_token) \in RuleName
      BY <3>1 DEF RuleName
    <3>3. QED
      BY <1>3, <1>4, <1>6, <2>1, <3>2
  <2>4. QED
    BY <2>2, <2>3
<1>10. CASE name = "statement"
  <2>1. Body(name) = <<Rule(StatementRule(current_token))>>
    BY <1>10 DEF Body
  <2>2. StatementRule(current_token) \in RuleName
    BY DEF StatementRule, RuleName
  <2>3. QED
    BY <1>3, <1>6, <2>1, <2>2
<1>11. CASE name = "initializer"
  <2>1. Body(name) = <<InitializerClause(current_token)>>
    BY <1>11 DEF Body
  <2>2. "variableDeclaration" \in RuleName /\ "expressionStatement" \in RuleName
    BY DEF RuleName
  <2>3. InitializerClause(current_token) \in
          {Expect("SEMICOLON"), Optional("VAR", <<Rule("variableDeclaration")>>),
           Rule("expressionStatement")}
    BY DEF InitializerClause
  <2>4. /\ Expect("SEMICOLON") \in Plain /\ Rule("expressionStatement") \in Plain
        /\ Optional("VAR", <<Rule("variableDeclaration")>>) \in Plain
    BY <1>1, <1>3, <2>2, Zenon
  <2>5. QED
    BY <1>6, <2>1, <2>3, <2>4
<1>12. "declaration" \in RuleName /\ "statement" \in RuleName /\ "initializer" \in RuleName
       /\ \A s \in {"initialized", "enter class", "leave class", "begin scope", "end scope"} :
            s \in Change
  BY DEF RuleName, Change
<1>13. CASE name = "classDeclaration"
  <2>1. Body(name) =
         <<Optional("CLASS", <<>>), Require("IDENTIFIER"), Do("declare"),
           Compilers("initialized"), Compilers("enter class"), Named(FALSE),
           Expect("LEFT_BRACE"), Until({"RIGHT_BRACE", EOF}, "method"),
           Expect("RIGHT_BRACE"), Compilers("leave class")>>
    BY <1>13 DEF Body
  <2>2. /\ Optional("CLASS", <<>>) \in Plain /\ Require("IDENTIFIER") \in Plain
        /\ Do("declare") \in Plain /\ Compilers("initialized") \in Plain
        /\ Compilers("enter class") \in Plain /\ Named(FALSE) \in Plain
        /\ Expect("LEFT_BRACE") \in Plain /\ Until({"RIGHT_BRACE", EOF}, "method") \in Plain
        /\ Expect("RIGHT_BRACE") \in Plain /\ Compilers("leave class") \in Plain
    BY <1>1, <1>2, <1>4, <1>5, <1>12, Zenon
  <2>3. PICK a, b, c, d, e, f, g, h, i, j \in Plain :
         Body(name) = <<a, b, c, d, e, f, g, h, i, j>>
    BY <2>1, <2>2, Zenon
  <2>4. QED
    BY <1>7, <2>3
<1>14. CASE name = "variableDeclaration"
  <2>1. Body(name) =
         <<Optional("VAR", <<>>),
           ParseVariable(<<Optional("EQUAL", <<Expression>>), Expect("SEMICOLON"),
                           Compilers("initialized")>>)>>
    BY <1>14 DEF Body
  <2>2. /\ Optional("VAR", <<>>) \in Plain
        /\ ParseVariable(<<Optional("EQUAL", <<Expression>>), Expect("SEMICOLON"), Compilers("initialized")>>) \in Plain
    BY <1>1, ItemsOfRules, Zenon
  <2>3. QED
    BY <1>6, <2>1, <2>2
<1>15. CASE name = "returnStatement"
  <2>1. Body(name) =
         <<NotIn("INITIALIZER"), Optional("RETURN", <<>>), NotIn("TOP_LEVEL_SCRIPT"),
           Unless("SEMICOLON", <<Expression>>), Require("SEMICOLON")>>
    BY <1>15 DEF Body
  <2>2. /\ NotIn("INITIALIZER") \in Plain /\ Optional("RETURN", <<>>) \in Plain
        /\ NotIn("TOP_LEVEL_SCRIPT") \in Plain
        /\ Unless("SEMICOLON", <<Expression>>) \in Plain /\ Require("SEMICOLON") \in Plain
    BY <1>1, <1>4, <1>5, Zenon
  <2>3. QED
    BY <1>6, <2>1, <2>2
<1>16. CASE name = "printStatement"
  <2>1. Body(name) = <<Optional("PRINT", <<>>), Expression, Expect("SEMICOLON")>>
    BY <1>16 DEF Body
  <2>2. /\ Optional("PRINT", <<>>) \in Plain /\ Expression \in Plain
        /\ Expect("SEMICOLON") \in Plain
    BY <1>1, <1>4, Zenon
  <2>3. QED
    BY <1>6, <2>1, <2>2
<1>17. CASE name = "expressionStatement"
  <2>1. Body(name) = <<Expression, Expect("SEMICOLON")>>
    BY <1>17 DEF Body
  <2>2. /\ Expression \in Plain /\ Expect("SEMICOLON") \in Plain
    BY <1>1, <1>4, Zenon
  <2>3. QED
    BY <1>6, <2>1, <2>2
<1>18. CASE name = "block"
  <2>1. Body(name) =
         <<Compilers("begin scope"), Expect("LEFT_BRACE"),
           Until({"RIGHT_BRACE", EOF}, "declaration"), Require("RIGHT_BRACE"),
           Compilers("end scope")>>
    BY <1>18 DEF Body
  <2>2. /\ Compilers("begin scope") \in Plain /\ Expect("LEFT_BRACE") \in Plain
        /\ Until({"RIGHT_BRACE", EOF}, "declaration") \in Plain
        /\ Require("RIGHT_BRACE") \in Plain /\ Compilers("end scope") \in Plain
    BY <1>1, <1>2, <1>5, <1>12, Zenon
  <2>3. PICK a, b, c, d, e \in Plain :
         Body(name) = <<a, b, c, d, e>>
    BY <2>1, <2>2, Zenon
  <2>4. QED
    BY <1>6, <2>3
<1>19. CASE name = "ifStatement"
  <2>1. Body(name) =
         <<Optional("IF", <<>>), Expect("LEFT_PAREN"), Expression, Expect("RIGHT_PAREN"),
           Rule("declaration"), Optional("ELSE", <<Rule("statement")>>)>>
    BY <1>19 DEF Body
  <2>2. /\ Optional("IF", <<>>) \in Plain /\ Expect("LEFT_PAREN") \in Plain
        /\ Expression \in Plain /\ Expect("RIGHT_PAREN") \in Plain
        /\ Rule("declaration") \in Plain
        /\ Optional("ELSE", <<Rule("statement")>>) \in Plain
    BY <1>1, <1>3, <1>4, <1>12, Zenon
  <2>3. QED
    BY <1>7, <2>1, <2>2
<1>20. CASE name = "whileStatement"
  <2>1. Body(name) =
         <<Optional("WHILE", <<>>), Expect("LEFT_PAREN"), Expression, Expect("RIGHT_PAREN"),
           Rule("statement")>>
    BY <1>20 DEF Body
  <2>2. /\ Optional("WHILE", <<>>) \in Plain /\ Expect("LEFT_PAREN") \in Plain
        /\ Expression \in Plain /\ Expect("RIGHT_PAREN") \in Plain
        /\ Rule("statement") \in Plain
    BY <1>1, <1>3, <1>4, <1>12, Zenon
  <2>3. QED
    BY <1>6, <2>1, <2>2
<1>21. CASE name = "forStatement"
  <2>1. Body(name) =
         <<Compilers("begin scope"), Optional("FOR", <<>>), Expect("LEFT_PAREN"),
           Rule("initializer"), Unless("SEMICOLON", <<Expression>>), Expect("SEMICOLON"),
           Unless("RIGHT_PAREN", <<Expression>>), Expect("RIGHT_PAREN"),
           Rule("statement"), Compilers("end scope")>>
    BY <1>21 DEF Body
  <2>2. /\ Compilers("begin scope") \in Plain /\ Optional("FOR", <<>>) \in Plain
        /\ Expect("LEFT_PAREN") \in Plain /\ Rule("initializer") \in Plain
        /\ Unless("SEMICOLON", <<Expression>>) \in Plain /\ Expect("SEMICOLON") \in Plain
        /\ Unless("RIGHT_PAREN", <<Expression>>) \in Plain
        /\ Expect("RIGHT_PAREN") \in Plain /\ Rule("statement") \in Plain
        /\ Compilers("end scope") \in Plain
    BY <1>1, <1>2, <1>3, <1>4, <1>12, Zenon
  <2>3. PICK a, b, c, d, e, f, g, h, i, j \in Plain :
         Body(name) = <<a, b, c, d, e, f, g, h, i, j>>
    BY <2>1, <2>2, Zenon
  <2>4. QED
    BY <1>7, <2>3
<1>22. QED
  BY <1>9, <1>10, <1>11, <1>13, <1>14, <1>15, <1>16, <1>17, <1>18, <1>19, <1>20, <1>21 DEF RuleName

LEMMA NamingItems ==
  ASSUME RulesInv, rules # <<>>, Names(Last(rules))
  PROVE  \/ /\ Item = Rule("functionDeclaration") /\ Rest = <<Do("recover")>>
            /\ current_token = "FUN"
         \/ /\ Item = Optional("FUN", <<>>) /\ current_token = "FUN"
            /\ Rest = <<ParseVariable(<<>>), Compilers("initialized"), FunctionOf("FUNCTION"),
                        Compilers("initialized")>>
         \/ /\ Item = ParseVariable(<<>>) /\ previous_token = "FUN"
            /\ Rest = <<Compilers("initialized"), FunctionOf("FUNCTION"),
                        Compilers("initialized")>>
         \/ /\ Item = Do("declare") /\ previous_token \in Identifiers
            /\ Rest = <<Compilers("initialized"), FunctionOf("FUNCTION"),
                        Compilers("initialized")>>
         \/ /\ Item = Compilers("initialized") /\ previous_token \in Identifiers \cup {"FUN"}
            /\ Rest = <<FunctionOf("FUNCTION"), Compilers("initialized")>>
         \/ /\ Item = FunctionOf("FUNCTION") /\ previous_token \in Identifiers \cup {"FUN"}
            /\ Rest = <<Compilers("initialized")>>
         \/ Item = Require("IDENTIFIER") /\ Rest = <<FunctionOf("METHOD")>>
         \/ Item = FunctionOf("METHOD") /\ Rest = <<>> /\ previous_token \in Identifiers
<1>1. /\ \A a : Head(<<a>>) = a /\ Tail(<<a>>) = <<>>
      /\ \A a, b : Head(<<a, b>>) = a /\ Tail(<<a, b>>) = <<b>>
      /\ \A a, b, c : Head(<<a, b, c>>) = a /\ Tail(<<a, b, c>>) = <<b, c>>
      /\ \A a, b, c, d : Head(<<a, b, c, d>>) = a /\ Tail(<<a, b, c, d>>) = <<b, c, d>>
      /\ \A a, b, c, d, e : Head(<<a, b, c, d, e>>) = a /\ Tail(<<a, b, c, d, e>>) = <<b, c, d, e>>
  OBVIOUS
<1>2. Item = Head(Last(rules)) /\ Rest = Tail(Last(rules))
  BY DEF Item, Rest
<1>3. CASE FunctionNaming(Last(rules))
  <2>1. CASE Last(rules) = <<Rule("functionDeclaration"), Do("recover")>> /\ current_token = "FUN"
    BY <1>1, <1>2, <2>1, Zenon
  <2>2. CASE /\ current_token = "FUN"
             /\ Last(rules) = <<Optional("FUN", <<>>), ParseVariable(<<>>), Compilers("initialized"),
                                FunctionOf("FUNCTION"), Compilers("initialized")>>
    <3>1. \A a, b, c, d, e : Last(rules) = <<a, b, c, d, e>> => Item = a /\ Rest = <<b, c, d, e>>
      BY <1>1, <1>2
    <3>2. QED
      BY <2>2, <3>1, Zenon
  <2>3. CASE /\ previous_token = "FUN"
             /\ Last(rules) = <<ParseVariable(<<>>), Compilers("initialized"),
                                FunctionOf("FUNCTION"), Compilers("initialized")>>
    <3>1. \A a, b, c, d : Last(rules) = <<a, b, c, d>> => Item = a /\ Rest = <<b, c, d>>
      BY <1>1, <1>2
    <3>2. QED
      BY <2>3, <3>1, Zenon
  <2>4. CASE /\ previous_token \in Identifiers
             /\ Last(rules) = <<Do("declare"), Compilers("initialized"), FunctionOf("FUNCTION"),
                                Compilers("initialized")>>
    <3>1. \A a, b, c, d : Last(rules) = <<a, b, c, d>> => Item = a /\ Rest = <<b, c, d>>
      BY <1>1, <1>2
    <3>2. QED
      BY <2>4, <3>1, Zenon
  <2>5. CASE /\ previous_token \in Identifiers \cup {"FUN"}
             /\ Last(rules) = <<Compilers("initialized"), FunctionOf("FUNCTION"),
                                Compilers("initialized")>>
    <3>1. \A a, b, c : Last(rules) = <<a, b, c>> => Item = a /\ Rest = <<b, c>>
      BY <1>1, <1>2
    <3>2. QED
      BY <2>5, <3>1, Zenon
  <2>6. CASE /\ previous_token \in Identifiers \cup {"FUN"}
             /\ Last(rules) = <<FunctionOf("FUNCTION"), Compilers("initialized")>>
    BY <1>1, <1>2, <2>6, Zenon
  <2>7. QED
    BY <1>3, <2>1, <2>2, <2>3, <2>4, <2>5, <2>6, Zenon DEF FunctionNaming
<1>4. CASE Last(rules) = <<Require("IDENTIFIER"), FunctionOf("METHOD")>>
  BY <1>1, <1>2, <1>4, Zenon
<1>5. CASE previous_token \in Identifiers /\ Last(rules) = <<FunctionOf("METHOD")>>
  BY <1>1, <1>2, <1>5, Zenon
<1>6. QED
  BY <1>3, <1>4, <1>5, Zenon DEF Names, MethodNaming

LEMMA NamingOps ==
  /\ Rule("functionDeclaration").op = "rule"
  /\ Rule("functionDeclaration").name = "functionDeclaration"
  /\ Optional("FUN", <<>>).op = "consume" /\ Optional("FUN", <<>>).type = "FUN"
  /\ Optional("FUN", <<>>).items = <<>> /\ ~Optional("FUN", <<>>).again
  /\ ParseVariable(<<>>).op = "consume" /\ ParseVariable(<<>>).type = "IDENTIFIER"
  /\ ParseVariable(<<>>).items = <<Do("declare")>> /\ ~ParseVariable(<<>>).again
  /\ ParseVariable(<<>>).missing = "ignored"
  /\ Do("declare").op = "declare" /\ Compilers("initialized").op = "compiler"
  /\ FunctionOf("FUNCTION").op = "function" /\ FunctionOf("METHOD").op = "function"
  /\ Require("IDENTIFIER").op = "consume" /\ Require("IDENTIFIER").type = "IDENTIFIER"
  /\ Require("IDENTIFIER").items = <<>> /\ ~Require("IDENTIFIER").again
  /\ Require("IDENTIFIER").missing = "returned"
<1>1. <<Do("declare")>> \o <<>> = <<Do("declare")>>
  OBVIOUS
<1>2. QED
  BY <1>1 DEF Rule, Optional, ParseVariable, Do, Compilers, FunctionOf, Require, Token

\* Where an item other than these is dealt with, no name is awaited.
LEMMA OtherItems ==
  ASSUME RulesInv, rules # <<>>, Item.op \notin {"rule", "consume", "declare", "compiler", "function"}
  PROVE  Item \in Plain /\ Rest \in Seq(Plain)
<1>1. ~Names(Last(rules))
  BY NamingItems, NamingOps
<1>2. QED
  BY <1>1, Top DEF RulesInv

LEMMA FunctionItem ==
  ASSUME RulesInv, rules # <<>>, Item.op = "function"
  PROVE  Rest \in Seq(Plain) /\ previous_token \in Identifiers \cup {"FUN"}
<1>1. ~(Last(rules) \in PlainList)
  BY Top, PlainItems
<1>2. Names(Last(rules))
  BY <1>1 DEF RulesInv
<1>3. <<Compilers("initialized")>> \in Seq(Plain) /\ <<>> \in Seq(Plain)
  <2>1. Compilers("initialized") \in Plain
    BY ItemsOfRules, PlainParts DEF Change
  <2>2. QED
    BY <2>1
<1>4. Rest = <<Compilers("initialized")>> \/ Rest = <<>>
  BY <1>2, NamingItems, NamingOps
<1>5. previous_token \in Identifiers \cup {"FUN"}
  BY <1>2, NamingItems, NamingOps
<1>6. QED
  BY <1>3, <1>4, <1>5

\* What the rest of functionDeclaration or of method is made of.
LEMMA NamingLists ==
  /\ <<ParseVariable(<<>>), Compilers("initialized"), FunctionOf("FUNCTION"),
       Compilers("initialized")>> \in Seq(Plain \cup Naming) \ {<<>>}
  /\ <<Do("declare"), Compilers("initialized"), FunctionOf("FUNCTION"),
       Compilers("initialized")>> \in Seq(Plain \cup Naming) \ {<<>>}
  /\ <<Compilers("initialized"), FunctionOf("FUNCTION"), Compilers("initialized")>>
       \in Seq(Plain \cup Naming) \ {<<>>}
  /\ <<FunctionOf("FUNCTION"), Compilers("initialized")>> \in Seq(Plain \cup Naming) \ {<<>>}
  /\ <<FunctionOf("METHOD")>> \in Seq(Plain \cup Naming) \ {<<>>}
  /\ <<Require("IDENTIFIER"), FunctionOf("METHOD")>> \in Seq(Plain \cup Naming) \ {<<>>}
  /\ <<Optional("FUN", <<>>), ParseVariable(<<>>), Compilers("initialized"),
       FunctionOf("FUNCTION"), Compilers("initialized")>> \in Seq(Plain \cup Naming) \ {<<>>}
  /\ <<Do("recover")>> \in Seq(Plain)
<1> DEFINE All == Plain \cup Naming
<1>1. "initialized" \in Change /\ "IDENTIFIER" \in TypeName /\ "FUN" \in TypeName
  BY DEF Change, TypeName
<1>2. Do("recover") \in Plain
  BY ItemsOfRules, PlainParts
<1>3. /\ ParseVariable(<<>>) \in All /\ Do("declare") \in All /\ Compilers("initialized") \in All
      /\ Require("IDENTIFIER") \in All /\ Optional("FUN", <<>>) \in All
  BY <1>1, ItemsOfRules, PlainParts, Zenon
<1>4. FunctionOf("FUNCTION") \in All /\ FunctionOf("METHOD") \in All
  BY Zenon DEF Naming
<1> HIDE DEF All
<1>5. \A a, b, c, d, e \in All :
        /\ <<a>> \in Seq(All) \ {<<>>} /\ <<a, b>> \in Seq(All) \ {<<>>}
        /\ <<a, b, c>> \in Seq(All) \ {<<>>} /\ <<a, b, c, d>> \in Seq(All) \ {<<>>}
        /\ <<a, b, c, d, e>> \in Seq(All) \ {<<>>}
  OBVIOUS
<1>6. <<Do("recover")>> \in Seq(Plain)
  BY <1>2
<1>7. QED
  BY <1>3, <1>4, <1>5, <1>6 DEF All

LEMMA ConsumeKeepsNames ==
  ASSUME RulesInv, Consume
  PROVE  RulesInv'
<1>1. rules # <<>> /\ Item.op = "consume"
  BY DEF Consume, Doing
<1>2. CASE Last(rules) \in PlainList
  <2>1. Item \in Plain /\ Rest \in Seq(Plain) /\ Item.items \in Seq(Plain)
    BY <1>1, <1>2, Top, PlainItems
  <2>2. Last(rules) \in Seq(Plain)
    BY <1>2 DEF PlainList
  <2>3. (IF Item.again THEN Last(rules) ELSE Rest) \in Seq(Plain)
    BY <2>1, <2>2
  <2>4. Item.items \o (IF Item.again THEN Last(rules) ELSE Rest) \in Seq(Plain)
    BY <2>1, <2>3
  <2>5. \/ Go(Item.items \o (IF Item.again THEN Last(rules) ELSE Rest)) \/ Go(Rest) \/ Return
    BY DEF Consume
  <2>6. QED
    BY <1>1, <2>1, <2>4, <2>5, GoKeeps, ReturnKeeps
<1>3. CASE Names(Last(rules))
  <2>1. \/ /\ Is(current_token, Item.type) /\ Advance(<<>>)
           /\ Go(Item.items \o (IF Item.again THEN Last(rules) ELSE Rest))
        \/ /\ ~Is(current_token, Item.type)
           /\ \/ Item.missing = "ignored"  /\ Stay(<<>>) /\ Go(Rest)
              \/ Item.missing = "reported" /\ Stay(<<"syntax">>) /\ Go(Rest)
              \/ Item.missing = "returned" /\ Stay(<<"syntax">>) /\ Return
    BY DEF Consume
  <2>2. Advance(<<>>) => previous_token' = current_token
    BY DEF Advance, Scans, Shift
  <2>3. \A kinds : Stay(kinds) => previous_token' = previous_token
    BY DEF Stay, tokenVars
  <2>4. \A S : \A s \in Seq(S) : <<>> \o s = s
    OBVIOUS
  <2>5. Rest \in Seq(Plain \cup Naming)
    BY <1>1, Top
  <2>6. CASE /\ Item = Optional("FUN", <<>>) /\ current_token = "FUN"
             /\ Rest = <<ParseVariable(<<>>), Compilers("initialized"), FunctionOf("FUNCTION"),
                         Compilers("initialized")>>
    <3>1. Is(current_token, Item.type)
      BY <2>6, NamingOps DEF Is
    <3>2. Advance(<<>>) /\ Go(Rest)
      BY <2>1, <2>4, <2>5, <2>6, <3>1, NamingOps
    <3>3. Rest \in Seq(Plain \cup Naming) \ {<<>>}
      BY <2>6, NamingLists, Zenon
    <3>4. previous_token' = "FUN"
      BY <2>2, <2>6, <3>2
    <3>5. ASSUME NEW r, r = Rest PROVE Names(r)'
      <4>1. r = <<ParseVariable(<<>>), Compilers("initialized"), FunctionOf("FUNCTION"),
                  Compilers("initialized")>>
        BY <2>6, <3>5
      <4>2. QED
        BY <3>4, <4>1, Zenon DEF Names, FunctionNaming
    <3>6. QED
      BY <1>1, <3>2, <3>3, <3>5, GoNames
  <2>7. CASE /\ Item = ParseVariable(<<>>) /\ previous_token = "FUN"
             /\ Rest = <<Compilers("initialized"), FunctionOf("FUNCTION"),
                         Compilers("initialized")>>
    <3>1. CASE Is(current_token, Item.type)
      <4>1. current_token \in Identifiers
        BY <2>7, <3>1, NamingOps DEF Is
      <4>2. ASSUME NEW a, NEW b, NEW c, NEW d
            PROVE  <<a>> \o <<b, c, d>> = <<a, b, c, d>>
        <5>1. \A S : \A s, t \in Seq(S) :
                Len(s) = Len(t) /\ (\A i \in 1..Len(s) : s[i] = t[i]) => s = t
          OBVIOUS
        <5> DEFINE s == <<a>> \o <<b, c, d>>
                   t == <<a, b, c, d>>
                   S == {a, b, c, d}
        <5>2. s \in Seq(S) /\ t \in Seq(S) /\ Len(s) = 4 /\ Len(t) = 4
          OBVIOUS
        <5>3. s[1] = t[1] /\ s[2] = t[2] /\ s[3] = t[3] /\ s[4] = t[4]
          OBVIOUS
        <5>4. \A i \in 1..4 : i = 1 \/ i = 2 \/ i = 3 \/ i = 4
          OBVIOUS
        <5> HIDE DEF s, t, S
        <5>5. s = t
          BY <5>1, <5>2, <5>3, <5>4
        <5>6. QED
          BY <5>5 DEF s, t
      <4> DEFINE named == <<Do("declare"), Compilers("initialized"), FunctionOf("FUNCTION"),
                           Compilers("initialized")>>
      <4>3. Item.items \o Rest = named
        BY <2>7, <4>2, NamingOps
      <4>4. Advance(<<>>) /\ Go(named)
        BY <2>1, <2>7, <3>1, <4>3, NamingOps
      <4>5. previous_token' \in Identifiers
        BY <2>2, <4>1, <4>4
      <4>6. ASSUME NEW r, r = named PROVE Names(r)'
        BY <4>5, <4>6, Zenon DEF Names, FunctionNaming
      <4>7. named \in Seq(Plain \cup Naming) \ {<<>>}
        BY NamingLists
      <4> HIDE DEF named
      <4>8. QED
        BY <1>1, <4>4, <4>6, <4>7, GoNames
    <3>2. CASE ~Is(current_token, Item.type)
      <4>1. Stay(<<>>) /\ Go(Rest)
        BY <2>1, <2>7, <3>2, NamingOps
      <4>2. previous_token' = "FUN"
        BY <2>3, <2>7, <4>1
      <4>3. ASSUME NEW r, r = Rest PROVE Names(r)'
        <5>1. r = <<Compilers("initialized"), FunctionOf("FUNCTION"), Compilers("initialized")>>
          BY <2>7, <4>3
        <5>2. previous_token' \in (Identifiers \cup {"FUN"})'
          BY <4>2
        <5>3. QED
          BY <5>1, <5>2, Zenon DEF Names, FunctionNaming
      <4>4. Rest \in Seq(Plain \cup Naming) \ {<<>>}
        BY <2>7, NamingLists, Zenon
      <4>5. QED
        BY <1>1, <4>1, <4>3, <4>4, GoNames
    <3>3. QED
      BY <3>1, <3>2
  <2>8. CASE Item = Require("IDENTIFIER") /\ Rest = <<FunctionOf("METHOD")>>
    <3>1. CASE Is(current_token, Item.type)
      <4>1. current_token \in Identifiers
        BY <2>8, <3>1, NamingOps DEF Is
      <4>2. Advance(<<>>) /\ Go(Rest)
        BY <2>1, <2>4, <2>5, <2>8, <3>1, NamingOps
      <4>3. previous_token' \in Identifiers
        BY <2>2, <4>1, <4>2
      <4>4. ASSUME NEW r, r = Rest PROVE Names(r)'
        <5>1. r = <<FunctionOf("METHOD")>>
          BY <2>8, <4>4
        <5>2. QED
          BY <4>3, <5>1, Zenon DEF Names, MethodNaming
      <4>5. Rest \in Seq(Plain \cup Naming) \ {<<>>}
        BY <2>8, NamingLists, Zenon
      <4>6. QED
        BY <1>1, <4>2, <4>4, <4>5, GoNames
    <3>2. CASE ~Is(current_token, Item.type)
      <4>1. Return
        BY <2>1, <2>8, <3>2, NamingOps
      <4>2. QED
        BY <1>1, <4>1, ReturnKeeps
    <3>3. QED
      BY <3>1, <3>2
  <2>9. QED
    BY <1>1, <1>3, <2>6, <2>7, <2>8, NamingItems, NamingOps
<1>4. QED
  BY <1>1, <1>2, <1>3 DEF RulesInv

LEMMA EnterRuleKeepsNames ==
  ASSUME RulesInv, EnterRule
  PROVE  RulesInv'
<1>1. rules # <<>> /\ Item.op = "rule" /\ Call(Body(Item.name)) /\ Stay(<<>>)
  BY DEF EnterRule, Doing
<1>2. previous_token' = previous_token /\ current_token' = current_token
  BY <1>1 DEF Stay, tokenVars
<1>3. CASE Last(rules) \in PlainList
  <2>1. Item.name \in RuleName /\ Rest \in Seq(Plain)
    BY <1>1, <1>3, Top, PlainItems
  <2>2. CASE Body(Item.name) \in PlainList
    BY <1>1, <2>1, <2>2, Bodies, CallKeeps
  <2>3. CASE /\ current_token = "FUN"
             /\ Body(Item.name) = <<Rule("functionDeclaration"), Do("recover")>>
    <3>1. ASSUME NEW r, r = Body(Item.name) PROVE Names(r)'
      <4>1. r = <<Rule("functionDeclaration"), Do("recover")>> /\ current_token' = "FUN"
        BY <1>2, <2>3, <3>1
      <4>2. QED
        BY <4>1, Zenon DEF Names, FunctionNaming
    <3>2. QED
      BY <1>1, <2>1, <3>1, Bodies, CallKeeps
  <2>4. QED
    BY <2>1, <2>2, <2>3, Bodies
<1>4. CASE Names(Last(rules))
  <2>1. /\ Item = Rule("functionDeclaration") /\ Rest = <<Do("recover")>>
        /\ current_token = "FUN"
    BY <1>1, <1>4, NamingItems, NamingOps
  <2>2. Body(Item.name) =
          <<Optional("FUN", <<>>), ParseVariable(<<>>), Compilers("initialized"),
            FunctionOf("FUNCTION"), Compilers("initialized")>>
    BY <2>1, NamingOps DEF Body
  <2>3. ASSUME NEW r, r = Body(Item.name) PROVE Names(r)'
    <3>1. current_token' = "FUN" /\
          r = <<Optional("FUN", <<>>), ParseVariable(<<>>), Compilers("initialized"),
                FunctionOf("FUNCTION"), Compilers("initialized")>>
      BY <1>2, <2>1, <2>2, <2>3
    <3>2. QED
      BY <3>1, Zenon DEF Names, FunctionNaming
  <2>4. Body(Item.name) \in Seq(Plain \cup Naming) \ {<<>>} /\ Rest \in Seq(Plain)
    BY <2>1, <2>2, NamingLists, Zenon
  <2>5. QED
    BY <1>1, <2>3, <2>4, CallKeeps
<1>5. QED
  BY <1>1, <1>3, <1>4 DEF RulesInv

LEMMA AllPlain ==
  ASSUME RulesInv, rules # <<>>,
         Item.op \notin {"rule", "consume", "declare", "compiler", "function"}
  PROVE  rules \in Seq(PlainList)
<1>1. /\ rules \in Seq(Seq(Plain \cup Naming) \ {<<>>}) /\ Len(rules) \in Nat \ {0}
      /\ \A i \in 1..(Len(rules) - 1) : rules[i] \in PlainList
  BY DEF RulesInv
<1>2. ~Names(Last(rules))
  BY NamingItems, NamingOps
<1>3. rules[Len(rules)] \in PlainList
  BY <1>2 DEF RulesInv, Last
<1>4. \A i \in 1..Len(rules) : i \in 1..(Len(rules) - 1) \/ i = Len(rules)
  BY <1>1
<1>5. \A i \in 1..Len(rules) : rules[i] \in PlainList
  BY <1>1, <1>3, <1>4
<1>6. QED
  BY <1>1, <1>5

LEMMA LoopKeepsNames ==
  ASSUME RulesInv, Loop
  PROVE  RulesInv'
<1>1. rules # <<>> /\ Item.op = "until"
      /\ IF current_token \in Item.types THEN Go(Rest)
         ELSE rules' = Append(rules, Body(Item.name))
  BY DEF Loop, Doing
<1>2. Item \in Plain /\ Rest \in Seq(Plain) /\ Last(rules) \in PlainList
  <2>1. ~Names(Last(rules))
    BY <1>1, NamingItems, NamingOps
  <2>2. QED
    BY <1>1, <2>1, OtherItems DEF RulesInv
<1>3. CASE current_token \in Item.types
  BY <1>1, <1>2, <1>3, GoKeeps
<1>4. CASE current_token \notin Item.types
  <2>1. rules \in Seq(PlainList)
    BY <1>1, AllPlain
  <2>2. current_token' = current_token
    BY DEF Loop, Stay, tokenVars
  <2>3. CASE Item.name = "declaration"
    <3>1. Item.name \in RuleName
      BY <2>3 DEF RuleName
    <3>2. Body(Item.name) \in PlainList \/ \A r : r = Body(Item.name) => Names(r)'
      <4>1. CASE /\ current_token = "FUN"
                 /\ Body(Item.name) = <<Rule("functionDeclaration"), Do("recover")>>
        <5>1. ASSUME NEW r, r = Body(Item.name) PROVE Names(r)'
          <6>1. r = <<Rule("functionDeclaration"), Do("recover")>> /\ current_token' = "FUN"
            BY <2>2, <4>1, <5>1
          <6>2. QED
            BY <6>1, Zenon DEF Names, FunctionNaming
        <5>2. QED
          BY <5>1
      <4>2. QED
        BY <3>1, <4>1, Bodies
    <3>3. QED
      BY <1>1, <1>4, <2>1, <3>1, <3>2, Bodies, OnTop
  <2>4. CASE Item.name = "method"
    <3>1. Body(Item.name) = <<Require("IDENTIFIER"), FunctionOf("METHOD")>>
      BY <2>4 DEF Body
    <3>2. ASSUME NEW r, r = Body(Item.name) PROVE Names(r)'
      <4>1. r = <<Require("IDENTIFIER"), FunctionOf("METHOD")>>
        BY <3>1, <3>2
      <4>2. QED
        BY <4>1, Zenon DEF Names, MethodNaming
    <3>3. Body(Item.name) \in Seq(Plain \cup Naming) \ {<<>>}
      BY <3>1, NamingLists, Zenon
    <3>4. QED
      BY <1>1, <1>4, <2>1, <3>2, <3>3, OnTop
  <2>5. QED
    BY <1>1, <1>2, <2>3, <2>4, PlainItems
<1>5. QED
  BY <1>3, <1>4

LEMMA PrefixRulePlain ==
  ASSUME NEW token, NEW can_assign \in BOOLEAN
  PROVE  PrefixRule(token, can_assign) \in Seq(Plain)
<1>1. /\ Expression \in Plain /\ Expect("RIGHT_PAREN") \in Plain /\ Precedence(PREC_UNARY) \in Plain
      /\ Named(can_assign) \in Plain /\ Do("this") \in Plain
  <2>1. "RIGHT_PAREN" \in TypeName /\ PREC_UNARY \in Int
    BY DEF TypeName, PREC_UNARY
  <2>2. QED
    BY <2>1, Leaves, PlainParts
<1>2. PrefixRule(token, can_assign) \in
        {<<Expression, Expect("RIGHT_PAREN")>>, <<Precedence(PREC_UNARY)>>,
         <<Named(can_assign)>>, <<Do("this")>>, <<>>}
  BY DEF PrefixRule
<1>3. \A a, b \in Plain : <<a, b>> \in Seq(Plain) /\ <<a>> \in Seq(Plain) /\ <<>> \in Seq(Plain)
  OBVIOUS
<1>4. QED
  BY <1>1, <1>2, <1>3

LEMMA PrecedenceIsNumber == \A type : PrecedenceOf(type) \in Int
BY DEF PrecedenceOf

LEMMA InfixRulePlain ==
  ASSUME NEW token, NEW can_assign \in BOOLEAN
  PROVE  InfixRule(token, can_assign) \in PlainList
<1>1. /\ "IDENTIFIER" \in TypeName /\ "EQUAL" \in TypeName /\ "RIGHT_PAREN" \in TypeName
      /\ "COMMA" \in TypeName
  BY DEF TypeName
<1>2. Expression \in Leaf /\ Expression \in With(Leaf) /\ Expression \in With(With(Leaf))
  BY ItemsOfRules, PlainWith
<1>3. <<Expression>> \in Seq(Leaf)
  BY <1>2
<1>4. /\ Require("IDENTIFIER") \in Plain /\ Optional("EQUAL", <<Expression>>) \in Plain
      /\ Expect("RIGHT_PAREN") \in Plain /\ Repeat("COMMA", <<Expression>>) \in With(Leaf)
  BY <1>1, <1>3, PlainParts
<1>5. <<Expression, Repeat("COMMA", <<Expression>>)>> \in Seq(With(Leaf))
  BY <1>2, <1>4
<1>6. Unless("RIGHT_PAREN", <<Expression, Repeat("COMMA", <<Expression>>)>>) \in Plain
  BY <1>1, <1>5, PlainParts
<1>7. /\ Precedence(PrecedenceOf(token)) \in Plain
      /\ Precedence(PrecedenceOf(token) + 1) \in Plain
  <2>1. PrecedenceOf(token) \in Int /\ PrecedenceOf(token) + 1 \in Int
    BY PrecedenceIsNumber
  <2>2. QED
    BY <2>1, Leaves, PlainParts
<1>8. \A a, b \in Plain : /\ <<a>> \in PlainList /\ <<a, b>> \in PlainList
                          /\ <<a>> \o <<>> \in PlainList /\ <<a>> \o <<b>> \in PlainList
  BY DEF PlainList
<1>9. CASE token = "DOT"
  BY <1>4, <1>8, <1>9 DEF InfixRule
<1>10. CASE token = "LEFT_PAREN"
  <2>1. InfixRule(token, can_assign) =
          <<Unless("RIGHT_PAREN", <<Expression, Repeat("COMMA", <<Expression>>)>>),
            Expect("RIGHT_PAREN")>>
    BY <1>10 DEF InfixRule
  <2>2. QED
    BY <1>4, <1>6, <1>8, <2>1
<1>11. CASE token \notin {"DOT", "LEFT_PAREN"}
  <2>1. \/ InfixRule(token, can_assign) = <<Precedence(PrecedenceOf(token))>>
        \/ InfixRule(token, can_assign) = <<Precedence(PrecedenceOf(token) + 1)>>
    BY <1>11 DEF InfixRule
  <2>2. QED
    BY <1>7, <1>8, <2>1
<1>12. QED
  BY <1>9, <1>10, <1>11

LEMMA ExpressionsKeepNames ==
  ASSUME RulesInv, Choice \/ ParsePrecedence \/ ParseInfix \/ NamedVariable \/ This
  PROVE  RulesInv'
<1>1. rules # <<>> /\ Item.op \in {"unless", "precedence", "infix", "named", "this"}
  BY DEF Choice, ParsePrecedence, ParseInfix, NamedVariable, This, Doing
<1>2. Item \in Plain /\ Rest \in Seq(Plain) /\ <<>> \in Seq(Plain)
  BY <1>1, OtherItems
<1>3. \A s, t \in Seq(Plain) : s \o t \in Seq(Plain)
  OBVIOUS
<1>4. \A i \in Plain : <<i>> \in Seq(Plain)
  OBVIOUS
<1>5. CASE Choice
  <2>1. Item.items \in Seq(Plain)
    BY <1>1, <1>2, <1>5, PlainItems DEF Choice, Doing
  <2>2. (IF current_token = Item.type THEN <<>> ELSE Item.items) \o Rest \in Seq(Plain)
    BY <1>2, <1>3, <2>1
  <2>3. QED
    BY <1>1, <1>5, <2>2, GoKeeps DEF Choice
<1>6. CASE ParsePrecedence \/ ParseInfix
  <2>1. Item.level \in Int /\ Item.op \in {"precedence", "infix"}
    <3>1. Item.op \in {"precedence", "infix"}
      BY <1>6 DEF ParsePrecedence, ParseInfix, Doing
    <3>2. QED
      BY <1>2, <3>1 DEF Plain, With, Leaf
  <2>2. (Item.level <= PREC_ASSIGNMENT) \in BOOLEAN
    OBVIOUS
  <2>3. CASE ParsePrecedence
    <3>1. PrefixRule(current_token, Item.level <= PREC_ASSIGNMENT) \in Seq(Plain)
      BY <2>2, PrefixRulePlain
    <3>2. <<Infix(Item.level)>> \in Seq(Plain)
      BY <1>4, <2>1, Leaves, PlainParts
    <3>3. PrefixRule(current_token, Item.level <= PREC_ASSIGNMENT)
            \o <<Infix(Item.level)>> \o Rest \in Seq(Plain)
      BY <1>2, <1>3, <3>1, <3>2
    <3>4. QED
      BY <1>1, <1>2, <2>3, <3>3, GoKeeps DEF ParsePrecedence
  <2>4. CASE ParseInfix
    <3>1. InfixRule(current_token, Item.level <= PREC_ASSIGNMENT) \in PlainList
      BY <2>2, InfixRulePlain
    <3>2. CASE rules' = Append(rules, InfixRule(current_token, Item.level <= PREC_ASSIGNMENT))
      <4>1. rules \in Seq(PlainList)
        BY <1>1, AllPlain
      <4>2. PlainList \subseteq Seq(Plain \cup Naming) \ {<<>>}
        BY DEF PlainList
      <4>3. QED
        BY <3>1, <3>2, <4>1, <4>2, OnTop
    <3>3. CASE Go(Rest)
      BY <1>1, <1>2, <3>3, GoKeeps
    <3>4. QED
      BY <2>4, <3>2, <3>3 DEF ParseInfix
  <2>5. QED
    BY <1>6, <2>3, <2>4
<1>7. CASE NamedVariable
  <2>1. Optional("EQUAL", <<Expression>>) \in Plain
    <3>1. "EQUAL" \in TypeName
      BY DEF TypeName
    <3>2. Expression \in Leaf
      BY ItemsOfRules
    <3>3. <<Expression>> \in Seq(Leaf)
      BY <3>2
    <3>4. QED
      BY <3>1, <3>3, PlainParts
  <2>2. (IF Item.can_assign THEN <<Optional("EQUAL", <<Expression>>)>> ELSE <<>>) \o Rest
          \in Seq(Plain)
    BY <1>2, <1>3, <1>4, <2>1
  <2>3. QED
    BY <1>1, <1>7, <2>2, GoKeeps DEF NamedVariable
<1>8. CASE This
  <2>1. <<Named(FALSE)>> \o Rest \in Seq(Plain)
    BY <1>2, <1>3, <1>4, Leaves, PlainParts
  <2>2. QED
    BY <1>1, <1>2, <1>8, <2>1, GoKeeps DEF This
<1>9. QED
  BY <1>5, <1>6, <1>7, <1>8

LEMMA MisreadKeepsNames ==
  ASSUME RulesInv, MisreadNumber
  PROVE  RulesInv'
<1>1. rules # <<>> /\ Item.op = "precedence" /\ rules' = rules
  BY Misread
<1>2. rules \in Seq(PlainList)
  BY <1>1, AllPlain
<1>3. QED
  BY <1>1, <1>2, NoneOnTop

LEMMA DeclareKeepsNames ==
  ASSUME RulesInv, Declare \/ ChangeCompiler
  PROVE  RulesInv'
<1>1. rules # <<>> /\ Item.op \in {"declare", "compiler"} /\ Go(Rest)
  BY DEF Declare, ChangeCompiler, Doing
<1>2. previous_token' = previous_token
  BY DEF Declare, ChangeCompiler, Stay, tokenVars
<1>3. CASE Last(rules) \in PlainList
  BY <1>1, <1>3, Top, GoKeeps
<1>4. CASE Names(Last(rules))
  <2>1. CASE /\ Item = Do("declare") /\ previous_token \in Identifiers
             /\ Rest = <<Compilers("initialized"), FunctionOf("FUNCTION"),
                         Compilers("initialized")>>
    <3>1. ASSUME NEW r, r = Rest PROVE Names(r)'
      <4>1. /\ previous_token' \in Identifiers \cup {"FUN"}
            /\ r = <<Compilers("initialized"), FunctionOf("FUNCTION"), Compilers("initialized")>>
        BY <1>2, <2>1, <3>1
      <4>2. QED
        BY <4>1, Zenon DEF Names, FunctionNaming
    <3>2. Rest \in Seq(Plain \cup Naming) \ {<<>>}
      BY <2>1, NamingLists, Zenon
    <3>3. QED
      BY <1>1, <3>1, <3>2, GoNames
  <2>2. CASE /\ Item = Compilers("initialized") /\ previous_token \in Identifiers \cup {"FUN"}
             /\ Rest = <<FunctionOf("FUNCTION"), Compilers("initialized")>>
    <3>1. ASSUME NEW r, r = Rest PROVE Names(r)'
      <4>1. /\ previous_token' \in Identifiers \cup {"FUN"}
            /\ r = <<FunctionOf("FUNCTION"), Compilers("initialized")>>
        BY <1>2, <2>2, <3>1
      <4>2. QED
        BY <4>1, Zenon DEF Names, FunctionNaming
    <3>2. Rest \in Seq(Plain \cup Naming) \ {<<>>}
      BY <2>2, NamingLists, Zenon
    <3>3. QED
      BY <1>1, <3>1, <3>2, GoNames
  <2>3. QED
    BY <1>1, <1>4, <2>1, <2>2, NamingItems, NamingOps
<1>5. QED
  BY <1>1, <1>3, <1>4 DEF RulesInv

LEMMA FunctionsKeepNames ==
  ASSUME RulesInv, EnterFunction \/ EndFunction
  PROVE  RulesInv'
<1>1. CASE EnterFunction /\ previous_token \in Identifiers
  <2>1. rules # <<>> /\ Item.op = "function" /\ Go(FunctionBody \o Rest)
    BY <1>1 DEF EnterFunction, Doing
  <2>2. Rest \in Seq(Plain)
    BY <2>1, FunctionItem
  <2>3. FunctionBody \o Rest \in Seq(Plain)
    BY <2>2, FunctionBodyPlain
  <2>4. QED
    BY <2>1, <2>3, GoKeeps
<1>2. CASE EnterFunction /\ previous_token \notin Identifiers
  BY <1>2 DEF EnterFunction, Stay, tokenVars, RulesInv, Names, FunctionNaming, MethodNaming
<1>3. CASE EndFunction
  <2>1. rules # <<>> /\ Item.op = "end function" /\ Go(Rest)
    BY <1>3 DEF EndFunction, Doing
  <2>2. QED
    BY <2>1, OtherItems, GoKeeps
<1>4. QED
  BY <1>1, <1>2, <1>3

LEMMA OthersKeepNames ==
  ASSUME RulesInv, ForbidReturn \/ Recover \/ Synchronize \/ FirstAdvance \/ EndSource
  PROVE  RulesInv'
<1>1. CASE EndSource
  BY <1>1, NoneOnTop DEF EndSource, RulesInv
<1>2. CASE ~EndSource
  <2>1. rules # <<>> /\ Item.op \in {"not in", "recover", "synchronize", "advance"}
    BY <1>2 DEF ForbidReturn, Recover, Synchronize, FirstAdvance, Doing
  <2>2. Rest \in Seq(Plain)
    BY <2>1, OtherItems
  <2>3. CASE Go(Rest) \/ Return
    BY <2>1, <2>2, <2>3, GoKeeps, ReturnKeeps
  <2>4. CASE Go(<<Do("synchronize")>> \o Rest)
    <3>1. Do("synchronize") \in Plain
      BY Leaves, PlainParts
    <3>2. <<Do("synchronize")>> \in Seq(Plain)
      BY <3>1
    <3>3. <<Do("synchronize")>> \o Rest \in Seq(Plain)
      BY <2>2, <3>2
    <3>4. QED
      BY <2>1, <2>4, <3>3, GoKeeps
  <2>5. CASE UNCHANGED rules
    <3>1. rules \in Seq(PlainList)
      BY <2>1, AllPlain
    <3>2. QED
      BY <2>5, <3>1, NoneOnTop
  <2>6. QED
    BY <1>2, <2>3, <2>4, <2>5 DEF ForbidReturn, Recover, Synchronize, FirstAdvance
<1>3. QED
  BY <1>1, <1>2

LEMMA InitializeKeepsNames ==
  ASSUME Initialize
  PROVE  RulesInv'
<1>1. Do("advance") \in Plain /\ Until({EOF}, "declaration") \in Plain
  <2>1. {EOF} \in SUBSET {"RIGHT_BRACE", EOF}
    OBVIOUS
  <2>2. QED
    BY <2>1, Leaves, PlainParts
<1>2. \A a, b \in Plain : <<a, b>> \in PlainList
  BY DEF PlainList
<1>3. <<Do("advance"), Until({EOF}, "declaration")>> \in PlainList
  BY <1>1, <1>2
<1>4. \A t \in PlainList : <<t>> \in Seq(PlainList)
  OBVIOUS
<1>5. rules' = <<<<Do("advance"), Until({EOF}, "declaration")>>>>
  BY DEF Initialize
<1>6. rules' \in Seq(PlainList)
  BY <1>3, <1>4, <1>5
<1>7. QED
  BY <1>6, NoneOnTop

-------------------------------------------------------------------------------
\* Tokens come from the source.
LEMMA UpcomingTokens ==
  ASSUME TokensInv, status = "parsing", NEW token \in Upcoming
  PROVE  token \in STRING \cup {EOF} /\ token # NoToken
<1>1. Text \in [prefix : Seq(STRING), tokens : SUBSET STRING, length : Nat, unscannable : BOOLEAN]
  <2>1. family \in Seq([prefix : Seq(STRING), tokens : SUBSET STRING, length : Nat,
                        unscannable : BOOLEAN])
    BY ParserConstants DEF TokensInv
  <2>2. source \in 1..Len(family)
    BY <2>1 DEF TokensInv
  <2>3. \A S : family \in Seq(S) => family[source] \in S
    BY <2>2
  <2>4. QED
    BY <2>1, <2>3 DEF Text
<1>2. Len(read) \in Nat
  BY DEF TokensInv
<1>3. Text.prefix \in Seq(STRING) /\ Text.tokens \subseteq STRING
  BY <1>1
<1>4. CASE Len(read) < Len(Text.prefix)
  <2>1. Text.prefix[Len(read) + 1] \in STRING
    BY <1>2, <1>3, <1>4
  <2>2. QED
    BY <1>4, <2>1, ParserConstants DEF Upcoming
<1>5. CASE ~(Len(read) < Len(Text.prefix))
  BY <1>3, <1>5, ParserConstants DEF Upcoming
<1>6. QED
  BY <1>4, <1>5

LEMMA AdvanceTokens ==
  ASSUME TokensInv, status = "parsing", NEW kinds, Advance(kinds)
  PROVE  read' \in Seq(STRING \cup {EOF}) /\ current_token' # NoToken
<1>1. PICK token \in Upcoming : Scans(token)
  BY DEF Advance
<1>2. token \in STRING \cup {EOF} /\ token # NoToken
  BY UpcomingTokens
<1>3. read \in Seq(STRING \cup {EOF})
  BY DEF TokensInv
<1> DEFINE All == STRING \cup {EOF}
<1> HIDE DEF All
<1>4. read \in Seq(All) /\ token \in All
  BY <1>2, <1>3 DEF All
<1>5. read' \in Seq(All)
  BY <1>1, <1>4 DEF Scans
<1>6. QED
  BY <1>1, <1>2, <1>5 DEF Scans, Deliver, All

LEMMA ParseKeepsTokens ==
  ASSUME TokensInv, Parse, UNCHANGED sourceVars
  PROVE  TokensInv'
<1>1. family' = family /\ source' = source
  BY DEF sourceVars
<1>2. status = "parsing" /\ status' \in {"parsing", "compiled", "failed", "aborted"}
  BY Misread DEF Parse, FirstAdvance, Consume, EnterRule, Loop, Choice, ParsePrecedence, ParseInfix,
         NamedVariable, This, Declare, ChangeCompiler, EnterFunction, EndFunction, ForbidReturn,
         Recover, Synchronize, EndSource, Doing
<1>3. (\E kinds : Advance(kinds)) \/ UNCHANGED tokenVars
  BY Misread DEF Parse, FirstAdvance, Consume, EnterRule, Loop, Choice, ParsePrecedence, ParseInfix,
         NamedVariable, This, Declare, ChangeCompiler, EnterFunction, EndFunction, ForbidReturn,
         Recover, Synchronize, EndSource, Stay
<1>4. read' \in Seq(STRING \cup {EOF}) /\ (current_token' = NoToken => previous_token' = NoToken)
  BY <1>2, <1>3, AdvanceTokens DEF tokenVars, TokensInv
<1>5. QED
  BY <1>1, <1>2, <1>4 DEF TokensInv

\* A rule aborts at a function whose name is not there, at a number or at the very beginning.
LEMMA ParseAborts ==
  ASSUME RulesInv, TokensInv, Parse, UNCHANGED sourceVars
  PROVE  AbortsOnlyHere'
<1>1. CASE status' = "aborted" /\ ~MisreadNumber
  <2>1. status = "parsing"
    BY <1>1 DEF Parse, FirstAdvance, Consume, EnterRule, Loop, Choice, ParsePrecedence, ParseInfix,
           NamedVariable, This, Declare, ChangeCompiler, EnterFunction, EndFunction, ForbidReturn,
           Recover, Synchronize, EndSource, Doing
  <2>2. \/ /\ Doing("function") /\ previous_token \notin Identifiers
           /\ UNCHANGED rules /\ UNCHANGED tokenVars
        \/ /\ current_token = NoToken /\ Text.unscannable /\ UNCHANGED tokenVars
    BY <1>1, <2>1 DEF Parse, FirstAdvance, Consume, EnterRule, Loop, Choice, ParsePrecedence,
           ParseInfix, NamedVariable, This, Declare, ChangeCompiler, EnterFunction, EndFunction,
           ForbidReturn, Recover, Synchronize, EndSource, Stay
  <2>3. CASE /\ Doing("function") /\ previous_token \notin Identifiers
             /\ UNCHANGED rules /\ UNCHANGED tokenVars
    <3>1. previous_token = "FUN" /\ Item.op = "function"
      BY <2>3, FunctionItem DEF Doing
    <3>2. Item' = Item
      BY <2>3 DEF Item
    <3>3. QED
      BY <2>3, <3>1, <3>2 DEF AbortsOnlyHere, tokenVars
  <2>4. CASE current_token = NoToken /\ Text.unscannable /\ UNCHANGED tokenVars
    <3>1. previous_token = NoToken
      BY <2>4 DEF TokensInv
    <3>2. Text' = Text
      BY DEF Text, sourceVars
    <3>3. QED
      BY <2>4, <3>1, <3>2 DEF AbortsOnlyHere, tokenVars
  <2>5. QED
    BY <2>2, <2>3, <2>4
<1>2. CASE MisreadNumber
  <2>1. /\ previous_token' = "NUMBER" /\ current_token' \in Exponents
        /\ Item.op = "precedence" /\ rules' = rules
    BY <1>2, Misread
  <2>2. Item' = Item
    BY <2>1 DEF Item
  <2>3. QED
    BY <2>1, <2>2 DEF AbortsOnlyHere
<1>3. QED
  BY <1>1, <1>2 DEF AbortsOnlyHere

LEMMA InitAborts == Init => AbortInv
<1> SUFFICES ASSUME Init PROVE AbortInv
  OBVIOUS
<1>1. RulesInv
  BY DEF Init, RulesInv
<1>2. TokensInv
  <2>1. family \in Seq([prefix : Seq(STRING), tokens : SUBSET STRING, length : Nat,
                        unscannable : BOOLEAN])
    BY ParserConstants DEF Init
  <2>2. 0 \in 0..Len(family)
    BY <2>1
  <2>3. QED
    BY <2>2 DEF Init, ParserStateInit, TokensInv
<1>3. QED
  BY <1>1, <1>2 DEF Init, AbortInv, AbortsOnlyHere

LEMMA NextAborts == AbortInv /\ [Next]_vars => AbortInv'
<1> SUFFICES ASSUME AbortInv, [Next]_vars PROVE AbortInv'
  OBVIOUS
<1>1. CASE Initialize
  <2>1. family \in Seq([prefix : Seq(STRING), tokens : SUBSET STRING, length : Nat,
                        unscannable : BOOLEAN])
    BY ParserConstants DEF AbortInv, TokensInv
  <2>2. source \in 0..Len(family) /\ source < Len(family)
    BY <1>1 DEF Initialize, AbortInv, TokensInv
  <2>3. source + 1 \in 0..Len(family) /\ source + 1 > 0
    BY <2>1, <2>2
  <2>4. TokensInv'
    BY <1>1, <2>3 DEF Initialize, AbortInv, TokensInv
  <2>5. QED
    BY <1>1, <2>4, InitializeKeepsNames DEF Initialize, AbortInv, AbortsOnlyHere
<1>2. CASE Parse /\ UNCHANGED sourceVars
  <2>1. RulesInv'
    BY <1>2, ConsumeKeepsNames, EnterRuleKeepsNames, LoopKeepsNames, ExpressionsKeepNames,
       MisreadKeepsNames, DeclareKeepsNames, FunctionsKeepNames, OthersKeepNames DEF Parse, AbortInv
  <2>2. QED
    BY <1>2, <2>1, ParseKeepsTokens, ParseAborts DEF AbortInv
<1>3. CASE UNCHANGED vars
  <2>1. /\ rules' = rules /\ previous_token' = previous_token /\ current_token' = current_token
        /\ family' = family /\ source' = source /\ read' = read /\ status' = status
    BY <1>3 DEF vars, parserStateVars, sourceVars
  <2>2. RulesInv'
    BY <2>1 DEF AbortInv, RulesInv, Names, FunctionNaming, MethodNaming
  <2>3. TokensInv' /\ AbortsOnlyHere'
    BY <2>1 DEF AbortInv, TokensInv, AbortsOnlyHere, Item, Text
  <2>4. QED
    BY <2>2, <2>3 DEF AbortInv
<1>4. QED
  BY <1>1, <1>2, <1>3 DEF Next

\* Whatever the source, an assertion of the parser fails in three places only: where
\* functionDeclaration goes on without a name, where strtod reads on from a number into
\* the name behind it, and where the scanner refuses the first character of the first
\* source.  A method is never compiled without its name.
THEOREM AssertionsHold == Spec => []AbortsOnlyHere
<1>1. AbortInv => AbortsOnlyHere
  BY DEF AbortInv
<1>2. QED
  BY <1>1, InitAborts, NextAborts, PTL DEF Spec
-------------------------------------------------------------------------------
(***************************************************************************)
(* Scopes.  Which function a pending rule goes on with, how deep its       *)
(* scopes are then, whether its last local has to be marked ("declared"),  *)
(* has been marked ("fresh") or neither ("tidy"), and whether it is the    *)
(* script inside a class.                                                  *)
(***************************************************************************)
State ==
  [function : Nat, depth : Nat, locals : {"tidy", "declared", "fresh"}, class : BOOLEAN]
Outermost  == [function |-> 1, depth |-> 0, locals |-> "tidy", class |-> FALSE]
Outside(s) == s.locals = "tidy" /\ ~s.class

\* Items that leave the compilers alone: those of expressions, with those that return
\* and without; those of the rules for statements; those of a loop.
Around(S, missing) ==
  S \cup [op : {"consume"}, type : TypeName, items : Seq(S), missing : missing, again : BOOLEAN]
    \cup [op : {"unless"}, type : TypeName, items : Seq(S)]
Twice(S, missing) == Around(Around(S, missing), missing)
Kept == {"ignored", "reported"}

Operand ==
  [op : {"precedence", "infix"}, level : Int] \cup [op : {"named"}, can_assign : BOOLEAN]
    \cup [op : {"this"}]
Called == Operand \cup [op : {"rule"}, name : RuleName \cup {"functionDeclaration"}]
Stated ==
  Called \cup [op : {"until"}, types : SUBSET {"RIGHT_BRACE", EOF}, name : {"declaration"}]
         \cup [op : {"not in"}, type : {"INITIALIZER", "TOP_LEVEL_SCRIPT"}]
         \cup [op : {"recover", "synchronize", "advance"}]
Quiet         == Twice(Operand, Kept)
OperandPart   == Twice(Operand, Missing)
LoopPart      == Twice(Called, Kept)
StatementPart == Twice(Stated, Missing)

\* The items of the parameters and the body of a function.
Initialised == Compilers("initialized")
Opening     == Compilers("begin scope")
Closing     == Compilers("end scope")
Entering    == Compilers("enter class")
Leaving     == Compilers("leave class")
Finishing   == Do("end function")
Parameter   == ParseVariable(<<Initialised>>)
FunctionPart ==
  {Expect("LEFT_PAREN"), Unless("RIGHT_PAREN", <<Parameter, Repeat("COMMA", <<Parameter>>)>>),
   Parameter, Repeat("COMMA", <<Parameter>>), Expect("RIGHT_PAREN"), Rule("block")}

\* What is left of the other rules, step by step.
Function5 == <<FunctionOf("FUNCTION"), Initialised>>
Function4 == <<Initialised, FunctionOf("FUNCTION"), Initialised>>
Function3 == <<Do("declare"), Initialised, FunctionOf("FUNCTION"), Initialised>>
Function2 == <<ParseVariable(<<>>), Initialised, FunctionOf("FUNCTION"), Initialised>>
Function1 == <<Optional("FUN", <<>>), ParseVariable(<<>>), Initialised,
               FunctionOf("FUNCTION"), Initialised>>

Method2 == <<FunctionOf("METHOD")>>
Method1 == <<Require("IDENTIFIER"), FunctionOf("METHOD")>>

VariableParts == <<Optional("EQUAL", <<Expression>>), Expect("SEMICOLON"), Initialised>>
Variable3 == <<Do("declare"), Optional("EQUAL", <<Expression>>), Expect("SEMICOLON"), Initialised>>
Variable2 == <<ParseVariable(VariableParts)>>
Variable1 == <<Optional("VAR", <<>>), ParseVariable(VariableParts)>>

Methods == Until({"RIGHT_BRACE", EOF}, "method")
Class10 == <<Leaving>>
Class9  == <<Expect("RIGHT_BRACE"), Leaving>>
Class8  == <<Methods, Expect("RIGHT_BRACE"), Leaving>>
Class7  == <<Expect("LEFT_BRACE"), Methods, Expect("RIGHT_BRACE"), Leaving>>
Class6  == <<Named(FALSE), Expect("LEFT_BRACE"), Methods, Expect("RIGHT_BRACE"),
             Leaving>>
Class5  == <<Entering, Named(FALSE), Expect("LEFT_BRACE"), Methods,
             Expect("RIGHT_BRACE"), Leaving>>
Class4  == <<Initialised, Entering, Named(FALSE), Expect("LEFT_BRACE"), Methods,
             Expect("RIGHT_BRACE"), Leaving>>
Class3  == <<Do("declare"), Initialised, Entering, Named(FALSE),
             Expect("LEFT_BRACE"), Methods, Expect("RIGHT_BRACE"), Leaving>>
Class2  == <<Require("IDENTIFIER"), Do("declare"), Initialised, Entering,
             Named(FALSE), Expect("LEFT_BRACE"), Methods, Expect("RIGHT_BRACE"),
             Leaving>>
Class1  == <<Optional("CLASS", <<>>), Require("IDENTIFIER"), Do("declare"), Initialised,
             Entering, Named(FALSE), Expect("LEFT_BRACE"), Methods,
             Expect("RIGHT_BRACE"), Leaving>>

Declarations == Until({"RIGHT_BRACE", EOF}, "declaration")
Block4 == <<Closing>>
Block3 == <<Require("RIGHT_BRACE"), Closing>>
Block2 == <<Declarations, Require("RIGHT_BRACE"), Closing>>
Block1 == <<Expect("LEFT_BRACE"), Declarations, Require("RIGHT_BRACE"), Closing>>
Block0 == <<Opening, Expect("LEFT_BRACE"), Declarations,
            Require("RIGHT_BRACE"), Closing>>
For0   == <<Opening, Optional("FOR", <<>>), Expect("LEFT_PAREN"),
            Rule("initializer"), Unless("SEMICOLON", <<Expression>>), Expect("SEMICOLON"),
            Unless("RIGHT_PAREN", <<Expression>>), Expect("RIGHT_PAREN"),
            Rule("statement"), Closing>>

Beginnings ==
  {Block0, For0, Class1, Class2, Class3, Class5, Variable1, Variable2, Variable3,
   Function1, Function2, Function3}

\* Items begun in the state "now" let the rule before go on in the state "after".
Deeper(s)   == [s EXCEPT !.depth = @ + 1]
Marking(s)  == [s EXCEPT !.locals = "declared"]
Marked(s)   == [s EXCEPT !.locals = "fresh"]
Entered(s)  == [s EXCEPT !.class = (s.function = 1)]
Calling(s, locals) ==
  [function |-> s.function + 1, depth |-> 1, locals |-> locals, class |-> FALSE]

\* functionDeclaration marks its name once more behind the function.
FunctionEnd(marks) ==
  IF marks THEN <<Finishing, Initialised>> ELSE <<Finishing>>
Remainder(marks) == IF marks THEN <<Initialised>> ELSE <<>>
InFunction(items, now, after, marks) ==
  \E parts \in Seq(FunctionPart) :
    \/ /\ now = Calling(after, "tidy")
       /\ \/ items = parts \o FunctionEnd(marks)
          \/ items = <<Do("declare"), Initialised>> \o (parts \o FunctionEnd(marks))
    \/ /\ now = Calling(after, "declared")
       /\ items = <<Initialised>> \o (parts \o FunctionEnd(marks))

RunsOutside(items, now, after) ==
  \/ now = after /\ items \in Seq(StatementPart)
  \/ now = after /\ items \in Beginnings
  \/ now = Deeper(after) /\ items \in {Block1, Block2, Block3}
  \/ now = Deeper(after) /\ \E parts \in Seq(LoopPart) : items = parts \o Block4
  \/ now = Marking(after) /\ items \in {Function4, Class4}
  \/ now = Marking(after) /\ \E parts \in Seq(Quiet) : items = parts \o <<Initialised>>
  \/ now = Marked(after) /\ items = Function5
  \/ now = Entered(after) /\ items \in {Class6, Class7, Class8, Class9, Class10}
  \/ InFunction(items, now, after, TRUE)
Runs(items, now, after) ==
  \/ now = after /\ items \in Seq(OperandPart)
  \/ /\ after.locals = "tidy"
     /\ \/ now = after /\ items \in {Method1, Method2}
        \/ InFunction(items, now, after, FALSE)
  \/ Outside(after) /\ RunsOutside(items, now, after)

\* What a state asks of the compiler it goes on with.
Word         == STRING \cup {EOF, NoToken}
LocalName    == Word \cup {"this", ""}
FunctionType == {"TOP_LEVEL_SCRIPT", "FUNCTION", "METHOD", "INITIALIZER"}
LocalRecord ==
  [identifier_name : LocalName, local_scope_depth : Int, is_captured : BOOLEAN]
CompilerRecord ==
  [function_type : FunctionType, within_class : BOOLEAN, current_scope_depth : Nat,
   locals : Seq(LocalRecord)]

DepthAt(c, i) == c.locals[i].local_scope_depth
TidyTo(c, n) ==
  /\ n >= 1 /\ DepthAt(c, 1) = 0
  /\ \A i \in 2..n : DepthAt(c, i) \in 1..c.current_scope_depth
  /\ \A i, j \in 1..n : i < j => DepthAt(c, i) <= DepthAt(c, j)
Tidy(c)  == TidyTo(c, Len(c.locals))
Fresh(c) ==
  /\ Tidy(c)
  /\ c.current_scope_depth = 0 \/ DepthAt(c, Len(c.locals)) = c.current_scope_depth
Declared(c) ==
  \/ Fresh(c)
  \/ /\ c.current_scope_depth > 0 /\ TidyTo(c, Len(c.locals) - 1)
     /\ DepthAt(c, Len(c.locals)) = Uninitialised
Meets(c, s) ==
  /\ c.current_scope_depth = s.depth
  /\ s.function = 1 /\ c.within_class => s.class
  /\ s.locals = "tidy" => Tidy(c)
  /\ s.locals = "fresh" => Fresh(c)
  /\ s.locals = "declared" => Declared(c)
Awaited(items, s) == IF Last(items) = Initialised THEN Marked(s) ELSE s

\* The rules of a stack wait for each other, each in its state; the last in that of the
\* last compiler.
Lower(states, rs, cs) ==
  /\ states \in [Nat -> State] /\ states[0] = Outermost
  /\ \A k \in 1..Len(rs) : Runs(rs[k], states[k], states[k - 1])
  /\ \A i, j \in 0..Len(rs) : i <= j => states[i].function <= states[j].function
  /\ \A k \in 1..Len(rs) : states[k].function # states[k - 1].function =>
       Meets(cs[states[k - 1].function], Awaited(rs[k], states[k - 1]))
Waits(states, rs, cs) ==
  /\ Lower(states, rs, cs)
  /\ Len(cs) = states[Len(rs)].function /\ Meets(cs[Len(cs)], states[Len(rs)])

-------------------------------------------------------------------------------
(***************************************************************************)
(* What the changes of a compiler do to its locals.                        *)
(***************************************************************************)
LEMMA CompilerFields ==
  ASSUME NEW c \in CompilerRecord
  PROVE  /\ c.current_scope_depth \in Nat /\ c.locals \in Seq(LocalRecord)
         /\ Len(c.locals) \in Nat /\ \A i \in 1..Len(c.locals) : DepthAt(c, i) \in Int
<1>1. c.current_scope_depth \in Nat /\ c.locals \in Seq(LocalRecord)
  BY DEF CompilerRecord
<1>2. \A l \in LocalRecord : l.local_scope_depth \in Int
  BY DEF LocalRecord
<1> HIDE DEF LocalRecord
<1>3. Len(c.locals) \in Nat /\ \A i \in 1..Len(c.locals) : c.locals[i] \in LocalRecord
  BY <1>1
<1>4. QED
  BY <1>1, <1>2, <1>3 DEF DepthAt

LEMMA BeginScopeTidy ==
  ASSUME NEW c \in CompilerRecord, Tidy(c)
  PROVE  /\ BeginScope(c) \in CompilerRecord /\ Tidy(BeginScope(c))
         /\ BeginScope(c).current_scope_depth = c.current_scope_depth + 1
         /\ BeginScope(c).within_class = c.within_class
<1> DEFINE d == BeginScope(c)
<1>1. /\ d \in CompilerRecord /\ d.current_scope_depth = c.current_scope_depth + 1
      /\ d.locals = c.locals /\ d.within_class = c.within_class
  BY DEF BeginScope, CompilerRecord
<1> HIDE DEF d
<1>2. c.current_scope_depth \in Nat
  BY CompilerFields
<1>3. \A x : x \in 1..c.current_scope_depth => x \in 1..d.current_scope_depth
  BY <1>1, <1>2
<1>4. Tidy(d)
  BY <1>1, <1>3 DEF Tidy, TidyTo, DepthAt
<1>5. QED
  BY <1>1, <1>4 DEF d

\* The locals kept are those less deep than the scope that ends, because the locals lie
\* in the order of their scopes.
LEMMA KeptLocals ==
  ASSUME NEW c \in CompilerRecord, Tidy(c), c.current_scope_depth > 0
  PROVE  /\ LocalsKept(c) \in 1..Len(c.locals)
         /\ \A i \in 1..LocalsKept(c) : DepthAt(c, i) < c.current_scope_depth
<1> DEFINE Shallow == {i \in DOMAIN c.locals : c.locals[i].local_scope_depth < c.current_scope_depth}
           last == Max({0} \cup Shallow)
<1>1. /\ c.current_scope_depth \in Nat /\ Len(c.locals) \in Nat
      /\ DOMAIN c.locals = 1..Len(c.locals)
      /\ \A i \in 1..Len(c.locals) : DepthAt(c, i) \in Int
  BY CompilerFields
<1>2. /\ Len(c.locals) >= 1 /\ DepthAt(c, 1) = 0
      /\ \A i, j \in 1..Len(c.locals) : i < j => DepthAt(c, i) <= DepthAt(c, j)
  BY DEF Tidy, TidyTo
<1>3. 1 \in Shallow
  BY <1>1, <1>2 DEF DepthAt
<1>4. \A i \in Shallow : i \in 1..Len(c.locals) /\ DepthAt(c, i) < c.current_scope_depth
  BY <1>1 DEF DepthAt
<1> HIDE DEF Shallow
<1>5. {0} \cup Shallow \subseteq 0..Len(c.locals)
  BY <1>1, <1>4
<1>6. last \in {0} \cup Shallow /\ \A i \in {0} \cup Shallow : i <= last
  BY <1>1, <1>5, MaxIsGreatest
<1>7. LocalsKept(c) = last
  BY DEF LocalsKept, Shallow
<1> HIDE DEF last
<1>8. last \in Shallow
  BY <1>3, <1>6
<1>9. ASSUME NEW i \in 1..last
      PROVE  DepthAt(c, i) < c.current_scope_depth
  <2>1. last \in 1..Len(c.locals) /\ DepthAt(c, last) < c.current_scope_depth
    BY <1>4, <1>8
  <2>2. i \in 1..Len(c.locals) /\ (i < last \/ i = last)
    BY <1>1, <2>1
  <2>3. DepthAt(c, i) <= DepthAt(c, last)
    BY <1>1, <1>2, <2>1, <2>2
  <2>4. QED
    BY <1>1, <2>1, <2>2, <2>3
<1>10. QED
  BY <1>4, <1>7, <1>8, <1>9

LEMMA PopScopeTidy ==
  ASSUME NEW c \in CompilerRecord, Tidy(c), c.current_scope_depth > 0
  PROVE  /\ PopScope(c) \in CompilerRecord /\ Tidy(PopScope(c))
         /\ PopScope(c).current_scope_depth = c.current_scope_depth - 1
         /\ PopScope(c).within_class = c.within_class
<1> DEFINE d == PopScope(c)
           n == LocalsKept(c)
           depth == c.current_scope_depth - 1
           locals == SubSeq(c.locals, 1, n)
<1>1. /\ c.current_scope_depth \in Nat /\ c.locals \in Seq(LocalRecord)
      /\ \A i \in 1..Len(c.locals) : DepthAt(c, i) \in Int
  BY CompilerFields
<1>2. n \in 1..Len(c.locals) /\ \A i \in 1..n : DepthAt(c, i) < c.current_scope_depth
  BY KeptLocals
<1>3. depth \in Nat
  BY <1>1
<1>4. d = [c EXCEPT !.current_scope_depth = depth, !.locals = locals]
  BY DEF PopScope
<1> HIDE DEF n
<1>5. /\ locals \in Seq(LocalRecord) /\ Len(locals) = n
      /\ \A i \in 1..n : locals[i] = c.locals[i]
  BY <1>1, <1>2
<1> HIDE DEF d, depth, locals
<1>6. /\ d \in CompilerRecord /\ d.current_scope_depth = depth /\ d.locals = locals
      /\ d.within_class = c.within_class
  BY <1>3, <1>4, <1>5 DEF CompilerRecord
<1>7. \A i \in 1..n : DepthAt(d, i) = DepthAt(c, i) /\ i \in 1..Len(c.locals)
  BY <1>1, <1>2, <1>5, <1>6 DEF DepthAt
<1>8. Tidy(d)
  <2>1. n >= 1 /\ 1 \in 1..n
    BY <1>2
  <2>2. DepthAt(d, 1) = 0
    BY <1>7, <2>1 DEF Tidy, TidyTo
  <2>3. ASSUME NEW i \in 2..n
        PROVE  DepthAt(d, i) \in 1..d.current_scope_depth
    <3>1. i \in 1..n /\ i \in 2..Len(c.locals)
      BY <1>2
    <3>2. DepthAt(c, i) \in 1..c.current_scope_depth /\ DepthAt(c, i) < c.current_scope_depth
      BY <1>2, <3>1 DEF Tidy, TidyTo
    <3>3. DepthAt(c, i) \in 1..depth
      BY <1>1, <3>2 DEF depth
    <3>4. QED
      BY <1>6, <1>7, <3>1, <3>3
  <2>4. ASSUME NEW i \in 1..n, NEW j \in 1..n, i < j
        PROVE  DepthAt(d, i) <= DepthAt(d, j)
    BY <1>7, <2>4 DEF Tidy, TidyTo
  <2>5. QED
    BY <1>5, <1>6, <2>1, <2>2, <2>3, <2>4 DEF Tidy, TidyTo
<1>9. QED
  BY <1>6, <1>8 DEF d, depth

\* A local refused for its name finds the one before it marked for the scope.
LEMMA RedeclaredFresh ==
  ASSUME NEW c \in CompilerRecord, Tidy(c), NEW name, Redeclares(c, name)
  PROVE  Fresh(c)
<1> DEFINE n == Len(c.locals)
<1>1. /\ c.current_scope_depth \in Nat /\ n \in Nat /\ DOMAIN c.locals = 1..n
      /\ \A i \in 1..n : DepthAt(c, i) \in Int
  BY CompilerFields
<1>2. c.current_scope_depth > 0
  BY DEF Redeclares
<1>3. PICK i \in DOMAIN c.locals : InScope(c, i)
  BY DEF Redeclares
<1>4. n \in i..n /\ n \in 1..n
  BY <1>1, <1>3
<1>5. DepthAt(c, n) = Uninitialised \/ DepthAt(c, n) >= c.current_scope_depth
  BY <1>3, <1>4 DEF InScope, DepthAt
<1>6. DepthAt(c, n) = 0 \/ DepthAt(c, n) \in 1..c.current_scope_depth
  <2>1. n = 1 \/ n \in 2..n
    <3> HIDE DEF n
    <3>1. QED
      BY <1>1, <1>4
  <2>2. QED
    BY <2>1 DEF Tidy, TidyTo
<1>7. DepthAt(c, n) = c.current_scope_depth
  BY <1>1, <1>2, <1>4, <1>5, <1>6 DEF Uninitialised
<1>8. QED
  BY <1>7 DEF Fresh

LEMMA DeclareTidy ==
  ASSUME NEW c \in CompilerRecord, Tidy(c), NEW name \in Word
  PROVE  LET d == DeclareVariable(c, name)
         IN  /\ d \in CompilerRecord /\ Declared(d)
             /\ d.current_scope_depth = c.current_scope_depth
             /\ d.within_class = c.within_class
<1> DEFINE d == DeclareVariable(c, name)
           n == Len(c.locals)
           new == Local(name, Uninitialised)
           locals == Append(c.locals, new)
<1>1. /\ c.current_scope_depth \in Nat /\ c.locals \in Seq(LocalRecord) /\ n \in Nat
  BY CompilerFields
<1>2. CASE c.current_scope_depth = 0
  <2>1. d = c
    BY <1>2 DEF DeclareVariable
  <2>2. Declared(c)
    BY <1>2 DEF Declared, Fresh
  <2>3. QED
    BY <2>1, <2>2
<1>3. CASE c.current_scope_depth # 0
  <2>1. d = [c EXCEPT !.current_scope_depth = c.current_scope_depth, !.locals = locals]
    BY <1>3 DEF DeclareVariable, CompilerRecord
  <2>2. new \in LocalRecord /\ new.local_scope_depth = Uninitialised
    <3>1. name \in LocalName
      BY Zenon DEF LocalName
    <3>2. QED
      BY <3>1 DEF Local, LocalRecord, Uninitialised
  <2> HIDE DEF new
  <2>3. /\ locals \in Seq(LocalRecord) /\ Len(locals) = n + 1 /\ locals[n + 1] = new
        /\ \A i \in 1..n : locals[i] = c.locals[i]
    BY <1>1, <2>2
  <2> HIDE DEF d, locals
  <2>4. /\ d \in CompilerRecord /\ d.current_scope_depth = c.current_scope_depth
        /\ d.locals = locals /\ d.within_class = c.within_class
    BY <1>1, <2>1, <2>3 DEF CompilerRecord
  <2>5. \A i \in 1..n : DepthAt(d, i) = DepthAt(c, i)
    BY <2>3, <2>4 DEF DepthAt
  <2>6. DepthAt(d, n + 1) = Uninitialised
    BY <2>2, <2>3, <2>4 DEF DepthAt
  <2>7. TidyTo(d, n)
    <3>1. n >= 1 /\ 1 \in 1..n /\ \A i \in 2..n : i \in 1..n
      BY <1>1 DEF Tidy, TidyTo
    <3>2. QED
      BY <2>4, <2>5, <3>1 DEF Tidy, TidyTo
  <2>8. n + 1 - 1 = n /\ c.current_scope_depth > 0
    BY <1>1, <1>3
  <2>9. Declared(d)
    BY <2>3, <2>4, <2>6, <2>7, <2>8 DEF Declared
  <2>10. QED
    BY <2>4, <2>9 DEF d
<1>4. QED
  BY <1>2, <1>3

LEMMA MarkFresh ==
  ASSUME NEW c \in CompilerRecord, Declared(c)
  PROVE  LET d == MarkInitialized(c)
         IN  /\ d \in CompilerRecord /\ Fresh(d)
             /\ d.current_scope_depth = c.current_scope_depth
             /\ d.within_class = c.within_class
<1> DEFINE d == MarkInitialized(c)
           n == Len(c.locals)
           depth == c.current_scope_depth
           locals == [c.locals EXCEPT ![n] = [@ EXCEPT !.local_scope_depth = depth]]
<1>1. /\ depth \in Nat /\ c.locals \in Seq(LocalRecord) /\ n \in Nat
      /\ \A i \in 1..n : DepthAt(c, i) \in Int
  BY CompilerFields
<1>2. CASE depth = 0
  <2>1. d = c
    BY <1>2 DEF MarkInitialized
  <2>2. Fresh(c)
    BY <1>2 DEF Declared
  <2>3. QED
    BY <2>1, <2>2
<1>3. CASE depth # 0
  <2>1. n \in 1..n /\ DepthAt(c, n) \in {depth, Uninitialised}
        /\ (n > 1 => TidyTo(c, n - 1))
        /\ (n = 1 => FALSE)
    <3>1. CASE Fresh(c)
      <4>1. Tidy(c) /\ DepthAt(c, n) = depth
        BY <1>3, <3>1 DEF Fresh
      <4>2. n # 1 /\ n >= 1
        BY <1>3, <4>1 DEF Tidy, TidyTo
      <4>3. TidyTo(c, n - 1)
        <5> HIDE DEF n
        <5>1. n - 1 >= 1 /\ (\A i \in 1..(n - 1) : i \in 1..n) /\ (\A i \in 2..(n - 1) : i \in 2..n)
          BY <1>1, <4>2
        <5>2. QED
          BY <4>1, <5>1 DEF Tidy, TidyTo, n
      <4>4. QED
        BY <1>1, <4>1, <4>2, <4>3
    <3>2. CASE TidyTo(c, n - 1) /\ DepthAt(c, n) = Uninitialised
      <4>1. n - 1 >= 1
        BY <3>2 DEF TidyTo
      <4> HIDE DEF n
      <4>2. QED
        BY <1>1, <3>2, <4>1
    <3>3. QED
      BY <3>1, <3>2 DEF Declared
  <2>2. n > 1 /\ n - 1 \in Nat /\ TidyTo(c, n - 1)
    <3> HIDE DEF n
    <3>1. QED
      BY <1>1, <2>1
  <2>3. d = [c EXCEPT !.current_scope_depth = depth, !.locals = locals]
    BY <1>3 DEF MarkInitialized, CompilerRecord
  <2>4. c.locals[n] \in LocalRecord
    BY <1>1, <2>1
  <2>5. [c.locals[n] EXCEPT !.local_scope_depth = depth] \in LocalRecord
        /\ [c.locals[n] EXCEPT !.local_scope_depth = depth].local_scope_depth = depth
    BY <1>1, <2>4 DEF LocalRecord
  <2>6. /\ locals \in Seq(LocalRecord) /\ Len(locals) = n
        /\ locals[n].local_scope_depth = depth
        /\ \A i \in 1..n : i # n => locals[i] = c.locals[i]
    BY <1>1, <2>1, <2>5
  <2> HIDE DEF d, locals
  <2>7. /\ d \in CompilerRecord /\ d.current_scope_depth = depth /\ d.locals = locals
        /\ d.within_class = c.within_class
    BY <1>1, <2>3, <2>6 DEF CompilerRecord
  <2>8. /\ \A i \in 1..(n - 1) : DepthAt(d, i) = DepthAt(c, i)
        /\ DepthAt(d, n) = depth
    BY <1>1, <2>6, <2>7 DEF DepthAt
  <2> HIDE DEF n, depth
  <2>9. \A i \in 1..(n - 1) : DepthAt(d, i) \in 0..depth /\ DepthAt(d, i) \in Int
    <3>1. \A i \in 1..(n - 1) : i = 1 \/ i \in 2..(n - 1)
      BY <2>2
    <3>2. \A i \in 1..(n - 1) : DepthAt(c, i) = 0 \/ DepthAt(c, i) \in 1..depth
      BY <2>2, <3>1 DEF TidyTo, depth
    <3>3. QED
      BY <1>1, <2>8, <3>2
  <2>10. Tidy(d)
    <3>1. 1 \in 1..(n - 1) /\ DepthAt(d, 1) = 0
      BY <1>1, <2>2, <2>8 DEF TidyTo
    <3>2. ASSUME NEW i \in 2..n PROVE DepthAt(d, i) \in 1..depth
      <4>1. i = n \/ i \in 2..(n - 1)
        BY <1>1, <2>2
      <4>2. i \in 2..(n - 1) => i \in 1..(n - 1) /\ DepthAt(c, i) \in 1..depth
        BY <2>2 DEF TidyTo, depth
      <4>3. depth \in 1..depth
        BY <1>1, <1>3
      <4>4. QED
        BY <2>8, <4>1, <4>2, <4>3
    <3>3. ASSUME NEW i \in 1..n, NEW j \in 1..n, i < j PROVE DepthAt(d, i) <= DepthAt(d, j)
      <4>1. i \in 1..(n - 1) /\ (j = n \/ j \in 1..(n - 1))
        BY <1>1, <3>3
      <4>2. CASE j = n
        BY <1>1, <2>8, <2>9, <4>1, <4>2
      <4>3. CASE j \in 1..(n - 1)
        <5>1. DepthAt(c, i) <= DepthAt(c, j)
          BY <2>2, <3>3, <4>1, <4>3 DEF TidyTo
        <5>2. QED
          BY <2>8, <4>1, <4>3, <5>1
      <4>4. QED
        BY <4>1, <4>2, <4>3
    <3>4. n >= 1 /\ Len(d.locals) = n
      BY <1>1, <2>2, <2>6, <2>7 DEF n
    <3>5. QED
      BY <2>7, <3>1, <3>2, <3>3, <3>4 DEF Tidy, TidyTo
  <2>11. Len(d.locals) = n
    BY <2>6, <2>7 DEF n
  <2>12. Fresh(d)
    BY <2>7, <2>8, <2>10, <2>11 DEF Fresh
  <2>13. QED
    BY <2>7, <2>12 DEF d, depth
<1>4. QED
  BY <1>2, <1>3

-------------------------------------------------------------------------------
(***************************************************************************)
(* The innermost rule goes on, returns, calls another one.                 *)
(***************************************************************************)
LEMMA Joined ==
  ASSUME NEW S, NEW T, NEW s \in Seq(S), NEW t \in Seq(T)
  PROVE  /\ s \o t \in Seq(S \cup T) /\ Len(s \o t) = Len(s) + Len(t)
         /\ s \o t = <<>> <=> s = <<>> /\ t = <<>>
<1>1. s \in Seq(S \cup T) /\ t \in Seq(S \cup T)
  OBVIOUS
<1>2. s \o t \in Seq(S \cup T) /\ Len(s \o t) = Len(s) + Len(t)
  BY <1>1
<1>3. \A u \in Seq(S \cup T) : u = <<>> <=> Len(u) = 0
  OBVIOUS
<1>4. QED
  BY <1>1, <1>2, <1>3

LEMMA FunctionEnds ==
  ASSUME NEW marks \in BOOLEAN
  PROVE  /\ FunctionEnd(marks) \in Seq({Finishing, Initialised})
         /\ FunctionEnd(marks) # <<>>
         /\ Head(FunctionEnd(marks)) = Finishing /\ Tail(FunctionEnd(marks)) = Remainder(marks)
<1>1. /\ \A a, b : <<a, b>> \in Seq({a, b}) /\ <<a>> \in Seq({a, b}) /\ <<a, b>> # <<>> /\ <<a>> # <<>>
      /\ \A a, b : Head(<<a, b>>) = a /\ Tail(<<a, b>>) = <<b>>
      /\ \A a : Head(<<a>>) = a /\ Tail(<<a>>) = <<>>
  OBVIOUS
<1>2. QED
  BY <1>1, Zenon DEF FunctionEnd, Remainder

\* Nothing is left of a rule only when it has given back the state it was begun in.
LEMMA NothingLeft ==
  ASSUME NEW now, NEW after, Runs(<<>>, now, after)
  PROVE  now = after
<1>1. \A S : \A p \in Seq(S) : \A a : p \o <<a>> # <<>>
  <2>1. ASSUME NEW S, NEW p \in Seq(S), NEW a PROVE p \o <<a>> # <<>>
    <3>1. Len(p \o <<a>>) = Len(p) + 1
      OBVIOUS
    <3>2. QED
      BY <3>1
  <2>2. QED
    BY <2>1
<1>2. \A p \in Seq(FunctionPart), marks \in BOOLEAN :
        /\ p \o FunctionEnd(marks) # <<>>
        /\ <<Do("declare"), Initialised>> \o (p \o FunctionEnd(marks)) # <<>>
        /\ <<Initialised>> \o (p \o FunctionEnd(marks)) # <<>>
  <2>1. ASSUME NEW p \in Seq(FunctionPart), NEW marks \in BOOLEAN
        PROVE  /\ p \o FunctionEnd(marks) # <<>>
               /\ <<Do("declare"), Initialised>> \o (p \o FunctionEnd(marks)) # <<>>
               /\ <<Initialised>> \o (p \o FunctionEnd(marks)) # <<>>
    <3> DEFINE Others == {Do("declare"), Initialised}
           Ends   == {Finishing, Initialised}
    <3>1. FunctionEnd(marks) \in Seq(Ends) /\ FunctionEnd(marks) # <<>>
      BY FunctionEnds, Zenon
    <3> HIDE DEF Ends
    <3> DEFINE end == FunctionEnd(marks)
    <3> HIDE DEF end
    <3>2. p \o end \in Seq(FunctionPart \cup Ends) /\ p \o end # <<>>
      <4>1. end \in Seq(Ends) /\ end # <<>>
        BY <3>1 DEF end
      <4>2. p \o end \in Seq(FunctionPart \cup Ends)
        BY <4>1, Joined
      <4>3. p \o end # <<>>
        BY <4>1, Joined
      <4>4. QED
        BY <4>2, <4>3
    <3>3. \A S : \A a, b \in S : <<a, b>> \in Seq(S) /\ <<a>> \in Seq(S)
      OBVIOUS
    <3>4. Do("declare") \in Others /\ Initialised \in Others
      OBVIOUS
    <3> HIDE DEF Others
    <3>5. <<Do("declare"), Initialised>> \in Seq(Others) /\ <<Initialised>> \in Seq(Others)
      BY <3>3, <3>4
    <3>6. <<Do("declare"), Initialised>> \o (p \o end) # <<>>
      BY <3>2, <3>5, Joined
    <3>7. <<Initialised>> \o (p \o end) # <<>>
      BY <3>2, <3>5, Joined
    <3>8. QED
      BY <3>2, <3>6, <3>7 DEF end
  <2>2. QED
    BY <2>1
<1>3. \A marks \in BOOLEAN : ~InFunction(<<>>, now, after, marks)
  BY <1>2 DEF InFunction
<1>4. /\ <<>> \notin {Method1, Method2} /\ <<>> \notin Beginnings
      /\ <<>> \notin {Block1, Block2, Block3} /\ <<>> \notin {Function4, Class4}
      /\ <<>> # Function5 /\ <<>> \notin {Class6, Class7, Class8, Class9, Class10}
  BY DEF Method1, Method2, Beginnings, Block0, For0, Class1, Class2, Class3, Class5, Variable1,
         Variable2, Variable3, Function1, Function2, Function3, Block1, Block2, Block3, Function4,
         Class4, Function5, Class6, Class7, Class8, Class9, Class10
<1>5. /\ \A p \in Seq(LoopPart) : p \o Block4 # <<>>
      /\ \A p \in Seq(Quiet) : p \o <<Initialised>> # <<>>
  BY <1>1 DEF Block4
<1>6. QED
  BY <1>3, <1>4, <1>5 DEF Runs, RunsOutside

LEMMA LowerFunctions ==
  ASSUME NEW All, NEW rs \in Seq(All), NEW states, NEW cs, Lower(states, rs, cs)
  PROVE  /\ states \in [Nat -> State] /\ \A k \in Nat : states[k].function \in Nat
         /\ \A k \in 0..Len(rs) : /\ 1 <= states[k].function
                                  /\ states[k].function <= states[Len(rs)].function
<1> DEFINE n == Len(rs)
<1>1. n \in Nat
  OBVIOUS
<1>2. \A k \in 0..n : 0 \in 0..n /\ 0 <= k /\ k <= n /\ n \in 0..n
  <2> HIDE DEF n
  <2>1. QED
    BY <1>1
<1>3. states[0].function = 1
  BY DEF Lower, Outermost
<1>4. states \in [Nat -> State]
  BY DEF Lower
<1>5. \A k \in Nat : states[k].function \in Nat
  BY <1>4 DEF State
<1>6. \A k \in 0..n : 1 <= states[k].function /\ states[k].function <= states[n].function
  BY <1>2, <1>3 DEF Lower
<1>7. QED
  BY <1>4, <1>5, <1>6

\* Only the compilers of functions around matter to the rules below.
LEMMA LowerSame ==
  ASSUME NEW All, NEW rs \in Seq(All), NEW states, NEW cs, NEW ds, Lower(states, rs, cs),
         \A f \in 1..(states[Len(rs)].function - 1) : ds[f] = cs[f]
  PROVE  Lower(states, rs, ds)
<1> DEFINE n == Len(rs)
<1>1. n \in Nat
  OBVIOUS
<1>2. /\ \A k \in Nat : states[k].function \in Nat
      /\ \A k \in 0..n : 1 <= states[k].function /\ states[k].function <= states[n].function
  BY LowerFunctions
<1> HIDE DEF n
<1>3. ASSUME NEW k \in 1..n, states[k].function # states[k - 1].function
      PROVE  Meets(ds[states[k - 1].function], Awaited(rs[k], states[k - 1]))
  <2>1. k - 1 \in 0..n /\ k \in 0..n /\ k - 1 <= k /\ k - 1 \in Nat /\ k \in Nat
    BY <1>1
  <2>2. states[k - 1].function <= states[k].function
    BY <2>1 DEF Lower, n
  <2>3. /\ states[k - 1].function \in Nat /\ states[k].function \in Nat /\ states[n].function \in Nat
        /\ 1 <= states[k - 1].function /\ states[k].function <= states[n].function
    BY <1>1, <1>2, <2>1
  <2>4. states[k - 1].function \in 1..(states[n].function - 1)
    <3>1. \A a, b, c \in Nat : 1 <= a /\ a <= b /\ b <= c /\ b # a => a \in 1..(c - 1)
      OBVIOUS
    <3>2. QED
      BY <1>3, <2>2, <2>3, <3>1, Zenon
  <2>5. ds[states[k - 1].function] = cs[states[k - 1].function]
    BY <2>4 DEF n
  <2>6. QED
    BY <1>3, <2>5 DEF Lower, n
<1>4. QED
  BY <1>3 DEF Lower, n

\* A stack of rules with one more on top, from below.
LEMMA WaitsBelow ==
  ASSUME NEW All, NEW rs \in Seq(All), NEW items \in All, NEW states, NEW cs,
         Waits(states, Append(rs, items), cs)
  PROVE  /\ Lower(states, rs, cs)
         /\ Runs(items, states[Len(rs) + 1], states[Len(rs)])
         /\ states[Len(rs)].function <= states[Len(rs) + 1].function
         /\ Len(cs) = states[Len(rs) + 1].function
         /\ Meets(cs[Len(cs)], states[Len(rs) + 1])
         /\ states[Len(rs) + 1].function # states[Len(rs)].function =>
              Meets(cs[states[Len(rs)].function], Awaited(items, states[Len(rs)]))
<1> DEFINE n == Len(rs)
           whole == Append(rs, items)
<1>1. /\ n \in Nat /\ Len(whole) = n + 1 /\ whole[n + 1] = items
      /\ \A k \in 1..n : whole[k] = rs[k]
  OBVIOUS
<1> HIDE DEF whole, n
<1>2. /\ \A k \in 1..n : k \in 1..(n + 1)
      /\ n + 1 \in 1..(n + 1) /\ n + 1 - 1 = n
      /\ \A i \in 0..n : i \in 0..(n + 1)
      /\ n \in 0..(n + 1) /\ n + 1 \in 0..(n + 1) /\ n <= n + 1
  BY <1>1
<1>3. Lower(states, whole, cs) /\ Len(cs) = states[n + 1].function /\ Meets(cs[Len(cs)], states[n + 1])
  BY <1>1 DEF Waits, whole
<1>4. /\ states \in [Nat -> State] /\ states[0] = Outermost
      /\ \A k \in 1..(n + 1) : Runs(whole[k], states[k], states[k - 1])
      /\ \A i, j \in 0..(n + 1) : i <= j => states[i].function <= states[j].function
      /\ \A k \in 1..(n + 1) : states[k].function # states[k - 1].function =>
           Meets(cs[states[k - 1].function], Awaited(whole[k], states[k - 1]))
  BY <1>1, <1>3 DEF Lower
<1>5. /\ Runs(items, states[n + 1], states[n])
      /\ states[n].function <= states[n + 1].function
      /\ states[n + 1].function # states[n].function =>
           Meets(cs[states[n].function], Awaited(items, states[n]))
  BY <1>1, <1>2, <1>4
<1>6. /\ \A k \in 1..n : Runs(rs[k], states[k], states[k - 1])
      /\ \A i, j \in 0..n : i <= j => states[i].function <= states[j].function
      /\ \A k \in 1..n : states[k].function # states[k - 1].function =>
           Meets(cs[states[k - 1].function], Awaited(rs[k], states[k - 1]))
  BY <1>1, <1>2, <1>4
<1>7. Lower(states, rs, cs)
  BY <1>4, <1>6 DEF Lower, n
<1>8. QED
  BY <1>3, <1>5, <1>7 DEF n

\* ... and how the whole is put together again.
LEMMA WaitsAbove ==
  ASSUME NEW All, NEW rs \in Seq(All), NEW items \in All, NEW states, NEW now \in State, NEW cs,
         Lower(states, rs, cs),
         Runs(items, now, states[Len(rs)]), states[Len(rs)].function <= now.function,
         Len(cs) = now.function, Meets(cs[Len(cs)], now),
         now.function # states[Len(rs)].function =>
           Meets(cs[states[Len(rs)].function], Awaited(items, states[Len(rs)]))
  PROVE  Waits([states EXCEPT ![Len(rs) + 1] = now], Append(rs, items), cs)
<1> DEFINE n == Len(rs)
           whole == Append(rs, items)
           new == [states EXCEPT ![n + 1] = now]
<1>1. /\ n \in Nat /\ Len(whole) = n + 1 /\ whole[n + 1] = items
      /\ \A k \in 1..n : whole[k] = rs[k]
  OBVIOUS
<1>2. states \in [Nat -> State]
  BY DEF Lower
<1>3. /\ new \in [Nat -> State] /\ new[n + 1] = now
      /\ \A k \in Nat : k # n + 1 => new[k] = states[k]
  BY <1>1, <1>2
<1> HIDE DEF n, whole, new
<1>4. /\ \A k \in 1..(n + 1) : k = n + 1 \/ k \in 1..n
      /\ \A k \in 1..n : k \in Nat /\ k # n + 1 /\ k - 1 \in Nat /\ k - 1 # n + 1
      /\ n + 1 - 1 = n /\ n \in Nat /\ n # n + 1 /\ 0 # n + 1
      /\ \A k \in 0..(n + 1) : k = n + 1 \/ k \in 0..n
      /\ \A k \in 0..n : k \in Nat /\ k # n + 1 /\ k <= n /\ ~(n + 1 <= k)
      /\ n \in 0..n
  BY <1>1
<1>5. /\ states[0] = Outermost
      /\ \A k \in 1..n : Runs(rs[k], states[k], states[k - 1])
      /\ \A i, j \in 0..n : i <= j => states[i].function <= states[j].function
      /\ \A k \in 1..n : states[k].function # states[k - 1].function =>
           Meets(cs[states[k - 1].function], Awaited(rs[k], states[k - 1]))
  BY DEF Lower, n
<1>6. new[0] = Outermost
  BY <1>3, <1>4, <1>5
<1>7. ASSUME NEW k \in 1..(n + 1)
      PROVE  /\ Runs(whole[k], new[k], new[k - 1])
             /\ new[k].function # new[k - 1].function =>
                  Meets(cs[new[k - 1].function], Awaited(whole[k], new[k - 1]))
  <2>1. CASE k = n + 1
    <3>1. whole[k] = items /\ new[k] = now /\ new[k - 1] = states[n]
      BY <1>1, <1>3, <1>4, <2>1
    <3>2. QED
      BY <3>1 DEF n
  <2>2. CASE k \in 1..n
    <3>1. whole[k] = rs[k] /\ new[k] = states[k] /\ new[k - 1] = states[k - 1]
      BY <1>1, <1>3, <1>4, <2>2
    <3>2. QED
      BY <1>5, <2>2, <3>1
  <2>3. QED
    BY <1>4, <2>1, <2>2
<1>8. ASSUME NEW i \in 0..(n + 1), NEW j \in 0..(n + 1), i <= j
      PROVE  new[i].function <= new[j].function
  <2>1. now.function \in Nat /\ \A k \in Nat : states[k].function \in Nat
    BY <1>2 DEF State
  <2>2. CASE i = n + 1 /\ j = n + 1
    BY <1>3, <2>1, <2>2
  <2>3. CASE i \in 0..n /\ j = n + 1
    <3>1. new[i] = states[i] /\ new[j] = now
      BY <1>3, <1>4, <2>3
    <3>2. states[i].function <= states[n].function
      BY <1>4, <1>5, <2>3
    <3>3. states[n].function <= now.function
      BY DEF n
    <3>4. i \in Nat /\ n \in Nat
      BY <1>1, <1>4, <2>3
    <3>5. QED
      BY <2>1, <3>1, <3>2, <3>3, <3>4
  <2>4. CASE i \in 0..n /\ j \in 0..n
    <3>1. new[i] = states[i] /\ new[j] = states[j]
      BY <1>3, <1>4, <2>4
    <3>2. states[i].function <= states[j].function
      BY <1>5, <1>8, <2>4
    <3>3. QED
      BY <3>1, <3>2
  <2>5. QED
    BY <1>4, <1>8, <2>2, <2>3, <2>4
<1>9. Lower(new, whole, cs)
  BY <1>1, <1>3, <1>6, <1>7, <1>8 DEF Lower
<1>10. Waits(new, whole, cs)
  BY <1>1, <1>3, <1>9 DEF Waits
<1>11. QED
  BY <1>10 DEF new, whole, n

\* The rule returns.
LEMMA WaitsPop ==
  ASSUME NEW All, NEW rs \in Seq(All), NEW items \in All, NEW states, NEW cs,
         Waits(states, Append(rs, items), cs), states[Len(rs) + 1] = states[Len(rs)]
  PROVE  Waits(states, rs, cs)
<1>1. /\ Lower(states, rs, cs) /\ Len(cs) = states[Len(rs) + 1].function
      /\ Meets(cs[Len(cs)], states[Len(rs) + 1])
  BY WaitsBelow
<1>2. QED
  BY <1>1 DEF Waits

\* The rule goes on in the same function.
LEMMA WaitsGo ==
  ASSUME NEW All, NEW rs \in Seq(All), NEW items \in All, NEW new \in All, NEW states, NEW cs, NEW ds,
         Waits(states, Append(rs, items), cs), NEW now \in State,
         Runs(new, now, states[Len(rs)]), now.function = states[Len(rs) + 1].function,
         now.function # states[Len(rs)].function => Last(new) = Last(items),
         Len(ds) = Len(cs), \A i \in 1..(Len(cs) - 1) : ds[i] = cs[i], Meets(ds[Len(cs)], now)
  PROVE  Waits([states EXCEPT ![Len(rs) + 1] = now], Append(rs, new), ds)
<1> DEFINE n == Len(rs)
           f == states[n].function
<1>1. n \in Nat
  OBVIOUS
<1>2. /\ Lower(states, rs, cs) /\ f <= states[n + 1].function
      /\ Len(cs) = states[n + 1].function
      /\ states[n + 1].function # f => Meets(cs[f], Awaited(items, states[n]))
  BY WaitsBelow
<1>3. f \in Nat /\ 1 <= f /\ states[n + 1].function \in Nat
  <2>1. n \in 0..n /\ n + 1 \in Nat
    BY <1>1
  <2>2. QED
    BY <1>1, <1>2, <2>1, LowerFunctions
<1>4. f <= Len(cs) /\ Len(cs) \in Nat
  BY <1>2, <1>3
<1>5. Lower(states, rs, ds)
  <2>1. \A i \in 1..(f - 1) : ds[i] = cs[i]
    <3> HIDE DEF f
    <3>1. \A i \in 1..(f - 1) : i \in 1..(Len(cs) - 1)
      BY <1>3, <1>4
    <3>2. QED
      BY <3>1
  <2>2. QED
    BY <1>2, <2>1, LowerSame
<1>6. ASSUME now.function # f
      PROVE  Meets(ds[f], Awaited(new, states[n]))
  <2>1. f \in 1..(Len(cs) - 1)
    <3> HIDE DEF f
    <3>1. f # Len(cs)
      BY <1>2, <1>6 DEF n
    <3>2. QED
      BY <1>3, <1>4, <3>1
  <2>2. ds[f] = cs[f]
    BY <2>1
  <2>3. Awaited(new, states[n]) = Awaited(items, states[n])
    BY <1>6 DEF Awaited
  <2>4. QED
    BY <1>2, <1>6, <2>2, <2>3
<1>7. f <= now.function /\ Len(ds) = now.function /\ Meets(ds[Len(ds)], now)
  BY <1>2
<1>8. QED
  BY <1>5, <1>6, <1>7, WaitsAbove

\* Another rule is called.
LEMMA WaitsPush ==
  ASSUME NEW All, NEW rs \in Seq(All), NEW new \in All, NEW states, NEW cs,
         Waits(states, rs, cs), Runs(new, states[Len(rs)], states[Len(rs)])
  PROVE  Waits([states EXCEPT ![Len(rs) + 1] = states[Len(rs)]], Append(rs, new), cs)
<1>1. Lower(states, rs, cs)
  BY DEF Waits
<1>2. states[Len(rs)] \in State /\ states[Len(rs)].function \in Nat
  BY <1>1, LowerFunctions
<1>3. states[Len(rs)].function <= states[Len(rs)].function
  BY <1>2
<1>4. QED
  BY <1>1, <1>2, <1>3, WaitsAbove DEF Waits

\* A function is begun.
LEMMA WaitsEnter ==
  ASSUME NEW All, NEW rs \in Seq(All), NEW items \in All, NEW new \in All, NEW states, NEW cs, NEW ds,
         Waits(states, Append(rs, items), cs), NEW now \in State,
         states[Len(rs) + 1].function = states[Len(rs)].function,
         Runs(new, now, states[Len(rs)]), now.function = states[Len(rs)].function + 1,
         Meets(cs[Len(cs)], Awaited(new, states[Len(rs)])),
         Len(ds) = Len(cs) + 1, \A i \in 1..Len(cs) : ds[i] = cs[i], Meets(ds[Len(ds)], now)
  PROVE  Waits([states EXCEPT ![Len(rs) + 1] = now], Append(rs, new), ds)
<1> DEFINE n == Len(rs)
           f == states[n].function
<1>1. n \in Nat
  OBVIOUS
<1>2. Lower(states, rs, cs) /\ Len(cs) = f
  BY WaitsBelow
<1>3. f \in Nat /\ 1 <= f
  <2>1. n \in 0..n
    BY <1>1
  <2>2. QED
    BY <1>1, <1>2, <2>1, LowerFunctions
<1>4. Lower(states, rs, ds)
  <2>1. \A i \in 1..(f - 1) : ds[i] = cs[i]
    <3> HIDE DEF f
    <3>1. \A i \in 1..(f - 1) : i \in 1..Len(cs)
      BY <1>2, <1>3
    <3>2. QED
      BY <3>1
  <2>2. QED
    BY <1>2, <2>1, LowerSame
<1>5. Meets(ds[f], Awaited(new, states[n]))
  <2>1. f \in 1..Len(cs)
    <3> HIDE DEF f
    <3>1. QED
      BY <1>2, <1>3
  <2>2. ds[f] = cs[f]
    BY <2>1
  <2>3. QED
    BY <1>2, <2>2
<1>6. f <= now.function /\ Len(ds) = now.function
  BY <1>2, <1>3
<1>7. QED
  BY <1>4, <1>5, <1>6, WaitsAbove

\* A function is left: the one around goes on as it waited.
LEMMA WaitsLeave ==
  ASSUME NEW All, NEW rs \in Seq(All), NEW items \in All, NEW new \in All, NEW states, NEW cs, NEW ds,
         Waits(states, Append(rs, items), cs), NEW now \in State,
         states[Len(rs) + 1].function = states[Len(rs)].function + 1,
         Runs(new, now, states[Len(rs)]), now.function = states[Len(rs)].function,
         \A c : Meets(c, Awaited(items, states[Len(rs)])) => Meets(c, now),
         Len(ds) = Len(cs) - 1, \A i \in 1..Len(ds) : ds[i] = cs[i]
  PROVE  Waits([states EXCEPT ![Len(rs) + 1] = now], Append(rs, new), ds)
<1> DEFINE n == Len(rs)
           f == states[n].function
<1>1. n \in Nat
  OBVIOUS
<1>2. /\ Lower(states, rs, cs) /\ Len(cs) = states[n + 1].function
      /\ states[n + 1].function # f => Meets(cs[f], Awaited(items, states[n]))
  BY WaitsBelow
<1>3. f \in Nat /\ 1 <= f
  <2>1. n \in 0..n
    BY <1>1
  <2>2. QED
    BY <1>1, <1>2, <2>1, LowerFunctions
<1>4. Len(ds) = f
  BY <1>2, <1>3
<1>5. Lower(states, rs, ds)
  <2>1. \A i \in 1..(f - 1) : ds[i] = cs[i]
    <3> HIDE DEF f
    <3>1. \A i \in 1..(f - 1) : i \in 1..Len(ds)
      BY <1>3, <1>4
    <3>2. QED
      BY <3>1
  <2>2. QED
    BY <1>2, <2>1, LowerSame
<1>6. Meets(ds[f], now)
  <2>1. f \in 1..Len(ds) /\ states[n + 1].function # f
    BY <1>3, <1>4
  <2>2. ds[f] = cs[f]
    BY <2>1
  <2>3. QED
    BY <1>2, <2>1, <2>2
<1>7. f <= now.function /\ Len(ds) = now.function /\ Meets(ds[Len(ds)], now)
  BY <1>3, <1>4, <1>6
<1>8. QED
  BY <1>5, <1>7, WaitsAbove

-------------------------------------------------------------------------------
(***************************************************************************)
(* Expressions are read without a change of the compilers, by whatever     *)
(* rule: only the items of the rule that belong to the expression change.  *)
(***************************************************************************)
HasOperands(S) ==
  /\ Operand \subseteq S /\ Optional("EQUAL", <<Expression>>) \in S /\ Expect("RIGHT_PAREN") \in S
  /\ \A i \in S : i.op \in {"consume", "unless"} => i.items \in Seq(S)
  /\ \A i \in S : i.op \in {"precedence", "infix"} => i.level \in Int

LEMMA OperandItems ==
  /\ \A level \in Int : Precedence(level) \in Operand /\ Infix(level) \in Operand
  /\ \A b \in BOOLEAN : Named(b) \in Operand
  /\ Do("this") \in Operand /\ Expression \in Operand
<1>1. \A level \in Int : Precedence(level) \in Operand /\ Infix(level) \in Operand
  BY DEF Operand, Precedence, Infix
<1>2. \A b \in BOOLEAN : Named(b) \in Operand
  BY DEF Operand, Named
<1>3. Do("this") \in Operand
  BY DEF Operand, Do
<1>4. QED
  BY <1>1, <1>2, <1>3 DEF Expression, PREC_ASSIGNMENT

LEMMA AroundItems ==
  ASSUME NEW S, NEW missing
  PROVE  /\ S \subseteq Around(S, missing)
         /\ \A type \in TypeName, items \in Seq(S), m \in missing, again \in BOOLEAN :
              Token(type, items, m, again) \in Around(S, missing)
         /\ \A type \in TypeName, items \in Seq(S) : Unless(type, items) \in Around(S, missing)
         /\ \A i \in Around(S, missing) :
              \/ i \in S
              \/ i.op = "consume" /\ i.items \in Seq(S) /\ i.missing \in missing
              \/ i.op = "unless" /\ i.items \in Seq(S)
<1>1. \A type \in TypeName, items \in Seq(S), m \in missing, again \in BOOLEAN :
        Token(type, items, m, again) \in
          [op : {"consume"}, type : TypeName, items : Seq(S), missing : missing, again : BOOLEAN]
  BY DEF Token
<1>2. \A type \in TypeName, items \in Seq(S) :
        Unless(type, items) \in [op : {"unless"}, type : TypeName, items : Seq(S)]
  BY DEF Unless
<1>3. \A i \in [op : {"consume"}, type : TypeName, items : Seq(S), missing : missing,
                again : BOOLEAN] :
        i.op = "consume" /\ i.items \in Seq(S) /\ i.missing \in missing
  OBVIOUS
<1>4. \A i \in [op : {"unless"}, type : TypeName, items : Seq(S)] :
        i.op = "unless" /\ i.items \in Seq(S)
  OBVIOUS
<1>5. QED
  BY <1>1, <1>2, <1>3, <1>4, Zenon DEF Around

LEMMA TwiceItems ==
  ASSUME NEW S, NEW missing
  PROVE  /\ S \subseteq Twice(S, missing) /\ Around(S, missing) \subseteq Twice(S, missing)
         /\ \A type \in TypeName, items \in Seq(S), m \in missing, again \in BOOLEAN :
              Token(type, items, m, again) \in Twice(S, missing)
         /\ \A type \in TypeName, items \in Seq(Around(S, missing)) :
              Unless(type, items) \in Twice(S, missing)
         /\ \A i \in Twice(S, missing) :
              \/ i \in S
              \/ /\ i.op = "consume" /\ i.items \in Seq(Twice(S, missing))
                 /\ i.missing \in missing
              \/ i.op = "unless" /\ i.items \in Seq(Twice(S, missing))
<1> DEFINE Once == Around(S, missing)
<1>1. S \subseteq Once /\ Once \subseteq Twice(S, missing)
  BY AroundItems DEF Twice
<1>2. Seq(S) \subseteq Seq(Twice(S, missing)) /\ Seq(Once) \subseteq Seq(Twice(S, missing))
  BY <1>1
<1>3. \A type \in TypeName, items \in Seq(S), m \in missing, again \in BOOLEAN :
        Token(type, items, m, again) \in Once
  BY AroundItems
<1>4. \A type \in TypeName, items \in Seq(Once) : Unless(type, items) \in Twice(S, missing)
  BY AroundItems DEF Twice
<1>5. \A i \in Twice(S, missing) :
        \/ i \in Once
        \/ i.op = "consume" /\ i.items \in Seq(Once) /\ i.missing \in missing
        \/ i.op = "unless" /\ i.items \in Seq(Once)
  BY AroundItems, Zenon DEF Twice
<1>6. \A i \in Once :
        \/ i \in S
        \/ i.op = "consume" /\ i.items \in Seq(S) /\ i.missing \in missing
        \/ i.op = "unless" /\ i.items \in Seq(S)
  BY AroundItems, Zenon
<1> HIDE DEF Once
<1>7. QED
  BY <1>1, <1>2, <1>3, <1>4, <1>5, <1>6, Zenon DEF Once

LEMMA TwiceHasOperands ==
  ASSUME NEW S, NEW missing, Operand \subseteq S, Kept \subseteq missing,
         \A i \in S : i.op \notin {"consume", "unless"},
         \A i \in S : i.op \in {"precedence", "infix"} => i.level \in Int
  PROVE  HasOperands(Twice(S, missing))
<1>1. <<>> \in Seq(S) /\ <<Expression>> \in Seq(S)
  BY OperandItems
<1>2. "ignored" \in missing /\ "reported" \in missing /\ "EQUAL" \in TypeName
      /\ "RIGHT_PAREN" \in TypeName
  BY DEF Kept, TypeName
<1>3. /\ Optional("EQUAL", <<Expression>>) \in Twice(S, missing)
      /\ Expect("RIGHT_PAREN") \in Twice(S, missing)
  BY <1>1, <1>2, TwiceItems DEF Optional, Expect
<1>4. Operand \subseteq Twice(S, missing)
  BY TwiceItems
<1>5. \A i \in Twice(S, missing) :
        \/ i \in S
        \/ i.op = "consume" /\ i.items \in Seq(Twice(S, missing))
        \/ i.op = "unless" /\ i.items \in Seq(Twice(S, missing))
  BY TwiceItems, Zenon
<1>6. \A i \in Twice(S, missing) :
        /\ i.op \in {"consume", "unless"} => i.items \in Seq(Twice(S, missing))
        /\ i.op \in {"precedence", "infix"} => i.level \in Int
  BY <1>5
<1>7. QED
  BY <1>3, <1>4, <1>6 DEF HasOperands

LEMMA PartsHaveOperands ==
  /\ HasOperands(Quiet) /\ HasOperands(OperandPart)
  /\ HasOperands(LoopPart) /\ HasOperands(StatementPart)
<1>1. Kept \subseteq Missing /\ Kept \subseteq Kept
  BY DEF Kept, Missing
<1>2. \A i \in Operand : /\ i.op \notin {"consume", "unless"}
                         /\ i.op \in {"precedence", "infix"} => i.level \in Int
  BY DEF Operand
<1>3. \A i \in Called : /\ i.op \notin {"consume", "unless"}
                        /\ i.op \in {"precedence", "infix"} => i.level \in Int
  BY <1>2 DEF Called
<1>4. \A i \in Stated : /\ i.op \notin {"consume", "unless"}
                        /\ i.op \in {"precedence", "infix"} => i.level \in Int
  <2>1. \A i \in [op : {"until"}, types : SUBSET {"RIGHT_BRACE", EOF}, name : {"declaration"}] :
          i.op \notin {"consume", "unless", "precedence", "infix"}
    OBVIOUS
  <2>2. \A i \in [op : {"not in"}, type : {"INITIALIZER", "TOP_LEVEL_SCRIPT"}] :
          i.op \notin {"consume", "unless", "precedence", "infix"}
    BY Zenon
  <2>3. \A i \in [op : {"recover", "synchronize", "advance"}] :
          i.op \notin {"consume", "unless", "precedence", "infix"}
    OBVIOUS
  <2>4. \A x : x \notin {"consume", "unless", "precedence", "infix"} =>
          x \notin {"consume", "unless"} /\ x \notin {"precedence", "infix"}
    OBVIOUS
  <2>5. QED
    BY <1>3, <2>1, <2>2, <2>3, <2>4, Zenon DEF Stated
<1>5. Operand \subseteq Called /\ Called \subseteq Stated /\ Operand \subseteq Stated
  <2>1. Operand \subseteq Called
    BY Zenon DEF Called
  <2>2. Called \subseteq Stated
    BY Zenon DEF Stated
  <2>3. QED
    BY <2>1, <2>2, Zenon
<1>6. QED
  BY <1>1, <1>2, <1>3, <1>4, <1>5, TwiceHasOperands
     DEF Quiet, OperandPart, LoopPart, StatementPart

LEMMA InfixOperands ==
  ASSUME NEW token, NEW can_assign \in BOOLEAN
  PROVE  InfixRule(token, can_assign) \in Seq(OperandPart) \ {<<>>}
<1>1. /\ "IDENTIFIER" \in TypeName /\ "EQUAL" \in TypeName /\ "RIGHT_PAREN" \in TypeName
      /\ "COMMA" \in TypeName /\ "ignored" \in Missing /\ "reported" \in Missing
      /\ "returned" \in Missing
  BY DEF TypeName, Missing
<1>2. Expression \in Operand /\ <<Expression>> \in Seq(Operand) /\ <<>> \in Seq(Operand)
  BY OperandItems
<1>3. /\ Require("IDENTIFIER") \in OperandPart /\ Optional("EQUAL", <<Expression>>) \in OperandPart
      /\ Expect("RIGHT_PAREN") \in OperandPart
  BY <1>1, <1>2, TwiceItems DEF OperandPart, Require, Optional, Expect
<1>4. Unless("RIGHT_PAREN", <<Expression, Repeat("COMMA", <<Expression>>)>>) \in OperandPart
  <2>1. /\ Repeat("COMMA", <<Expression>>) \in Around(Operand, Missing)
        /\ Expression \in Around(Operand, Missing)
    BY <1>1, <1>2, AroundItems DEF Repeat
  <2>2. <<Expression, Repeat("COMMA", <<Expression>>)>> \in Seq(Around(Operand, Missing))
    BY <2>1
  <2>3. QED
    BY <1>1, <2>2, TwiceItems DEF OperandPart
<1>5. /\ Precedence(PrecedenceOf(token)) \in OperandPart
      /\ Precedence(PrecedenceOf(token) + 1) \in OperandPart
  <2>1. PrecedenceOf(token) \in Int /\ PrecedenceOf(token) + 1 \in Int
    BY PrecedenceIsNumber
  <2>2. QED
    BY <2>1, OperandItems, TwiceItems DEF OperandPart
<1> DEFINE Parts == Seq(OperandPart) \ {<<>>}
<1>6. \A a, b \in OperandPart : /\ <<a>> \in Parts /\ <<a, b>> \in Parts
                                /\ <<a>> \o <<>> \in Parts /\ <<a>> \o <<b>> \in Parts
  OBVIOUS
<1> HIDE DEF Parts
<1>7. CASE token = "DOT"
  BY <1>3, <1>6, <1>7 DEF InfixRule, Parts
<1>8. CASE token = "LEFT_PAREN"
  <2>1. InfixRule(token, can_assign) =
          <<Unless("RIGHT_PAREN", <<Expression, Repeat("COMMA", <<Expression>>)>>),
            Expect("RIGHT_PAREN")>>
    BY <1>8 DEF InfixRule
  <2>2. QED
    BY <1>3, <1>4, <1>6, <2>1 DEF Parts
<1>9. CASE token \notin {"DOT", "LEFT_PAREN"}
  <2>1. \/ InfixRule(token, can_assign) = <<Precedence(PrecedenceOf(token))>>
        \/ InfixRule(token, can_assign) = <<Precedence(PrecedenceOf(token) + 1)>>
    BY <1>9 DEF InfixRule
  <2>2. QED
    BY <1>5, <1>6, <2>1 DEF Parts
<1>10. QED
  BY <1>7, <1>8, <1>9

LEMMA PrefixOperands ==
  ASSUME NEW S, HasOperands(S), NEW token, NEW can_assign \in BOOLEAN
  PROVE  PrefixRule(token, can_assign) \in Seq(S)
<1>1. /\ Expression \in S /\ Expect("RIGHT_PAREN") \in S /\ Precedence(PREC_UNARY) \in S
      /\ Named(can_assign) \in S /\ Do("this") \in S
  <2>1. PREC_UNARY \in Int
    BY DEF PREC_UNARY
  <2>2. QED
    BY <2>1, OperandItems DEF HasOperands
<1>2. PrefixRule(token, can_assign) \in
        {<<Expression, Expect("RIGHT_PAREN")>>, <<Precedence(PREC_UNARY)>>,
         <<Named(can_assign)>>, <<Do("this")>>, <<>>}
  BY DEF PrefixRule
<1>3. \A a, b \in S : <<a, b>> \in Seq(S) /\ <<a>> \in Seq(S) /\ <<>> \in Seq(S)
  OBVIOUS
<1>4. QED
  BY <1>1, <1>2, <1>3

LEMMA SameSequence ==
  ASSUME NEW U, NEW a \in Seq(U), NEW b \in Seq(U), Len(a) = Len(b),
         \A i \in 1..Len(a) : a[i] = b[i]
  PROVE  a = b
OBVIOUS

LEMMA Associative ==
  ASSUME NEW U, NEW a \in Seq(U), NEW b \in Seq(U), NEW c \in Seq(U)
  PROVE  a \o (b \o c) = (a \o b) \o c
<1> DEFINE left == a \o (b \o c)
           right == (a \o b) \o c
<1>1. left \in Seq(U) /\ right \in Seq(U)
  OBVIOUS
<1>2. Len(left) = Len(a) + Len(b) + Len(c) /\ Len(right) = Len(left)
  OBVIOUS
<1>3. ASSUME NEW i \in 1..(Len(a) + Len(b) + Len(c))
      PROVE  left[i] = right[i]
  OBVIOUS
<1> HIDE DEF left, right
<1>4. left = right
  BY <1>1, <1>2, <1>3, SameSequence
<1>5. QED
  BY <1>4 DEF left, right

LEMMA Split ==
  ASSUME NEW S, NEW T, NEW parts \in Seq(S), NEW tail \in Seq(T), parts # <<>>
  PROVE  /\ Head(parts \o tail) = Head(parts) /\ Head(parts) \in S
         /\ Tail(parts \o tail) = Tail(parts) \o tail /\ Tail(parts) \in Seq(S)
         /\ parts \o tail # <<>>
<1> DEFINE U == S \cup T
<1>1. parts \in Seq(U) /\ tail \in Seq(U) /\ Len(parts) \in Nat \ {0}
  OBVIOUS
<1>2. Head(parts) = parts[1] /\ Head(parts) \in S /\ Tail(parts) \in Seq(S)
  OBVIOUS
<1>3. Tail(parts) \in Seq(U)
  BY <1>2
<1> HIDE DEF U
<1>4. \A s \in Seq(U), t \in Seq(U) : s # <<>> => Head(s \o t) = s[1] /\ s \o t # <<>>
  OBVIOUS
<1>5. \A s \in Seq(U), t \in Seq(U) : s # <<>> => Tail(s \o t) = Tail(s) \o t
  <2> SUFFICES ASSUME NEW s \in Seq(U), NEW t \in Seq(U), s # <<>>
               PROVE  Tail(s \o t) = Tail(s) \o t
    OBVIOUS
  <2>1. Tail(s \o t) \in Seq(U) /\ Tail(s) \o t \in Seq(U) /\ Tail(s) \in Seq(U)
    OBVIOUS
  <2>2. Len(Tail(s \o t)) = Len(s) + Len(t) - 1 /\ Len(Tail(s) \o t) = Len(s) - 1 + Len(t)
    OBVIOUS
  <2>3. ASSUME NEW i \in 1..(Len(s) + Len(t) - 1) PROVE Tail(s \o t)[i] = (Tail(s) \o t)[i]
    OBVIOUS
  <2>4. \A a, b \in Seq(U) : Len(a) = Len(b) /\ (\A i \in 1..Len(a) : a[i] = b[i]) => a = b
    OBVIOUS
  <2>5. Len(s) + Len(t) - 1 = Len(s) - 1 + Len(t)
    OBVIOUS
  <2>6. QED
    BY <2>1, <2>2, <2>3, <2>4, <2>5
<1>6. QED
  BY <1>1, <1>2, <1>4, <1>5

LEMMA Joins ==
  ASSUME NEW S, NEW T, NEW more \in Seq(S), NEW parts \in Seq(S), NEW tail \in Seq(T)
  PROVE  more \o parts \in Seq(S) /\ more \o (parts \o tail) = (more \o parts) \o tail
<1> DEFINE U == S \cup T
<1>1. more \in Seq(U) /\ parts \in Seq(U) /\ tail \in Seq(U)
  OBVIOUS
<1> HIDE DEF U
<1>2. more \o parts \in Seq(S)
  OBVIOUS
<1>3. QED
  BY <1>1, <1>2, Associative

-------------------------------------------------------------------------------
(***************************************************************************)
(* The steps of the innermost rule, seen from the compilers.               *)
(***************************************************************************)
Lists == Seq(Plain \cup Naming) \ {<<>>}

\* Rules that another one is called from; a block calls none before its scope has begun,
\* and none when only its brace is left.
Settled(items) == items \notin {Block0, For0, Block3}
AtBrace == current_token = "RIGHT_BRACE" \/ (current_token = EOF /\ AtEnd)
BelowSettled  == \A k \in 1..(Len(rules) - 1) : Settled(rules[k])
BraceAwaited  == rules # <<>> /\ Last(rules) = Block3 => AtBrace

Held ==
  /\ \E states : Waits(states, rules, compilers)
  /\ compilers \in Seq(CompilerRecord) /\ BelowSettled /\ BraceAwaited

Innermost(states, items, now, after) ==
  /\ rules \in Seq(Lists) /\ rules # <<>> /\ items = Last(rules)
  /\ Waits(states, rules, compilers)
  /\ now = states[Len(rules)] /\ after = states[Len(rules) - 1]
  /\ compilers \in Seq(CompilerRecord) /\ BelowSettled

LEMMA FrontLast ==
  ASSUME NEW S, NEW s \in Seq(S), s # <<>>
  PROVE  /\ Front(s) \in Seq(S) /\ Last(s) \in S /\ s = Append(Front(s), Last(s))
         /\ Len(Front(s)) = Len(s) - 1 /\ Len(s) \in Nat \ {0}
         /\ \A i \in 1..(Len(s) - 1) : Front(s)[i] = s[i]
         /\ Last(s) = s[Len(s)]
<1>1. Front(s) \in Seq(S) /\ Len(Front(s)) = Len(s) - 1
      /\ \A i \in 1..(Len(s) - 1) : Front(s)[i] = s[i]
  <2>1. Front(s) = SubSeq(s, 1, Len(s) - 1)
    BY DEF Front
  <2>2. Len(s) \in Nat \ {0}
    OBVIOUS
  <2>3. \A n \in 0..Len(s) : /\ SubSeq(s, 1, n) \in Seq(S) /\ Len(SubSeq(s, 1, n)) = n
                             /\ \A i \in 1..n : SubSeq(s, 1, n)[i] = s[i]
    OBVIOUS
  <2>4. Len(s) - 1 \in 0..Len(s)
    BY <2>2
  <2>5. QED
    BY <2>1, <2>3, <2>4
<1>2. Last(s) = s[Len(s)] /\ Last(s) \in S /\ Len(s) \in Nat \ {0}
  BY DEF Last
<1> DEFINE t == Append(Front(s), Last(s))
<1>3. t \in Seq(S) /\ Len(t) = Len(s)
  BY <1>1, <1>2
<1>4. \A i \in 1..Len(s) : s[i] = t[i]
  BY <1>1, <1>2
<1> HIDE DEF t
<1>5. s = t
  BY <1>3, <1>4, SameSequence
<1>6. QED
  BY <1>1, <1>2, <1>5 DEF t

LEMMA InnermostFacts ==
  ASSUME NEW states, NEW items, NEW now, NEW after, Innermost(states, items, now, after)
  PROVE  /\ now \in State /\ after \in State /\ Runs(items, now, after)
         /\ Len(compilers) = now.function /\ Len(compilers) \in Nat \ {0}
         /\ Cur = compilers[Len(compilers)] /\ Cur \in CompilerRecord /\ Meets(Cur, now)
         /\ after.function \in Nat \ {0}
         /\ now.function # after.function =>
              Meets(compilers[after.function], Awaited(items, after))
         /\ items \in Lists /\ items # <<>>
<1> DEFINE n == Len(rules) - 1
<1>1. /\ rules \in Seq(Lists) /\ rules # <<>> /\ items = Last(rules)
      /\ Waits(states, rules, compilers) /\ now = states[Len(rules)] /\ after = states[n]
      /\ compilers \in Seq(CompilerRecord)
  BY DEF Innermost
<1>2. /\ Front(rules) \in Seq(Lists) /\ items \in Lists /\ rules = Append(Front(rules), items)
      /\ Len(Front(rules)) = n /\ n \in Nat /\ Len(rules) = n + 1
  BY <1>1, FrontLast, SMTT(30)
<1>3. Waits(states, Append(Front(rules), items), compilers)
  BY <1>1, <1>2
<1>4. /\ Lower(states, Front(rules), compilers)
      /\ Runs(items, states[n + 1], states[n])
      /\ Len(compilers) = states[n + 1].function
      /\ Meets(compilers[Len(compilers)], states[n + 1])
      /\ states[n + 1].function # states[n].function =>
           Meets(compilers[states[n].function], Awaited(items, states[n]))
  BY <1>2, <1>3, WaitsBelow
<1>5. /\ states \in [Nat -> State] /\ 1 <= states[n].function /\ states[n].function \in Nat
      /\ states[n].function <= states[n + 1].function /\ states[n + 1].function \in Nat
  <2>1. Lower(states, rules, compilers)
    BY <1>1 DEF Waits
  <2>2. n \in 0..Len(rules) /\ n + 1 \in Nat
    BY <1>2
  <2>3. QED
    BY <1>1, <1>2, <2>1, <2>2, LowerFunctions
<1>6. Len(compilers) \in Nat \ {0}
  BY <1>4, <1>5
<1>7. Cur = compilers[Len(compilers)] /\ Cur \in CompilerRecord
  BY <1>1, <1>6 DEF Cur, Last
<1> HIDE DEF n
<1>8. states[n] \in State /\ states[n + 1] \in State
  BY <1>2, <1>5
<1>9. now = states[n + 1] /\ after = states[n]
  BY <1>1, <1>2
<1>10. QED
  BY <1>2, <1>4, <1>5, <1>6, <1>7, <1>8, <1>9 DEF Lists

LEMMA LastChanged ==
  ASSUME compilers \in Seq(CompilerRecord), Len(compilers) \in Nat \ {0},
         NEW c \in CompilerRecord, compilers' = WithLast(c)
  PROVE  /\ compilers' \in Seq(CompilerRecord) /\ Len(compilers') = Len(compilers)
         /\ \A i \in 1..(Len(compilers) - 1) : compilers'[i] = compilers[i]
         /\ compilers'[Len(compilers)] = c
BY DEF WithLast

LEMMA Continued ==
  ASSUME NEW states, NEW items, NEW now, NEW after, Innermost(states, items, now, after),
         NEW new, NEW next \in State, NEW ds,
         Runs(new, next, after), next.function = now.function,
         next.function # after.function => Last(new) = Last(items),
         Len(ds) = Len(compilers), \A i \in 1..(Len(compilers) - 1) : ds[i] = compilers[i],
         Meets(ds[Len(compilers)], next)
  PROVE  LET rs == IF new = <<>> THEN Front(rules) ELSE Append(Front(rules), new)
         IN  \E ss : Waits(ss, rs, ds) /\ ss[Len(rs)] = next
<1> DEFINE All == Lists \cup {new}
           fs == Front(rules)
           n == Len(fs)
           ss == [states EXCEPT ![n + 1] = next]
<1>1. /\ rules \in Seq(Lists) /\ rules # <<>> /\ items = Last(rules)
      /\ Waits(states, rules, compilers) /\ now = states[Len(rules)]
      /\ after = states[Len(rules) - 1]
  BY DEF Innermost
<1>2. /\ fs \in Seq(Lists) /\ items \in Lists /\ rules = Append(fs, items)
      /\ n = Len(rules) - 1 /\ Len(rules) \in Nat \ {0}
  BY <1>1, FrontLast
<1>3. n \in Nat /\ n + 1 = Len(rules)
  BY <1>2
<1>4. fs \in Seq(All) /\ items \in All /\ new \in All
  <2> HIDE DEF fs
  <2>1. QED
    BY <1>2
<1>5. Waits(states, Append(fs, items), compilers)
  BY <1>1, <1>2
<1>6. states \in [Nat -> State] /\ after = states[n] /\ now = states[n + 1]
  BY <1>1, <1>3, <1>5 DEF Waits, Lower
<1> HIDE DEF All, fs
<1>7. Waits(ss, Append(fs, new), ds)
  BY <1>4, <1>5, <1>6, WaitsGo
<1>8. ss[n + 1] = next /\ ss[n] = after /\ Len(Append(fs, new)) = n + 1
  BY <1>3, <1>4, <1>6
<1>9. CASE new = <<>>
  <2>1. next = after
    BY <1>9, NothingLeft
  <2>2. ss[n + 1] = ss[n]
    BY <1>8, <2>1
  <2> HIDE DEF ss
  <2>3. Waits(ss, fs, ds)
    BY <1>4, <1>7, <2>2, WaitsPop
  <2>4. QED
    BY <1>8, <1>9, <2>1, <2>3 DEF fs
<1>10. CASE new # <<>>
  <2> HIDE DEF ss
  <2>1. QED
    BY <1>7, <1>8, <1>10 DEF fs
<1>11. QED
  BY <1>9, <1>10

LEMMA LastOfFront ==
  ASSUME NEW S, rules \in Seq(S), rules # <<>>, BelowSettled
  PROVE  \A k \in 1..Len(Front(rules)) : Settled(Front(rules)[k])
<1>1. /\ Front(rules) \in Seq(S) /\ Len(Front(rules)) = Len(rules) - 1
      /\ \A i \in 1..(Len(rules) - 1) : Front(rules)[i] = rules[i]
  BY FrontLast
<1>2. \A k \in 1..Len(Front(rules)) : Settled(Front(rules)[k])
  BY <1>1 DEF BelowSettled
<1>3. QED
  BY <1>2

\* The settled rules below, after a step that leaves them.
LEMMA SettledAgain ==
  ASSUME NEW S, NEW rs \in Seq(S), \A k \in 1..Len(rs) : Settled(rs[k]), NEW new
  PROVE  /\ rules' = rs => BelowSettled' /\ BraceAwaited'
         /\ rules' = Append(rs, new) /\ (new = Block3 => AtBrace') => BelowSettled' /\ BraceAwaited'
         /\ Settled(new) => \A k \in 1..Len(Append(rs, new)) : Settled(Append(rs, new)[k])
<1> DEFINE All == S \cup {new}
<1>1. rs \in Seq(All) /\ new \in All
  OBVIOUS
<1> HIDE DEF All
<1>2. \A k \in 1..(Len(rs) - 1) : k \in 1..Len(rs)
  OBVIOUS
<1>3. rs # <<>> => Last(rs) = rs[Len(rs)] /\ Len(rs) \in 1..Len(rs)
  <2>1. rs # <<>> => Len(rs) \in Nat \ {0} /\ Last(rs) = rs[Len(rs)]
    BY FrontLast
  <2>2. QED
    BY <2>1
<1>4. CASE rules' = rs
  <2>1. BelowSettled'
    BY <1>2, <1>4 DEF BelowSettled, Settled
  <2>2. rs # <<>> => Last(rs) # Block3
    BY <1>3 DEF Settled
  <2>3. QED
    BY <1>4, <2>1, <2>2 DEF BraceAwaited
<1>5. LET rt == Append(rs, new)
      IN  /\ Len(rt) = Len(rs) + 1 /\ rt[Len(rs) + 1] = new /\ \A k \in 1..Len(rs) : rt[k] = rs[k]
          /\ Last(rt) = new
  <2>1. \A T : \A t \in Seq(T), x \in T : Last(Append(t, x)) = x
    BY DEF Last
  <2>2. QED
    BY <1>1, <2>1
<1>6. CASE rules' = Append(rs, new) /\ (new = Block3 => AtBrace')
  <2>1. Len(rules') - 1 = Len(rs)
    BY <1>5, <1>6
  <2>2. BelowSettled'
    BY <1>5, <1>6, <2>1 DEF BelowSettled, Settled
  <2>3. QED
    BY <1>5, <1>6, <2>2 DEF BraceAwaited
<1>7. ASSUME Settled(new), NEW k \in 1..Len(Append(rs, new))
      PROVE  Settled(Append(rs, new)[k])
  <2>1. k \in 1..Len(rs) \/ k = Len(rs) + 1
    BY <1>5
  <2>2. QED
    BY <1>5, <1>7, <2>1
<1>8. QED
  BY <1>4, <1>6, <1>7

\* The rule goes on, with a change of the compiler it is about or without.
LEMMA GoHolds ==
  ASSUME NEW states, NEW items, NEW now, NEW after, Innermost(states, items, now, after),
         NEW new, NEW next \in State, NEW c \in CompilerRecord,
         Go(new), compilers' = WithLast(c),
         Runs(new, next, after), next.function = now.function, Meets(c, next),
         next.function # after.function => Last(new) = Last(items),
         new = Block3 => AtBrace'
  PROVE  Held'
<1>1. /\ compilers \in Seq(CompilerRecord) /\ Len(compilers) \in Nat \ {0}
      /\ rules \in Seq(Lists) /\ rules # <<>> /\ BelowSettled
  BY InnermostFacts DEF Innermost
<1>2. /\ compilers' \in Seq(CompilerRecord) /\ Len(compilers') = Len(compilers)
      /\ \A i \in 1..(Len(compilers) - 1) : compilers'[i] = compilers[i]
      /\ compilers'[Len(compilers)] = c
  BY <1>1, LastChanged
<1>3. PICK ss : Waits(ss, IF new = <<>> THEN Front(rules) ELSE Append(Front(rules), new), compilers')
  BY <1>2, Continued
<1>4. Waits(ss, rules', compilers')
  BY <1>3 DEF Go
<1>5. \E ts : Waits(ts, rules', compilers')
  BY <1>4
<1>6. Front(rules) \in Seq(Lists) /\ \A k \in 1..Len(Front(rules)) : Settled(Front(rules)[k])
  BY <1>1, FrontLast, LastOfFront
<1>7. BelowSettled' /\ BraceAwaited'
  BY <1>6, SettledAgain DEF Go
<1>8. QED
  BY <1>2, <1>5, <1>7 DEF Held

LEMMA LastSame ==
  ASSUME compilers \in Seq(CompilerRecord), Len(compilers) \in Nat \ {0}
  PROVE  WithLast(Cur) = compilers
<1>1. Cur = compilers[Len(compilers)]
  BY DEF Cur, Last
<1>2. QED
  BY <1>1 DEF WithLast

LEMMA GoSame ==
  ASSUME NEW states, NEW items, NEW now, NEW after, Innermost(states, items, now, after),
         NEW new, Go(new), compilers' = compilers, Runs(new, now, after),
         now.function # after.function => Last(new) = Last(items),
         new = Block3 => AtBrace'
  PROVE  Held'
<1>1. /\ compilers \in Seq(CompilerRecord) /\ Len(compilers) \in Nat \ {0}
      /\ now \in State /\ Cur \in CompilerRecord /\ Meets(Cur, now)
  BY InnermostFacts DEF Innermost
<1>2. compilers' = WithLast(Cur)
  BY <1>1, LastSame
<1>3. QED
  BY <1>1, <1>2, GoHolds

\* The rule returns.
LEMMA ReturnHolds ==
  ASSUME NEW states, NEW items, NEW now, NEW after, Innermost(states, items, now, after),
         Return, compilers' = compilers, now = after
  PROVE  Held'
<1>1. Go(<<>>)
  BY DEF Go, Return
<1>2. Runs(<<>>, now, after)
  <2>1. <<>> \in Seq(OperandPart)
    OBVIOUS
  <2>2. QED
    BY <2>1 DEF Runs
<1>3. <<>> # Block3
  BY DEF Block3
<1>4. QED
  BY <1>1, <1>2, <1>3, GoSame

\* Another rule is called by one that goes on with the same item, or with the next.
LEMMA PushHolds ==
  ASSUME NEW states, NEW items, NEW now, NEW after, Innermost(states, items, now, after),
         NEW new, rules' = Append(rules, new), compilers' = compilers, Runs(new, now, now),
         Settled(items), new # Block3
  PROVE  Held'
<1>1. /\ rules \in Seq(Lists) /\ rules # <<>> /\ BelowSettled /\ Waits(states, rules, compilers)
      /\ now = states[Len(rules)] /\ items = Last(rules) /\ compilers \in Seq(CompilerRecord)
  BY DEF Innermost
<1> DEFINE All == Lists \cup {new}
<1>2. rules \in Seq(All) /\ new \in All
  BY <1>1
<1> HIDE DEF All
<1>3. Waits([states EXCEPT ![Len(rules) + 1] = states[Len(rules)]], Append(rules, new), compilers)
  BY <1>1, <1>2, WaitsPush
<1>4. \E ss : Waits(ss, rules', compilers')
  BY <1>3
<1>5. \A k \in 1..Len(rules) : Settled(rules[k])
  <2>1. Len(rules) \in Nat \ {0} /\ Last(rules) = rules[Len(rules)]
    BY <1>1, FrontLast
  <2>2. \A k \in 1..Len(rules) : k \in 1..(Len(rules) - 1) \/ k = Len(rules)
    BY <2>1
  <2>3. QED
    BY <1>1, <2>1, <2>2 DEF BelowSettled
<1>6. BelowSettled' /\ BraceAwaited'
  <2>1. rules \in Seq(Lists)
    BY <1>1
  <2>2. rules' = Append(rules, new) /\ (new = Block3 => AtBrace')
    OBVIOUS
  <2>3. QED
    BY <1>5, <2>1, <2>2, SettledAgain
<1>7. QED
  BY <1>1, <1>4, <1>6 DEF Held

LEMMA CallHolds ==
  ASSUME NEW states, NEW items, NEW now, NEW after, Innermost(states, items, now, after),
         NEW new, NEW rest, rest = Rest, Call(new), compilers' = compilers, Runs(rest, now, after),
         now.function # after.function => Last(rest) = Last(items), Settled(rest),
         Runs(new, now, now), new # Block3
  PROVE  Held'
<1> DEFINE rs == IF rest = <<>> THEN Front(rules) ELSE Append(Front(rules), rest)
<1>1. /\ rules \in Seq(Lists) /\ rules # <<>> /\ BelowSettled
      /\ compilers \in Seq(CompilerRecord) /\ Len(compilers) \in Nat \ {0} /\ now \in State
      /\ Meets(compilers[Len(compilers)], now)
  BY InnermostFacts DEF Innermost
<1>2. PICK ss : Waits(ss, rs, compilers) /\ ss[Len(rs)] = now
  BY <1>1, Continued
<1>3. Front(rules) \in Seq(Lists) /\ \A k \in 1..Len(Front(rules)) : Settled(Front(rules)[k])
  BY <1>1, FrontLast, LastOfFront
<1> DEFINE All == Lists \cup {new, rest}
<1>4. rs \in Seq(All) /\ new \in All
  <2>1. Front(rules) \in Seq(All) /\ rest \in All
    <3> DEFINE fs == Front(rules)
    <3> HIDE DEF fs
    <3>1. fs \in Seq(Lists)
      BY <1>3 DEF fs
    <3>2. fs \in Seq(All)
      BY <3>1
    <3>3. QED
      BY <3>2 DEF fs
  <2> HIDE DEF All
  <2>2. QED
    <3>1. new \in All
      BY DEF All
    <3>2. Append(Front(rules), rest) \in Seq(All)
      BY <2>1
    <3>3. QED
      BY <2>1, <3>1, <3>2
<1>5. \A k \in 1..Len(rs) : Settled(rs[k])
  BY <1>3, SettledAgain
<1>6. rules' = Append(rs, new)
  BY DEF Call
<1> HIDE DEF rs, All
<1>7. Waits([ss EXCEPT ![Len(rs) + 1] = ss[Len(rs)]], Append(rs, new), compilers)
  BY <1>2, <1>4, WaitsPush
<1>8. \E ts : Waits(ts, rules', compilers')
  BY <1>6, <1>7
<1>9. BelowSettled' /\ BraceAwaited'
  BY <1>4, <1>5, <1>6, SettledAgain
<1>10. QED
  BY <1>1, <1>8, <1>9 DEF Held

\* A function is begun ...
LEMMA EnterHolds ==
  ASSUME NEW states, NEW items, NEW now, NEW after, Innermost(states, items, now, after),
         NEW new, NEW next \in State, NEW c \in CompilerRecord,
         Go(new), new # <<>>, compilers' = Append(compilers, c),
         now.function = after.function, Runs(new, next, after),
         next.function = after.function + 1, Meets(Cur, Awaited(new, after)), Meets(c, next),
         new # Block3
  PROVE  Held'
<1> DEFINE All == Lists \cup {new}
           fs == Front(rules)
           n == Len(fs)
<1>1. /\ rules \in Seq(Lists) /\ rules # <<>> /\ items = Last(rules) /\ BelowSettled
      /\ Waits(states, rules, compilers) /\ now = states[Len(rules)]
      /\ after = states[Len(rules) - 1]
  BY DEF Innermost
<1>2. /\ compilers \in Seq(CompilerRecord) /\ Len(compilers) \in Nat \ {0}
      /\ Cur = compilers[Len(compilers)]
  BY InnermostFacts DEF Innermost
<1>3. /\ fs \in Seq(Lists) /\ items \in Lists /\ rules = Append(fs, items)
      /\ n = Len(rules) - 1 /\ Len(rules) \in Nat \ {0}
  BY <1>1, FrontLast
<1>4. n \in Nat /\ n + 1 = Len(rules)
  BY <1>3
<1>5. fs \in Seq(All) /\ items \in All /\ new \in All
  <2> HIDE DEF fs
  <2>1. QED
    BY <1>3
<1>6. Waits(states, Append(fs, items), compilers) /\ after = states[n] /\ now = states[n + 1]
  BY <1>1, <1>3, <1>4
<1>7. /\ compilers' \in Seq(CompilerRecord) /\ Len(compilers') = Len(compilers) + 1
      /\ \A i \in 1..Len(compilers) : compilers'[i] = compilers[i]
      /\ compilers'[Len(compilers')] = c
  BY <1>2
<1>8. rules' = Append(fs, new)
  BY DEF Go
<1>9. \A k \in 1..Len(fs) : Settled(fs[k])
  BY <1>1, LastOfFront
<1> HIDE DEF All, fs
<1>10. Waits([states EXCEPT ![n + 1] = next], Append(fs, new), compilers')
  <2>1. /\ states[n + 1].function = states[n].function /\ Runs(new, next, states[n])
        /\ next.function = states[n].function + 1
        /\ Meets(compilers[Len(compilers)], Awaited(new, states[n]))
    BY <1>2, <1>6
  <2>2. Meets(compilers'[Len(compilers')], next)
    BY <1>7
  <2>3. Len(compilers') = Len(compilers) + 1 /\ \A i \in 1..Len(compilers) : compilers'[i] = compilers[i]
    BY <1>7
  <2>4. Waits(states, Append(fs, items), compilers)
    BY <1>6
  <2>5. QED
    BY <1>5, <2>1, <2>2, <2>3, <2>4, WaitsEnter
<1>11. \E ss : Waits(ss, rules', compilers')
  BY <1>8, <1>10
<1>12. BelowSettled' /\ BraceAwaited'
  <2>1. fs \in Seq(Lists) /\ (rules' = Append(fs, new) /\ (new = Block3 => AtBrace'))
    BY <1>3, <1>8
  <2>2. QED
    BY <1>9, <2>1, SettledAgain
<1>13. QED
  BY <1>7, <1>11, <1>12 DEF Held

\* ... and left.
LEMMA LeaveHolds ==
  ASSUME NEW states, NEW items, NEW now, NEW after, Innermost(states, items, now, after),
         NEW new, NEW next \in State,
         Go(new), compilers' = Front(compilers),
         now.function = after.function + 1, Runs(new, next, after),
         next.function = after.function,
         \A c : Meets(c, Awaited(items, after)) => Meets(c, next),
         new # Block3
  PROVE  Held'
<1> DEFINE All == Lists \cup {new}
           fs == Front(rules)
           n == Len(fs)
           ss == [states EXCEPT ![n + 1] = next]
<1>1. /\ rules \in Seq(Lists) /\ rules # <<>> /\ items = Last(rules) /\ BelowSettled
      /\ Waits(states, rules, compilers) /\ now = states[Len(rules)]
      /\ after = states[Len(rules) - 1]
  BY DEF Innermost
<1>2. compilers \in Seq(CompilerRecord) /\ compilers # <<>> /\ Len(compilers) = now.function
  BY InnermostFacts DEF Innermost
<1>3. /\ fs \in Seq(Lists) /\ items \in Lists /\ rules = Append(fs, items)
      /\ n = Len(rules) - 1 /\ Len(rules) \in Nat \ {0}
  BY <1>1, FrontLast
<1>4. n \in Nat /\ n + 1 = Len(rules)
  BY <1>3
<1>5. fs \in Seq(All) /\ items \in All /\ new \in All
  <2> HIDE DEF fs
  <2>1. QED
    BY <1>3
<1>6. Waits(states, Append(fs, items), compilers) /\ after = states[n] /\ now = states[n + 1]
  BY <1>1, <1>3, <1>4
<1>7. /\ compilers' \in Seq(CompilerRecord) /\ Len(compilers') = Len(compilers) - 1
      /\ \A i \in 1..Len(compilers') : compilers'[i] = compilers[i]
  <2>1. /\ Front(compilers) \in Seq(CompilerRecord) /\ Len(Front(compilers)) = Len(compilers) - 1
        /\ \A i \in 1..(Len(compilers) - 1) : Front(compilers)[i] = compilers[i]
    BY <1>2, FrontLast
  <2>2. QED
    BY <2>1
<1>8. rules' = IF new = <<>> THEN fs ELSE Append(fs, new)
  BY DEF Go
<1>9. \A k \in 1..Len(fs) : Settled(fs[k])
  BY <1>1, LastOfFront
<1>10. states \in [Nat -> State]
  BY <1>6 DEF Waits, Lower
<1> HIDE DEF All, fs
<1>11. Waits(ss, Append(fs, new), compilers')
  BY <1>5, <1>6, <1>7, WaitsLeave
<1>12. ss[n + 1] = next /\ ss[n] = after
  BY <1>4, <1>6, <1>10
<1> HIDE DEF ss
<1>13. \E ts : Waits(ts, rules', compilers')
  <2>1. CASE new = <<>>
    <3>1. next = after
      BY <2>1, NothingLeft
    <3>2. Waits(ss, fs, compilers')
      BY <1>5, <1>11, <1>12, <3>1, WaitsPop
    <3>3. QED
      BY <1>8, <2>1, <3>2
  <2>2. CASE new # <<>>
    BY <1>8, <1>11, <2>2
  <2>3. QED
    BY <2>1, <2>2
<1>14. BelowSettled' /\ BraceAwaited'
  <2>1. rules' = fs \/ rules' = Append(fs, new)
    BY <1>8
  <2>2. fs \in Seq(Lists)
    BY <1>3
  <2>3. CASE rules' = fs
    BY <1>9, <2>2, <2>3, SettledAgain
  <2>4. CASE rules' = Append(fs, new)
    <3>1. rules' = Append(fs, new) /\ (new = Block3 => AtBrace') => BelowSettled' /\ BraceAwaited'
      BY <1>9, <2>2, SettledAgain
    <3>2. QED
      BY <2>4, <3>1
  <2>5. QED
    BY <2>1, <2>3, <2>4
<1>15. QED
  BY <1>7, <1>13, <1>14 DEF Held

LEMMA SameHolds ==
  ASSUME Held, rules' = rules, compilers' = compilers, BraceAwaited'
  PROVE  Held'
BY DEF Held, BelowSettled, Settled

-------------------------------------------------------------------------------
(***************************************************************************)
(* The states a rule goes through, and the compilers that meet them.       *)
(***************************************************************************)
LEMMA StateFields ==
  ASSUME NEW s \in State
  PROVE  /\ s.function \in Nat /\ s.depth \in Nat /\ s.class \in BOOLEAN
         /\ Deeper(s) \in State /\ Deeper(s).function = s.function
         /\ Deeper(s).depth = s.depth + 1 /\ Deeper(s).locals = s.locals
         /\ Deeper(s).class = s.class
         /\ Marking(s) \in State /\ Marking(s).function = s.function
         /\ Marking(s).depth = s.depth /\ Marking(s).locals = "declared"
         /\ Marking(s).class = s.class
         /\ Marked(s) \in State /\ Marked(s).function = s.function
         /\ Marked(s).depth = s.depth /\ Marked(s).locals = "fresh"
         /\ Marked(s).class = s.class
         /\ Entered(s) \in State /\ Entered(s).function = s.function
         /\ Entered(s).depth = s.depth /\ Entered(s).locals = s.locals
         /\ Entered(s).class = (s.function = 1)
<1>1. /\ s.function \in Nat /\ s.depth \in Nat /\ s.class \in BOOLEAN
      /\ s.locals \in {"tidy", "declared", "fresh"} /\ s.depth + 1 \in Nat
  BY DEF State
<1>2. \A d \in Nat : LET t == [s EXCEPT !.depth = d]
                   IN  /\ t \in State /\ t.function = s.function /\ t.depth = d
                       /\ t.locals = s.locals /\ t.class = s.class
  BY DEF State
<1>3. \A l \in {"tidy", "declared", "fresh"} :
        LET t == [s EXCEPT !.locals = l]
        IN  /\ t \in State /\ t.function = s.function /\ t.depth = s.depth
            /\ t.locals = l /\ t.class = s.class
  BY DEF State
<1>4. \A b \in BOOLEAN : LET t == [s EXCEPT !.class = b]
                       IN  /\ t \in State /\ t.function = s.function /\ t.depth = s.depth
                           /\ t.locals = s.locals /\ t.class = b
  BY DEF State
<1>5. /\ Deeper(s) \in State /\ Deeper(s).function = s.function
      /\ Deeper(s).depth = s.depth + 1 /\ Deeper(s).locals = s.locals
      /\ Deeper(s).class = s.class
  BY <1>1, <1>2 DEF Deeper
<1>6. /\ Marking(s) \in State /\ Marking(s).function = s.function
      /\ Marking(s).depth = s.depth /\ Marking(s).locals = "declared"
      /\ Marking(s).class = s.class
  BY <1>3 DEF Marking
<1>7. /\ Marked(s) \in State /\ Marked(s).function = s.function
      /\ Marked(s).depth = s.depth /\ Marked(s).locals = "fresh"
      /\ Marked(s).class = s.class
  BY <1>3 DEF Marked
<1>8. /\ Entered(s) \in State /\ Entered(s).function = s.function
      /\ Entered(s).depth = s.depth /\ Entered(s).locals = s.locals
      /\ Entered(s).class = (s.function = 1)
  <2>1. (s.function = 1) \in BOOLEAN
    OBVIOUS
  <2>2. QED
    BY <1>4, <2>1 DEF Entered
<1>9. QED
  BY <1>1, <1>5, <1>6, <1>7, <1>8

LEMMA CallingFields ==
  ASSUME NEW s \in State
  PROVE  LET t == Calling(s, "tidy")
         IN  /\ t \in State /\ t.function = s.function + 1 /\ t.depth = 1
             /\ t.locals = "tidy" /\ ~t.class /\ Outside(t)
             /\ Calling(s, "declared") = Marking(t)
<1>1. s.function \in Nat /\ s.function + 1 \in Nat
  BY DEF State
<1>2. \A n, l : LET t == [function |-> n, depth |-> 1, locals |-> l, class |-> FALSE]
               IN  t.function = n /\ t.depth = 1 /\ t.locals = l /\ t.class = FALSE
  OBVIOUS
<1>3. 1 \in Nat /\ FALSE \in BOOLEAN
  OBVIOUS
<1>4. \A n \in Nat, l \in {"tidy", "declared", "fresh"} :
        [function |-> n, depth |-> 1, locals |-> l, class |-> FALSE] \in State
  BY <1>3, Zenon DEF State
<1>5. \A t, u \in State :
        /\ t.function = u.function /\ t.depth = u.depth /\ t.locals = u.locals
        /\ t.class = u.class
        => t = u
  BY DEF State
<1> DEFINE t == Calling(s, "tidy")
           u == Calling(s, "declared")
<1>6. /\ t \in State /\ t.function = s.function + 1 /\ t.depth = 1 /\ t.locals = "tidy"
      /\ t.class = FALSE
  BY <1>1, <1>2, <1>4 DEF Calling
<1>7. /\ u \in State /\ u.function = s.function + 1 /\ u.depth = 1 /\ u.locals = "declared"
      /\ u.class = FALSE
  BY <1>1, <1>2, <1>4 DEF Calling
<1> HIDE DEF t, u
<1>8. /\ Marking(t) \in State /\ Marking(t).function = t.function /\ Marking(t).depth = t.depth
      /\ Marking(t).locals = "declared" /\ Marking(t).class = t.class
  BY <1>6, StateFields
<1>9. u = Marking(t)
  BY <1>5, <1>6, <1>7, <1>8
<1>10. Outside(t)
  BY <1>6 DEF Outside
<1>11. QED
  BY <1>6, <1>9, <1>10 DEF t, u

LEMMA MeetsDeeper ==
  ASSUME NEW c \in CompilerRecord, NEW s \in State, Meets(c, s), s.locals = "tidy"
  PROVE  BeginScope(c) \in CompilerRecord /\ Meets(BeginScope(c), Deeper(s))
<1>1. c.current_scope_depth = s.depth /\ (s.function = 1 /\ c.within_class => s.class) /\ Tidy(c)
  BY DEF Meets
<1>2. /\ BeginScope(c) \in CompilerRecord /\ Tidy(BeginScope(c))
      /\ BeginScope(c).current_scope_depth = c.current_scope_depth + 1
      /\ BeginScope(c).within_class = c.within_class
  BY <1>1, BeginScopeTidy
<1>3. QED
  BY <1>1, <1>2, StateFields DEF Meets

LEMMA MeetsPop ==
  ASSUME NEW c \in CompilerRecord, NEW s \in State, Meets(c, Deeper(s)), s.locals = "tidy"
  PROVE  PopScope(c) \in CompilerRecord /\ Meets(PopScope(c), s)
<1>1. /\ c.current_scope_depth = s.depth + 1 /\ (s.function = 1 /\ c.within_class => s.class)
      /\ Tidy(c) /\ s.depth \in Nat
  BY StateFields DEF Meets
<1>2. c.current_scope_depth > 0 /\ s.depth + 1 - 1 = s.depth
  BY <1>1
<1>3. /\ PopScope(c) \in CompilerRecord /\ Tidy(PopScope(c))
      /\ PopScope(c).current_scope_depth = c.current_scope_depth - 1
      /\ PopScope(c).within_class = c.within_class
  BY <1>1, <1>2, PopScopeTidy
<1>4. QED
  BY <1>1, <1>2, <1>3 DEF Meets

LEMMA MeetsDeclared ==
  ASSUME NEW c \in CompilerRecord, NEW s \in State, Meets(c, s), s.locals = "tidy",
         NEW name \in Word
  PROVE  /\ DeclareVariable(c, name) \in CompilerRecord
         /\ Meets(DeclareVariable(c, name), Marking(s))
         /\ Redeclares(c, name) => Meets(c, Marking(s))
<1>1. c.current_scope_depth = s.depth /\ (s.function = 1 /\ c.within_class => s.class) /\ Tidy(c)
  BY DEF Meets
<1>2. LET d == DeclareVariable(c, name)
      IN  /\ d \in CompilerRecord /\ Declared(d)
          /\ d.current_scope_depth = c.current_scope_depth /\ d.within_class = c.within_class
  BY <1>1, DeclareTidy
<1>3. Redeclares(c, name) => Declared(c)
  BY <1>1, RedeclaredFresh DEF Declared
<1>4. QED
  BY <1>1, <1>2, <1>3, StateFields DEF Meets

LEMMA MeetsMarked ==
  ASSUME NEW c \in CompilerRecord, NEW s \in State, Meets(c, Marking(s)), s.locals = "tidy"
  PROVE  /\ MarkInitialized(c) \in CompilerRecord /\ Meets(MarkInitialized(c), Marked(s))
         /\ Meets(MarkInitialized(c), s)
<1>1. /\ c.current_scope_depth = s.depth /\ (s.function = 1 /\ c.within_class => s.class)
      /\ Declared(c)
  BY StateFields DEF Meets
<1>2. LET d == MarkInitialized(c)
      IN  /\ d \in CompilerRecord /\ Fresh(d)
          /\ d.current_scope_depth = c.current_scope_depth /\ d.within_class = c.within_class
  BY <1>1, MarkFresh
<1>3. Tidy(MarkInitialized(c))
  BY <1>2 DEF Fresh
<1>4. QED
  BY <1>1, <1>2, <1>3, StateFields DEF Meets

\* A marked local may be marked again.
LEMMA MeetsAgain ==
  ASSUME NEW c, NEW s \in State, Meets(c, Marked(s))
  PROVE  Meets(c, Marking(s)) /\ (s.locals = "tidy" => Meets(c, s))
<1>1. /\ c.current_scope_depth = s.depth /\ (s.function = 1 /\ c.within_class => s.class)
      /\ Fresh(c)
  BY StateFields DEF Meets
<1>2. Tidy(c) /\ Declared(c)
  BY <1>1 DEF Fresh, Declared
<1>3. QED
  BY <1>1, <1>2, StateFields DEF Meets

LEMMA MeetsClass ==
  ASSUME NEW c \in CompilerRecord, NEW s \in State, s.locals = "tidy"
  PROVE  /\ LET d == [c EXCEPT !.within_class = TRUE]
            IN  Meets(c, s) => d \in CompilerRecord /\ Meets(d, Entered(s))
         /\ LET d == [c EXCEPT !.within_class = FALSE]
            IN  Meets(c, Entered(s)) => d \in CompilerRecord /\ Meets(d, s)
<1>1. ASSUME NEW b \in BOOLEAN
      PROVE  LET d == [c EXCEPT !.within_class = b]
             IN  /\ d \in CompilerRecord /\ d.within_class = b /\ (Tidy(c) => Tidy(d))
                 /\ d.current_scope_depth = c.current_scope_depth
  <2> DEFINE d == [c EXCEPT !.within_class = b]
  <2>1. /\ d \in CompilerRecord /\ d.within_class = b /\ d.locals = c.locals
        /\ d.current_scope_depth = c.current_scope_depth
    BY DEF CompilerRecord
  <2> HIDE DEF d
  <2>2. Tidy(c) => Tidy(d)
    BY <2>1 DEF Tidy, TidyTo, DepthAt
  <2>3. QED
    BY <2>1, <2>2 DEF d
<1> DEFINE d == [c EXCEPT !.within_class = TRUE]
           e == [c EXCEPT !.within_class = FALSE]
<1>2. /\ d \in CompilerRecord /\ d.within_class = TRUE /\ (Tidy(c) => Tidy(d))
      /\ d.current_scope_depth = c.current_scope_depth
  BY <1>1
<1>3. /\ e \in CompilerRecord /\ e.within_class = FALSE /\ (Tidy(c) => Tidy(e))
      /\ e.current_scope_depth = c.current_scope_depth
  BY <1>1
<1> HIDE DEF d, e
<1>4. Meets(c, s) => Meets(d, Entered(s))
  BY <1>2, StateFields DEF Meets
<1>5. Meets(c, Entered(s)) => Meets(e, s)
  BY <1>3, StateFields DEF Meets
<1>6. QED
  BY <1>2, <1>3, <1>4, <1>5 DEF d, e

\* A function is begun in a scope of its own, with one local.
LEMMA MeetsCalled ==
  ASSUME NEW s \in State, s.function \in Nat \ {0}, NEW type \in FunctionType, NEW within \in BOOLEAN,
         NEW init \in BOOLEAN
  PROVE  LET c == [BeginScope(NewCompiler(type, within)) EXCEPT
                     !.function_type = IF init THEN "INITIALIZER" ELSE @]
         IN  c \in CompilerRecord /\ Meets(c, Calling(s, "tidy"))
<1> DEFINE c == [BeginScope(NewCompiler(type, within)) EXCEPT
                   !.function_type = IF init THEN "INITIALIZER" ELSE @]
           local == FirstLocal(type)
<1>1. local \in LocalRecord /\ local.local_scope_depth = 0
  <2>1. \A name \in LocalName : Local(name, 0) \in LocalRecord /\ Local(name, 0).local_scope_depth = 0
    BY DEF Local, LocalRecord
  <2>2. \E name \in LocalName : local = Local(name, 0)
    <3>1. "this" \in LocalName /\ "" \in LocalName
      BY Zenon DEF LocalName
    <3>2. QED
      BY <3>1, Zenon DEF FirstLocal
  <2>3. QED
    BY <2>1, <2>2
<1> HIDE DEF local
<1>2. /\ c.current_scope_depth = 1 /\ c.locals = <<local>> /\ c.function_type \in FunctionType
      /\ c.within_class = within
      /\ c = [function_type |-> c.function_type, within_class |-> within,
              current_scope_depth |-> 1, locals |-> <<local>>]
  <2> DEFINE new == NewCompiler(type, within)
  <2>1. new = [function_type |-> type, within_class |-> within,
               current_scope_depth |-> 0, locals |-> <<local>>]
    BY DEF NewCompiler, local
  <2>2. BeginScope(new) = [function_type |-> type, within_class |-> within,
                           current_scope_depth |-> 1, locals |-> <<local>>]
    BY <2>1 DEF BeginScope
  <2> HIDE DEF new
  <2>3. PICK t \in FunctionType : t = IF init THEN "INITIALIZER" ELSE type
    BY Zenon DEF FunctionType
  <2>4. c = [function_type |-> t, within_class |-> within, current_scope_depth |-> 1,
             locals |-> <<local>>]
    BY <2>2, <2>3 DEF new
  <2> HIDE DEF c
  <2>5. QED
    BY <2>3, <2>4
<1> HIDE DEF c
<1>3. c \in CompilerRecord
  <2>1. <<local>> \in Seq(LocalRecord)
    BY <1>1
  <2> DEFINE locals == <<local>>
  <2> HIDE DEF locals
  <2>2. \A t \in FunctionType, ls \in Seq(LocalRecord) :
          [function_type |-> t, within_class |-> within, current_scope_depth |-> 1, locals |-> ls]
            \in CompilerRecord
    BY DEF CompilerRecord
  <2>3. QED
    BY <1>2, <2>1, <2>2
<1>4. Tidy(c)
  <2>1. Len(c.locals) = 1 /\ DepthAt(c, 1) = 0
    BY <1>1, <1>2 DEF DepthAt
  <2>2. \A i, j \in 1..1 : ~(i < j)
    OBVIOUS
  <2>3. \A i \in 2..1 : FALSE
    OBVIOUS
  <2>4. QED
    BY <2>1, <2>2, <2>3 DEF Tidy, TidyTo
<1>5. s.function + 1 # 1
  OBVIOUS
<1>6. Meets(c, Calling(s, "tidy"))
  BY <1>2, <1>4, <1>5, CallingFields DEF Meets
<1>7. QED
  BY <1>3, <1>6 DEF c

-------------------------------------------------------------------------------
(***************************************************************************)
(* The items, one by one: which action deals with each, and what is left   *)
(* of a rule behind it.                                                    *)
(***************************************************************************)
LEMMA Fields ==
  /\ \A type, items, missing, again :
       LET t == Token(type, items, missing, again)
       IN  /\ t.op = "consume" /\ t.type = type /\ t.items = items /\ t.missing = missing
           /\ t.again = again
  /\ \A type, items :
       LET t == Unless(type, items) IN t.op = "unless" /\ t.type = type /\ t.items = items
  /\ \A name : Rule(name).op = "rule" /\ Rule(name).name = name
  /\ \A types, name :
       LET t == Until(types, name) IN t.op = "until" /\ t.types = types /\ t.name = name
  /\ \A level : Precedence(level).op = "precedence" /\ Infix(level).op = "infix"
  /\ \A b : Named(b).op = "named" /\ Named(b).can_assign = b
  /\ \A type : FunctionOf(type).op = "function" /\ FunctionOf(type).type = type
  /\ \A change : Compilers(change).op = "compiler" /\ Compilers(change).change = change
  /\ \A op : Do(op).op = op
<1>1. \A type, items, missing, again :
        LET t == Token(type, items, missing, again)
        IN  /\ t.op = "consume" /\ t.type = type /\ t.items = items /\ t.missing = missing
            /\ t.again = again
  BY DEF Token
<1>2. /\ \A type, items :
           LET t == Unless(type, items) IN t.op = "unless" /\ t.type = type /\ t.items = items
      /\ \A types, name :
           LET t == Until(types, name) IN t.op = "until" /\ t.types = types /\ t.name = name
  BY DEF Unless, Until
<1>3. /\ \A name : Rule(name).op = "rule" /\ Rule(name).name = name
      /\ \A level : Precedence(level).op = "precedence" /\ Infix(level).op = "infix"
      /\ \A b : Named(b).op = "named" /\ Named(b).can_assign = b
      /\ \A type : FunctionOf(type).op = "function" /\ FunctionOf(type).type = type
      /\ \A change : Compilers(change).op = "compiler" /\ Compilers(change).change = change
      /\ \A op : Do(op).op = op
  BY DEF Rule, Precedence, Infix, Named, FunctionOf, Compilers, Do
<1>4. QED
  BY <1>1, <1>2, <1>3

\* An item is dealt with by the action of its kind, while a source is read.  A number
\* alone has two ways to go.
LEMMA ActionOf ==
  ASSUME Parse, rules # <<>>
  PROVE  /\ status = "parsing"
         /\ Item.op = "consume" => Consume
         /\ Item.op = "rule" => EnterRule
         /\ Item.op = "until" => Loop
         /\ Item.op = "unless" => Choice
         /\ Item.op = "precedence" => ParsePrecedence \/ MisreadNumber
         /\ Item.op = "infix" => ParseInfix
         /\ Item.op = "named" => NamedVariable
         /\ Item.op = "this" => This
         /\ Item.op = "declare" => Declare
         /\ Item.op = "compiler" => ChangeCompiler
         /\ Item.op = "function" => EnterFunction
         /\ Item.op = "end function" => EndFunction
         /\ Item.op = "not in" => ForbidReturn
         /\ Item.op = "recover" => Recover
         /\ Item.op = "synchronize" => Synchronize
         /\ Item.op = "advance" => FirstAdvance
<1>1. ~EndSource
  BY DEF EndSource
<1>2. /\ (FirstAdvance => Item.op = "advance" /\ status = "parsing")
      /\ (Consume => Item.op = "consume" /\ status = "parsing")
      /\ (EnterRule => Item.op = "rule" /\ status = "parsing")
      /\ (Loop => Item.op = "until" /\ status = "parsing")
      /\ (Choice => Item.op = "unless" /\ status = "parsing")
      /\ (ParsePrecedence => Item.op = "precedence" /\ status = "parsing")
      /\ (MisreadNumber => Item.op = "precedence" /\ status = "parsing")
      /\ (ParseInfix => Item.op = "infix" /\ status = "parsing")
      /\ (NamedVariable => Item.op = "named" /\ status = "parsing")
      /\ (This => Item.op = "this" /\ status = "parsing")
      /\ (Declare => Item.op = "declare" /\ status = "parsing")
      /\ (ChangeCompiler => Item.op = "compiler" /\ status = "parsing")
      /\ (EnterFunction => Item.op = "function" /\ status = "parsing")
      /\ (EndFunction => Item.op = "end function" /\ status = "parsing")
      /\ (ForbidReturn => Item.op = "not in" /\ status = "parsing")
      /\ (Recover => Item.op = "recover" /\ status = "parsing")
      /\ (Synchronize => Item.op = "synchronize" /\ status = "parsing")
  BY Zenon DEF FirstAdvance, Consume, EnterRule, Loop, Choice, ParsePrecedence, MisreadNumber,
     ParseInfix, NamedVariable, This, Declare, ChangeCompiler, EnterFunction, EndFunction, ForbidReturn,
     Recover, Synchronize, Doing
<1>3. \/ FirstAdvance \/ Consume \/ EnterRule \/ Loop \/ Choice
      \/ ParsePrecedence \/ MisreadNumber \/ ParseInfix \/ NamedVariable \/ This
      \/ Declare \/ ChangeCompiler \/ EnterFunction \/ EndFunction \/ ForbidReturn
      \/ Recover \/ Synchronize
  BY <1>1, Zenon DEF Parse
<1>4. QED
  BY <1>2, <1>3, Zenon

LEMMA FunctionSteps ==
  /\ Head(Function1) = Optional("FUN", <<>>) /\ Tail(Function1) = Function2
  /\ Head(Function2) = ParseVariable(<<>>)
  /\ Tail(Function2) = Function4
  /\ Head(Function3) = Do("declare") /\ Tail(Function3) = Function4
  /\ Head(Function4) = Initialised /\ Tail(Function4) = Function5
  /\ Head(Function5) = FunctionOf("FUNCTION") /\ Tail(Function5) = <<Initialised>>
  /\ Head(Method1) = Require("IDENTIFIER") /\ Tail(Method1) = Method2
  /\ Head(Method2) = FunctionOf("METHOD") /\ Tail(Method2) = <<>>
  /\ Head(Variable1) = Optional("VAR", <<>>) /\ Tail(Variable1) = Variable2
  /\ Head(Variable2) = ParseVariable(VariableParts) /\ Tail(Variable2) = <<>>
  /\ Head(Variable3) = Do("declare") /\ Tail(Variable3) = VariableParts
<1>1. Head(Function1) = Optional("FUN", <<>>) /\ Tail(Function1) = Function2
  BY DEF Function1, Function2
<1>2. Head(Function2) = ParseVariable(<<>>) /\ Tail(Function2) = Function4
  BY DEF Function2, Function4
<1>3. Head(Function3) = Do("declare") /\ Tail(Function3) = Function4
  BY DEF Function3, Function4
<1>4. Head(Function4) = Initialised /\ Tail(Function4) = Function5
  BY DEF Function4, Function5
<1>5. Head(Function5) = FunctionOf("FUNCTION") /\ Tail(Function5) = <<Initialised>>
  BY DEF Function5
<1>6. Head(Method1) = Require("IDENTIFIER") /\ Tail(Method1) = Method2
  BY DEF Method1, Method2
<1>7. Head(Method2) = FunctionOf("METHOD") /\ Tail(Method2) = <<>>
  BY DEF Method2
<1>8. Head(Variable1) = Optional("VAR", <<>>) /\ Tail(Variable1) = Variable2
  BY DEF Variable1, Variable2
<1>9. Head(Variable2) = ParseVariable(VariableParts) /\ Tail(Variable2) = <<>>
  BY DEF Variable2
<1>10. Head(Variable3) = Do("declare") /\ Tail(Variable3) = VariableParts
  BY DEF Variable3, VariableParts
<1>11. QED
  BY <1>1, <1>2, <1>3, <1>4, <1>5, <1>6, <1>7, <1>8, <1>9, <1>10, Zenon

LEMMA HeadTail6 ==
  \A a, b, c, d, e, f :
    Head(<<a, b, c, d, e, f>>) = a /\ Tail(<<a, b, c, d, e, f>>) = <<b, c, d, e, f>>
OBVIOUS
LEMMA HeadTail7 ==
  \A a, b, c, d, e, f, g :
    Head(<<a, b, c, d, e, f, g>>) = a /\ Tail(<<a, b, c, d, e, f, g>>) = <<b, c, d, e, f, g>>
OBVIOUS
LEMMA HeadTail8 ==
  \A a, b, c, d, e, f, g, h :
    Head(<<a, b, c, d, e, f, g, h>>) = a /\ Tail(<<a, b, c, d, e, f, g, h>>) = <<b, c, d, e, f, g, h>>
OBVIOUS
LEMMA HeadTail9 ==
  \A a, b, c, d, e, f, g, h, i :
    Head(<<a, b, c, d, e, f, g, h, i>>) = a /\ Tail(<<a, b, c, d, e, f, g, h, i>>) = <<b, c, d, e, f, g, h, i>>
OBVIOUS
LEMMA HeadTail10 ==
  \A a, b, c, d, e, f, g, h, i, j :
    Head(<<a, b, c, d, e, f, g, h, i, j>>) = a /\ Tail(<<a, b, c, d, e, f, g, h, i, j>>) = <<b, c, d, e, f, g, h, i, j>>
OBVIOUS

LEMMA ClassSteps ==
  /\ Head(Class1) = Optional("CLASS", <<>>) /\ Tail(Class1) = Class2
  /\ Head(Class2) = Require("IDENTIFIER") /\ Tail(Class2) = Class3
  /\ Head(Class3) = Do("declare") /\ Tail(Class3) = Class4
  /\ Head(Class4) = Initialised /\ Tail(Class4) = Class5
  /\ Head(Class5) = Entering /\ Tail(Class5) = Class6
  /\ Head(Class6) = Named(FALSE) /\ Tail(Class6) = Class7
  /\ Head(Class7) = Expect("LEFT_BRACE") /\ Tail(Class7) = Class8
  /\ Head(Class8) = Methods /\ Tail(Class8) = Class9
  /\ Head(Class9) = Expect("RIGHT_BRACE") /\ Tail(Class9) = Class10
  /\ Head(Class10) = Leaving /\ Tail(Class10) = <<>>
<1>1. Head(Class1) = Optional("CLASS", <<>>) /\ Tail(Class1) = Class2
  <2>1. \A a, b, c, d, e, f, g, h, i, j : Class1 = <<a, b, c, d, e, f, g, h, i, j>> =>
          Head(Class1) = a /\ Tail(Class1) = <<b, c, d, e, f, g, h, i, j>>
    BY HeadTail10
  <2>2. Class1 = <<Optional("CLASS", <<>>), Require("IDENTIFIER"), Do("declare"),
                 Initialised, Entering, Named(FALSE), Expect("LEFT_BRACE"), Methods,
                 Expect("RIGHT_BRACE"), Leaving>>
    BY Zenon DEF Class1
  <2>3. QED
    BY <2>1, <2>2, Zenon DEF Class2
<1>2. Head(Class2) = Require("IDENTIFIER") /\ Tail(Class2) = Class3
  <2>1. \A a, b, c, d, e, f, g, h, i : Class2 = <<a, b, c, d, e, f, g, h, i>> =>
          Head(Class2) = a /\ Tail(Class2) = <<b, c, d, e, f, g, h, i>>
    BY HeadTail9
  <2>2. Class2 = <<Require("IDENTIFIER"), Do("declare"), Initialised, Entering,
                 Named(FALSE), Expect("LEFT_BRACE"), Methods, Expect("RIGHT_BRACE"),
                 Leaving>>
    BY Zenon DEF Class2
  <2>3. QED
    BY <2>1, <2>2, Zenon DEF Class3
<1>3. Head(Class3) = Do("declare") /\ Tail(Class3) = Class4
  <2>1. \A a, b, c, d, e, f, g, h : Class3 = <<a, b, c, d, e, f, g, h>> =>
          Head(Class3) = a /\ Tail(Class3) = <<b, c, d, e, f, g, h>>
    BY HeadTail8
  <2>2. Class3 = <<Do("declare"), Initialised, Entering, Named(FALSE), Expect("LEFT_BRACE"),
                 Methods, Expect("RIGHT_BRACE"), Leaving>>
    BY Zenon DEF Class3
  <2>3. QED
    BY <2>1, <2>2, Zenon DEF Class4
<1>4. Head(Class4) = Initialised /\ Tail(Class4) = Class5
  <2>1. \A a, b, c, d, e, f, g : Class4 = <<a, b, c, d, e, f, g>> =>
          Head(Class4) = a /\ Tail(Class4) = <<b, c, d, e, f, g>>
    BY HeadTail7
  <2>2. Class4 = <<Initialised, Entering, Named(FALSE), Expect("LEFT_BRACE"), Methods,
                 Expect("RIGHT_BRACE"), Leaving>>
    BY Zenon DEF Class4
  <2>3. QED
    BY <2>1, <2>2, Zenon DEF Class5
<1>5. Head(Class5) = Entering /\ Tail(Class5) = Class6
  <2>1. \A a, b, c, d, e, f : Class5 = <<a, b, c, d, e, f>> =>
          Head(Class5) = a /\ Tail(Class5) = <<b, c, d, e, f>>
    BY HeadTail6
  <2>2. Class5 = <<Entering, Named(FALSE), Expect("LEFT_BRACE"), Methods,
                 Expect("RIGHT_BRACE"), Leaving>>
    BY Zenon DEF Class5
  <2>3. QED
    BY <2>1, <2>2, Zenon DEF Class6
<1>6. Head(Class6) = Named(FALSE) /\ Tail(Class6) = Class7
  BY DEF Class6, Class7
<1>7. Head(Class7) = Expect("LEFT_BRACE") /\ Tail(Class7) = Class8
  BY DEF Class7, Class8
<1>8. Head(Class8) = Methods /\ Tail(Class8) = Class9
  BY DEF Class8, Class9
<1>9. Head(Class9) = Expect("RIGHT_BRACE") /\ Tail(Class9) = Class10
  BY DEF Class9, Class10
<1>10. Head(Class10) = Leaving /\ Tail(Class10) = <<>>
  BY DEF Class10
<1>11. QED
  BY <1>1, <1>2, <1>3, <1>4, <1>5, <1>6, <1>7, <1>8, <1>9, <1>10, Zenon

LEMMA BlockSteps ==
  /\ Head(Block0) = Opening /\ Tail(Block0) = Block1
  /\ Head(Block1) = Expect("LEFT_BRACE") /\ Tail(Block1) = Block2
  /\ Head(Block2) = Declarations /\ Tail(Block2) = Block3
  /\ Head(Block3) = Require("RIGHT_BRACE") /\ Tail(Block3) = Block4
  /\ Head(Block4) = Closing /\ Tail(Block4) = <<>>
  /\ Head(For0) = Opening
<1>1. Head(Block0) = Opening /\ Tail(Block0) = Block1
  BY DEF Block0, Block1
<1>2. Head(Block1) = Expect("LEFT_BRACE") /\ Tail(Block1) = Block2
  BY DEF Block1, Block2
<1>3. Head(Block2) = Declarations /\ Tail(Block2) = Block3
  BY DEF Block2, Block3
<1>4. Head(Block3) = Require("RIGHT_BRACE") /\ Tail(Block3) = Block4
  BY DEF Block3, Block4
<1>5. Head(Block4) = Closing /\ Tail(Block4) = <<>>
  BY DEF Block4
<1>6. Head(For0) = Opening
  BY DEF For0
<1>7. QED
  BY <1>1, <1>2, <1>3, <1>4, <1>5, <1>6, Zenon

\* A step within an expression.
Reads == {"consume", "unless", "precedence", "infix", "named", "this"}
LEMMA Reading ==
  ASSUME NEW S, HasOperands(S), NEW T, NEW parts \in Seq(S), NEW tail \in Seq(T), parts # <<>>,
         rules # <<>>, Last(rules) = parts \o tail, Parse, Head(parts).op \in Reads
  PROVE  /\ compilers' = compilers
         /\ \/ \E q \in Seq(S) : Go(q \o tail)
            \/ Return /\ Head(parts).op = "consume" /\ Head(parts).missing = "returned"
            \/ \E q \in Seq(OperandPart) \ {<<>>} : rules' = Append(rules, q)
            \/ rules' = rules
<1>0. /\ \A a, b \in Seq(S) : a \o b \in Seq(S) /\ a \o (b \o tail) = (a \o b) \o tail
      /\ \A x \in S : <<x>> \in Seq(S)
  <2>1. \A a, b \in Seq(S) : a \o b \in Seq(S) /\ a \o (b \o tail) = (a \o b) \o tail
    BY Joins
  <2>2. \A x \in S : <<x>> \in Seq(S)
    OBVIOUS
  <2>3. QED
    BY <2>1, <2>2
<1>1. /\ Item = Head(parts) /\ Item \in S /\ Rest = Tail(parts) \o tail /\ Tail(parts) \in Seq(S)
  BY Split DEF Item, Rest
<1>2. ASSUME NEW more \in Seq(S), Go(more \o Rest)
      PROVE  \E q \in Seq(S) : Go(q \o tail)
  <2>1. /\ more \o Tail(parts) \in Seq(S)
        /\ more \o (Tail(parts) \o tail) = (more \o Tail(parts)) \o tail
    BY <1>0, <1>1, Zenon
  <2>2. Go((more \o Tail(parts)) \o tail)
    BY <1>1, <1>2, <2>1
  <2>3. QED
    BY <2>1, <2>2
<1>3. Go(Rest) => \E q \in Seq(S) : Go(q \o tail)
  BY <1>1
<1>4. /\ Operand \subseteq S /\ Optional("EQUAL", <<Expression>>) \in S
      /\ (Item.op \in {"consume", "unless"} => Item.items \in Seq(S))
      /\ (Item.op \in {"precedence", "infix"} => Item.level \in Int)
  BY <1>1 DEF HasOperands
<1>5. CASE Item.op = "consume"
  <2>1. Consume
    BY <1>5, ActionOf
  <2>2. /\ compilers' = compilers
        /\ \/ Go(Item.items \o (IF Item.again THEN Last(rules) ELSE Rest))
           \/ Go(Rest)
           \/ Return /\ Item.missing = "returned"
    BY <2>1 DEF Consume
  <2>3. ASSUME Go(Item.items \o (IF Item.again THEN Last(rules) ELSE Rest))
        PROVE  \E q \in Seq(S) : Go(q \o tail)
    <3>1. CASE Item.again
      <4>1. /\ Item.items \o parts \in Seq(S)
            /\ Item.items \o (parts \o tail) = (Item.items \o parts) \o tail
        BY <1>0, <1>4, <1>5
      <4>2. Go((Item.items \o parts) \o tail)
        BY <2>3, <3>1, <4>1
      <4>3. QED
        BY <4>1, <4>2
    <3>2. CASE ~Item.again
      BY <1>2, <1>4, <1>5, <2>3, <3>2
    <3>3. QED
      BY <3>1, <3>2
  <2>4. QED
    BY <1>1, <1>3, <1>5, <2>2, <2>3
<1>6. CASE Item.op = "unless"
  <2>1. Choice
    BY <1>6, ActionOf
  <2>2. /\ compilers' = compilers
        /\ Go((IF current_token = Item.type THEN <<>> ELSE Item.items) \o Rest)
    BY <2>1 DEF Choice
  <2>3. (IF current_token = Item.type THEN <<>> ELSE Item.items) \in Seq(S)
    BY <1>4, <1>6
  <2>4. QED
    BY <1>2, <2>2, <2>3
<1>7. CASE Item.op = "precedence"
  <2>0. CASE MisreadNumber
    BY <2>0, Misread
  <2>1. ASSUME ~MisreadNumber PROVE ParsePrecedence
    BY <1>7, <2>1, ActionOf
  <2> DEFINE can_assign == Item.level <= PREC_ASSIGNMENT
             prefix == PrefixRule(current_token, can_assign)
  <2>2. ASSUME ~MisreadNumber
        PROVE  /\ compilers' = compilers
               /\ Go(prefix \o <<Infix(Item.level)>> \o Rest) \/ Go(Rest)
    BY <2>1, <2>2 DEF ParsePrecedence
  <2>3. can_assign \in BOOLEAN
    OBVIOUS
  <2>4. prefix \in Seq(S)
    <3> HIDE DEF can_assign
    <3>1. QED
      BY <2>3, PrefixOperands
  <2>5. Infix(Item.level) \in S
    BY <1>4, <1>7, OperandItems
  <2> HIDE DEF prefix
  <2>6. prefix \o <<Infix(Item.level)>> \in Seq(S)
    BY <2>4, <2>5
  <2>7. QED
    BY <1>2, <1>3, <2>0, <2>2, <2>6
<1>8. CASE Item.op = "infix"
  <2>1. ParseInfix
    BY <1>8, ActionOf
  <2> DEFINE can_assign == Item.level <= PREC_ASSIGNMENT
  <2>2. /\ compilers' = compilers
        /\ \/ rules' = Append(rules, InfixRule(current_token, can_assign))
           \/ Go(Rest)
    BY <2>1 DEF ParseInfix
  <2>3. can_assign \in BOOLEAN
    OBVIOUS
  <2> HIDE DEF can_assign
  <2>4. InfixRule(current_token, can_assign) \in Seq(OperandPart) \ {<<>>}
    BY <2>3, InfixOperands
  <2>5. QED
    BY <1>3, <2>2, <2>4
<1>9. CASE Item.op = "named"
  <2>1. NamedVariable
    BY <1>9, ActionOf
  <2> DEFINE more == IF Item.can_assign THEN <<Optional("EQUAL", <<Expression>>)>> ELSE <<>>
  <2>2. compilers' = compilers /\ Go(more \o Rest)
    BY <2>1 DEF NamedVariable
  <2>3. more \in Seq(S)
    BY <1>4
  <2> HIDE DEF more
  <2>4. QED
    BY <1>2, <2>2, <2>3
<1>10. CASE Item.op = "this"
  <2>1. This
    BY <1>10, ActionOf
  <2>2. compilers' = compilers /\ (Go(<<Named(FALSE)>> \o Rest) \/ Go(Rest))
    BY <2>1 DEF This
  <2>3. <<Named(FALSE)>> \in Seq(S)
    <3>1. Named(FALSE) \in S
      BY <1>4, OperandItems
    <3>2. QED
      BY <1>0, <3>1, Zenon
  <2>4. QED
    BY <1>2, <1>3, <2>2, <2>3
<1>11. QED
  BY <1>1, <1>5, <1>6, <1>7, <1>8, <1>9, <1>10 DEF Reads

\* What a token is expected for.
LEMMA RequireFields ==
  \A type :
    /\ Require(type).op = "consume" /\ Require(type).type = type /\ Require(type).items = <<>>
    /\ Require(type).missing = "returned" /\ Require(type).again = FALSE
BY DEF Require, Token

LEMMA ExpectFields ==
  \A type :
    /\ Expect(type).op = "consume" /\ Expect(type).type = type /\ Expect(type).items = <<>>
    /\ Expect(type).missing = "reported" /\ Expect(type).again = FALSE
BY DEF Expect, Token

LEMMA OptionalFields ==
  \A type, items :
    /\ Optional(type, items).op = "consume" /\ Optional(type, items).type = type /\ Optional(type, items).items = items
    /\ Optional(type, items).missing = "ignored" /\ Optional(type, items).again = FALSE
BY DEF Optional, Token

LEMMA RepeatFields ==
  \A type, items :
    /\ Repeat(type, items).op = "consume" /\ Repeat(type, items).type = type /\ Repeat(type, items).items = items
    /\ Repeat(type, items).missing = "ignored" /\ Repeat(type, items).again = TRUE
BY DEF Repeat, Token

LEMMA ChangeFields ==
  /\ Initialised.change = "initialized" /\ Opening.change = "begin scope"
  /\ Closing.change = "end scope" /\ Entering.change = "enter class"
  /\ Leaving.change = "leave class" /\ Finishing.op = "end function"
<1>1. Initialised.change = "initialized" /\ Opening.change = "begin scope"
  BY Fields, Zenon DEF Initialised, Opening
<1>2. Closing.change = "end scope" /\ Entering.change = "enter class"
  BY Fields, Zenon DEF Closing, Entering
<1>3. Leaving.change = "leave class" /\ Finishing.op = "end function"
  BY Fields, Zenon DEF Leaving, Finishing
<1>4. QED
  BY <1>1, <1>2, <1>3, Zenon

LEMMA ChangeItems ==
  /\ Initialised.op = "compiler" /\ Opening.op = "compiler" /\ Closing.op = "compiler"
  /\ Entering.op = "compiler" /\ Leaving.op = "compiler"
  /\ Initialised # Opening /\ Closing # Opening /\ Entering # Opening /\ Leaving # Opening
  /\ Initialised # Closing
  /\ Finishing.op \notin {"compiler", "consume", "rule", "until", "declare"}
  /\ Declarations.op = "until" /\ Declarations.types = {"RIGHT_BRACE", EOF}
  /\ Declarations.name = "declaration"
  /\ Methods.op = "until" /\ Methods.types = {"RIGHT_BRACE", EOF} /\ Methods.name = "method"
<1>1. Initialised.op = "compiler" /\ Opening.op = "compiler" /\ Closing.op = "compiler"
  BY Fields, Zenon DEF Initialised, Opening, Closing
<1>2. Entering.op = "compiler" /\ Leaving.op = "compiler"
  BY Fields, Zenon DEF Entering, Leaving
<1>3. Initialised # Opening /\ Closing # Opening /\ Entering # Opening /\ Leaving # Opening
      /\ Initialised # Closing
  BY ChangeFields, Zenon
<1>4. Finishing.op \notin {"compiler", "consume", "rule", "until", "declare"}
  BY ChangeFields, Zenon
<1>5. /\ Declarations.op = "until" /\ Declarations.types = {"RIGHT_BRACE", EOF}
      /\ Declarations.name = "declaration"
  <2>1. \A types, name :
          LET t == Until(types, name) IN t.op = "until" /\ t.types = types /\ t.name = name
    BY Fields
  <2>2. QED
    BY <2>1 DEF Declarations
<1>6. Methods.op = "until" /\ Methods.types = {"RIGHT_BRACE", EOF} /\ Methods.name = "method"
  <2>1. \A types, name :
          LET t == Until(types, name) IN t.op = "until" /\ t.types = types /\ t.name = name
    BY Fields
  <2>2. QED
    BY <2>1 DEF Methods
<1>7. QED
  BY <1>1, <1>2, <1>3, <1>4, <1>5, <1>6, Zenon

LEMMA PartKinds ==
  /\ \A i \in OperandPart : i.op \in Reads
  /\ \A i \in Quiet : i.op \in Reads /\ (i.op = "consume" => i.missing # "returned")
  /\ \A i \in LoopPart :
       /\ \/ i.op \in Reads
          \/ i.op = "rule" /\ i.name \in RuleName \cup {"functionDeclaration"}
       /\ i.op = "consume" => i.missing # "returned"
  /\ \A i \in StatementPart :
       \/ i.op \in Reads
       \/ i.op = "rule" /\ i.name \in RuleName \cup {"functionDeclaration"}
       \/ i.op = "until" /\ i.name = "declaration"
       \/ i.op \in {"not in", "recover", "synchronize", "advance"}
<1>1. \A i \in Operand : i.op \in {"precedence", "infix", "named", "this"}
  BY DEF Operand
<1>2. \A i \in [op : {"rule"}, name : RuleName \cup {"functionDeclaration"}] :
        i.op = "rule" /\ i.name \in RuleName \cup {"functionDeclaration"}
  OBVIOUS
<1>3. \A i \in Called :
        \/ i.op \in {"precedence", "infix", "named", "this"}
        \/ i.op = "rule" /\ i.name \in RuleName \cup {"functionDeclaration"}
  BY <1>1, <1>2, Zenon DEF Called
<1>4. \A i \in Stated :
        \/ i \in Called
        \/ i.op = "until" /\ i.name = "declaration"
        \/ i.op \in {"not in", "recover", "synchronize", "advance"}
  <2>1. \A i \in [op : {"until"}, types : SUBSET {"RIGHT_BRACE", EOF}, name : {"declaration"}] :
          i.op = "until" /\ i.name = "declaration"
    OBVIOUS
  <2>2. \A i \in [op : {"not in"}, type : {"INITIALIZER", "TOP_LEVEL_SCRIPT"}] : i.op \in {"not in"}
    BY Zenon
  <2>3. \A i \in [op : {"recover", "synchronize", "advance"}] :
          i.op \in {"recover", "synchronize", "advance"}
    BY Zenon
  <2>4. QED
    BY <2>1, <2>2, <2>3, Zenon DEF Stated
<1>5. /\ \A x \in {"precedence", "infix", "named", "this"} : x \in Reads /\ x # "consume"
      /\ "consume" \in Reads /\ "unless" \in Reads /\ "unless" # "consume" /\ "rule" # "consume"
      /\ \A m \in Kept : m # "returned"
  BY DEF Reads, Kept
<1>6. \A i \in OperandPart :
        i \in Operand \/ i.op = "consume" \/ i.op = "unless"
  BY TwiceItems, Zenon DEF OperandPart
<1>7. \A i \in Quiet :
        i \in Operand \/ (i.op = "consume" /\ i.missing \in Kept) \/ i.op = "unless"
  BY TwiceItems, Zenon DEF Quiet
<1>8. \A i \in LoopPart :
        i \in Called \/ (i.op = "consume" /\ i.missing \in Kept) \/ i.op = "unless"
  BY TwiceItems, Zenon DEF LoopPart
<1>9. \A i \in StatementPart : i \in Stated \/ i.op = "consume" \/ i.op = "unless"
  BY TwiceItems, Zenon DEF StatementPart
<1>10. \A i \in OperandPart : i.op \in Reads
  BY <1>1, <1>5, <1>6, Zenon
<1>11. \A i \in Quiet : i.op \in Reads /\ (i.op = "consume" => i.missing # "returned")
  BY <1>1, <1>5, <1>7
<1>12. \A i \in LoopPart :
         /\ \/ i.op \in Reads
            \/ i.op = "rule" /\ i.name \in RuleName \cup {"functionDeclaration"}
         /\ i.op = "consume" => i.missing # "returned"
  BY <1>3, <1>5, <1>8
<1>13. \A i \in StatementPart :
         \/ i.op \in Reads
         \/ i.op = "rule" /\ i.name \in RuleName \cup {"functionDeclaration"}
         \/ i.op = "until" /\ i.name = "declaration"
         \/ i.op \in {"not in", "recover", "synchronize", "advance"}
  BY <1>3, <1>4, <1>5, <1>9, Zenon
<1>14. QED
  BY <1>10, <1>11, <1>12, <1>13, Zenon

LEMMA SettledByHead ==
  ASSUME NEW items,
         items # <<>> => /\ Head(items) # Opening
                         /\ Head(items).op = "consume" => Head(items).missing # "returned"
  PROVE  Settled(items) /\ items # Block3
<1>1. /\ Head(Block0) = Opening /\ Head(For0) = Opening /\ Head(Block3) = Require("RIGHT_BRACE")
  BY BlockSteps
<1>2. Block0 # <<>> /\ For0 # <<>> /\ Block3 # <<>>
  BY DEF Block0, For0, Block3
<1>3. items = <<>> => items \notin {Block0, For0, Block3}
  BY <1>2
<1>4. items # <<>> => items \notin {Block0, For0, Block3}
  BY <1>1, RequireFields
<1>5. QED
  BY <1>3, <1>4, Zenon DEF Settled

\* The lists of plain items, that end as they end.
LEMMA PlainNotBlock ==
  /\ \A p \in Seq(OperandPart) : Settled(p) /\ p # Block3
  /\ \A p \in Seq(StatementPart) : Settled(p) /\ p # Block3
<1>1. ASSUME NEW S, \A i \in S : i.op # "compiler", NEW p \in Seq(S)
      PROVE  Settled(p) /\ p # Block3
  <2>1. \A s \in Seq(S) : s # <<>> => Head(s) \in S /\ Tail(s) \in Seq(S)
    OBVIOUS
  <2>2. Block0 # <<>> /\ For0 # <<>> /\ Block3 # <<>> /\ Block4 # <<>>
    BY DEF Block0, For0, Block3, Block4
  <2>3. Opening \notin S /\ Closing \notin S
    BY <1>1, ChangeItems
  <2>4. p # Block0 /\ p # For0
    BY <2>1, <2>2, <2>3, BlockSteps, Zenon
  <2>5. p # Block3
    <3>1. ASSUME p = Block3 PROVE FALSE
      <4>1. Block4 \in Seq(S)
        BY <2>1, <2>2, <3>1, BlockSteps
      <4>2. QED
        BY <2>1, <2>2, <2>3, <4>1, BlockSteps
    <3>2. QED
      BY <3>1
  <2>6. QED
    BY <2>4, <2>5, Zenon DEF Settled
<1>2. \A i \in OperandPart : i.op # "compiler"
  <2>1. \A x \in Reads : x # "compiler"
    BY DEF Reads
  <2>2. QED
    BY <2>1, PartKinds, Zenon
<1>3. \A i \in StatementPart : i.op # "compiler"
  <2>1. \A x \in Reads : x # "compiler"
    BY DEF Reads
  <2>2. \A x \in {"not in", "recover", "synchronize", "advance"} : x # "compiler"
    BY Zenon
  <2>3. "rule" # "compiler" /\ "until" # "compiler"
    OBVIOUS
  <2>4. QED
    BY <2>1, <2>2, <2>3, PartKinds, Zenon
<1>4. QED
  BY <1>1, <1>2, <1>3

LEMMA EndedNotBlock ==
  /\ \A p \in Seq(LoopPart) : Settled(p \o Block4) /\ p \o Block4 # Block3
  /\ \A p \in Seq(Quiet) : Settled(p \o <<Initialised>>) /\ p \o <<Initialised>> # Block3
<1>1. ASSUME NEW S, NEW last, last.op = "compiler", last # Opening, NEW p \in Seq(S),
             \A i \in S : /\ i.op # "compiler"
                          /\ i.op = "consume" => i.missing # "returned"
      PROVE  Settled(p \o <<last>>) /\ p \o <<last>> # Block3
  <2>1. CASE p = <<>>
    <3>1. p \o <<last>> = <<last>> /\ Head(<<last>>) = last
      BY <2>1
    <3>2. last.op # "consume"
      BY <1>1
    <3>3. QED
      BY <1>1, <3>1, <3>2, SettledByHead
  <2>2. CASE p # <<>>
    <3>1. <<last>> \in Seq({last})
      OBVIOUS
    <3>2. Head(p \o <<last>>) = Head(p) /\ Head(p) \in S
      BY <2>2, <3>1, Split
    <3>3. Head(p) # Opening
      BY <1>1, <3>2, ChangeItems
    <3>4. QED
      BY <1>1, <3>2, <3>3, SettledByHead
  <2>3. QED
    BY <2>1, <2>2
<1>2. /\ \A x \in Reads : x # "compiler"
      /\ "rule" # "compiler"
  BY DEF Reads
<1>3. Initialised # Opening /\ Closing # Opening
  BY ChangeItems
<1>4. \A p \in Seq(LoopPart) : Settled(p \o Block4) /\ p \o Block4 # Block3
  <2>1. \A i \in LoopPart : i.op # "compiler" /\ (i.op = "consume" => i.missing # "returned")
    BY <1>2, PartKinds, Zenon
  <2>2. QED
    BY <1>1, <1>3, <2>1, ChangeItems DEF Block4
<1>5. \A p \in Seq(Quiet) : Settled(p \o <<Initialised>>) /\ p \o <<Initialised>> # Block3
  <2>1. \A i \in Quiet : i.op # "compiler" /\ (i.op = "consume" => i.missing # "returned")
    BY <1>2, PartKinds, Zenon
  <2>2. QED
    BY <1>1, <1>3, <2>1, ChangeItems
<1>6. QED
  BY <1>4, <1>5

LEMMA BeginningsNotBrace ==
  \A b \in Beginnings : b # <<>> /\ b # Block3
<1>1. Head(Block3) = Require("RIGHT_BRACE") /\ Require("RIGHT_BRACE").op = "consume"
      /\ Require("RIGHT_BRACE").missing = "returned" /\ Require("RIGHT_BRACE").type = "RIGHT_BRACE"
  BY BlockSteps, RequireFields
<1>2. /\ Block0 # <<>> /\ For0 # <<>> /\ Variable1 # <<>> /\ Variable2 # <<>> /\ Variable3 # <<>>
      /\ Function1 # <<>> /\ Function2 # <<>> /\ Function3 # <<>>
  BY DEF Block0, For0, Variable1, Variable2, Variable3, Function1, Function2, Function3
<1>3. Class1 # <<>> /\ Class2 # <<>> /\ Class3 # <<>> /\ Class5 # <<>>
  BY DEF Class1, Class2, Class3, Class5
<1>4. /\ Optional("FUN", <<>>).missing = "ignored" /\ Optional("CLASS", <<>>).missing = "ignored"
      /\ Optional("VAR", <<>>).missing = "ignored"
      /\ \A items : ParseVariable(items).missing = "ignored"
      /\ Require("IDENTIFIER").type = "IDENTIFIER"
  BY OptionalFields, RequireFields DEF ParseVariable
<1>5. Do("declare").op = "declare"
  BY Fields
<1>6. Opening.op = "compiler" /\ Entering.op = "compiler"
  BY ChangeItems
<1>7. /\ Block0 # Block3 /\ For0 # Block3 /\ Class1 # Block3 /\ Class2 # Block3 /\ Class3 # Block3
      /\ Class5 # Block3
  BY <1>1, <1>4, <1>5, <1>6, BlockSteps, ClassSteps
<1>8. /\ Variable1 # Block3 /\ Variable2 # Block3 /\ Variable3 # Block3 /\ Function1 # Block3
      /\ Function2 # Block3 /\ Function3 # Block3
  BY <1>1, <1>4, <1>5, FunctionSteps
<1>9. QED
  BY <1>2, <1>3, <1>7, <1>8, Zenon DEF Beginnings

\* What the rules for statements are made of.
LEMMA StatedItems ==
  /\ \A name \in RuleName \cup {"functionDeclaration"} : Rule(name) \in Stated
  /\ Declarations \in Stated /\ Until({EOF}, "declaration") \in Stated
  /\ \A type \in {"INITIALIZER", "TOP_LEVEL_SCRIPT"} : NotIn(type) \in Stated
  /\ Do("recover") \in Stated /\ Do("synchronize") \in Stated /\ Do("advance") \in Stated
  /\ Expression \in Stated
<1>1. \A name \in RuleName \cup {"functionDeclaration"} :
        Rule(name) \in [op : {"rule"}, name : RuleName \cup {"functionDeclaration"}]
  BY DEF Rule
<1>2. \A name \in RuleName \cup {"functionDeclaration"} : Rule(name) \in Stated
  BY <1>1, Zenon DEF Stated, Called
<1>3. Expression \in Stated
  BY OperandItems, Zenon DEF Stated, Called
<1>4. \A types \in SUBSET {"RIGHT_BRACE", EOF} :
        Until(types, "declaration") \in
          [op : {"until"}, types : SUBSET {"RIGHT_BRACE", EOF}, name : {"declaration"}]
  BY DEF Until
<1>5. {EOF} \in SUBSET {"RIGHT_BRACE", EOF}
      /\ {"RIGHT_BRACE", EOF} \in SUBSET {"RIGHT_BRACE", EOF}
  OBVIOUS
<1>6. Declarations \in Stated /\ Until({EOF}, "declaration") \in Stated
  BY <1>4, <1>5, Zenon DEF Stated, Declarations
<1>7. \A type \in {"INITIALIZER", "TOP_LEVEL_SCRIPT"} :
        NotIn(type) \in [op : {"not in"}, type : {"INITIALIZER", "TOP_LEVEL_SCRIPT"}]
  BY DEF NotIn
<1>8. \A type \in {"INITIALIZER", "TOP_LEVEL_SCRIPT"} : NotIn(type) \in Stated
  BY <1>7, Zenon DEF Stated
<1>9. \A op \in {"recover", "synchronize", "advance"} :
        Do(op) \in [op : {"recover", "synchronize", "advance"}]
  BY DEF Do
<1>10. Do("recover") \in Stated /\ Do("synchronize") \in Stated /\ Do("advance") \in Stated
  BY <1>9, Zenon DEF Stated
<1>11. QED
  BY <1>2, <1>3, <1>6, <1>8, <1>10, Zenon

LEMMA StatementItems ==
  /\ \A i \in Stated : i \in StatementPart
  /\ \A type \in TypeName :
       /\ Expect(type) \in StatementPart /\ Require(type) \in StatementPart
       /\ Optional(type, <<>>) \in StatementPart
       /\ \A i \in Stated :
            Optional(type, <<i>>) \in StatementPart /\ Unless(type, <<i>>) \in StatementPart
<1>1. /\ Stated \subseteq StatementPart
      /\ \A type \in TypeName, items \in Seq(Stated), m \in Missing, again \in BOOLEAN :
           Token(type, items, m, again) \in StatementPart
      /\ \A type \in TypeName, items \in Seq(Around(Stated, Missing)) :
           Unless(type, items) \in StatementPart
  BY TwiceItems, Zenon DEF StatementPart
<1>2. "ignored" \in Missing /\ "reported" \in Missing /\ "returned" \in Missing
  BY DEF Missing
<1>3. <<>> \in Seq(Stated) /\ \A i \in Stated : <<i>> \in Seq(Stated)
  OBVIOUS
<1>4. Stated \subseteq Around(Stated, Missing)
  BY AroundItems
<1>5. \A i \in Stated : <<i>> \in Seq(Around(Stated, Missing))
  BY <1>4
<1>6. QED
  BY <1>1, <1>2, <1>3, <1>5, Zenon DEF Optional, Expect, Require

\* Whatever rule is called, it goes on where it was called.
LEMMA BodyRuns ==
  ASSUME NEW name \in RuleName \cup {"functionDeclaration"}
  PROVE  /\ Body(name) \in Seq(StatementPart) \/ Body(name) \in Beginnings
         /\ \A s : Outside(s) => Runs(Body(name), s, s)
         /\ Body(name) # <<>> /\ Body(name) # Block3
<1>1. \A type \in {"IDENTIFIER", "LEFT_PAREN", "RIGHT_PAREN", "SEMICOLON", "VAR", "RETURN",
                   "PRINT", "IF", "ELSE", "WHILE"} :
        /\ type \in TypeName
        /\ Expect(type) \in StatementPart /\ Require(type) \in StatementPart
        /\ Optional(type, <<>>) \in StatementPart
        /\ \A i \in Stated :
             Optional(type, <<i>>) \in StatementPart /\ Unless(type, <<i>>) \in StatementPart
  <2>1. \A type \in {"IDENTIFIER", "LEFT_PAREN", "RIGHT_PAREN", "SEMICOLON", "VAR", "RETURN",
                   "PRINT", "IF", "ELSE", "WHILE"} : type \in TypeName
    BY Zenon DEF TypeName
  <2>2. QED
    BY <2>1, StatementItems, Zenon
<1>2. \A i \in Stated : i \in StatementPart
  BY StatementItems
<1>3. Expression \in Stated
  BY StatedItems
<1>4. \A n \in RuleName \cup {"functionDeclaration"} : Rule(n) \in Stated
  BY StatedItems
<1>5. /\ \A a \in StatementPart : <<a>> \in Seq(StatementPart) \ {<<>>}
      /\ \A a, b \in StatementPart : <<a, b>> \in Seq(StatementPart) \ {<<>>}
      /\ \A a, b, c \in StatementPart : <<a, b, c>> \in Seq(StatementPart) \ {<<>>}
      /\ \A a, b, c, d, e \in StatementPart : <<a, b, c, d, e>> \in Seq(StatementPart) \ {<<>>}
  OBVIOUS
<1>6. \A a, b, c, d, e, f \in StatementPart : <<a, b, c, d, e, f>> \in Seq(StatementPart) \ {<<>>}
  OBVIOUS
<1>7. Body(name) \in Seq(StatementPart) \ {<<>>} \/ Body(name) \in Beginnings
  <2>1. CASE name = "declaration"
    <3>1. Body(name) = <<Rule(DeclarationRule(current_token)), Do("recover")>>
      BY <2>1 DEF Body
    <3>2. DeclarationRule(current_token) \in
            {"variableDeclaration", "functionDeclaration", "returnStatement", "classDeclaration",
             "statement"}
      BY DEF DeclarationRule
    <3>3. DeclarationRule(current_token) \in RuleName \cup {"functionDeclaration"}
      BY <3>2 DEF RuleName
    <3>4. Rule(DeclarationRule(current_token)) \in StatementPart /\ Do("recover") \in StatementPart
      BY <1>2, <1>4, <3>3, StatedItems, Zenon
    <3>5. QED
      BY <1>5, <3>1, <3>4, Zenon
  <2>2. CASE name = "statement"
    <3>1. Body(name) = <<Rule(StatementRule(current_token))>>
      BY <2>2 DEF Body
    <3>2. StatementRule(current_token) \in RuleName
      BY DEF StatementRule, RuleName
    <3>3. Rule(StatementRule(current_token)) \in StatementPart
      BY <1>2, <1>4, <3>2, Zenon
    <3>4. QED
      BY <1>5, <3>1, <3>3
  <2>3. CASE name = "initializer"
    <3>1. Body(name) = <<InitializerClause(current_token)>>
      BY <2>3 DEF Body
    <3>2. "variableDeclaration" \in RuleName /\ "expressionStatement" \in RuleName
      BY DEF RuleName
    <3>3. InitializerClause(current_token) \in
            {Expect("SEMICOLON"), Optional("VAR", <<Rule("variableDeclaration")>>),
             Rule("expressionStatement")}
      BY DEF InitializerClause
    <3>4. /\ Expect("SEMICOLON") \in StatementPart
          /\ Rule("expressionStatement") \in StatementPart
          /\ Optional("VAR", <<Rule("variableDeclaration")>>) \in StatementPart
      BY <1>1, <1>2, <1>4, <3>2, Zenon
    <3>5. InitializerClause(current_token) \in StatementPart
      BY <3>3, <3>4, Zenon
    <3>6. QED
      BY <1>5, <3>1, <3>5, Zenon
  <2>4. CASE name = "classDeclaration"
    <3>1. Body("classDeclaration") =
           <<Optional("CLASS", <<>>), Require("IDENTIFIER"), Do("declare"),
             Compilers("initialized"), Compilers("enter class"), Named(FALSE),
             Expect("LEFT_BRACE"), Until({"RIGHT_BRACE", EOF}, "method"),
             Expect("RIGHT_BRACE"), Compilers("leave class")>>
      BY Zenon DEF Body
    <3>2. Class1 =
           <<Optional("CLASS", <<>>), Require("IDENTIFIER"), Do("declare"),
             Compilers("initialized"), Compilers("enter class"), Named(FALSE),
             Expect("LEFT_BRACE"), Until({"RIGHT_BRACE", EOF}, "method"),
             Expect("RIGHT_BRACE"), Compilers("leave class")>>
      BY Zenon DEF Class1, Initialised, Entering, Leaving, Methods
    <3>3. QED
      BY <2>4, <3>1, <3>2, Zenon DEF Beginnings
  <2>5. CASE name = "functionDeclaration"
    <3>1. Body(name) = Function1
      BY <2>5 DEF Body, Function1, Initialised
    <3>2. QED
      BY <3>1, Zenon DEF Beginnings
  <2>6. CASE name = "variableDeclaration"
    <3>1. Body(name) = Variable1
      BY <2>6 DEF Body, Variable1, VariableParts, Initialised
    <3>2. QED
      BY <3>1, Zenon DEF Beginnings
  <2>7. CASE name = "block"
    <3>1. Body("block") =
           <<Compilers("begin scope"), Expect("LEFT_BRACE"),
             Until({"RIGHT_BRACE", EOF}, "declaration"), Require("RIGHT_BRACE"),
             Compilers("end scope")>>
      BY Zenon DEF Body
    <3>2. Block0 =
           <<Compilers("begin scope"), Expect("LEFT_BRACE"),
             Until({"RIGHT_BRACE", EOF}, "declaration"), Require("RIGHT_BRACE"),
             Compilers("end scope")>>
      BY Zenon DEF Block0, Opening, Closing, Declarations
    <3>3. QED
      BY <2>7, <3>1, <3>2, Zenon DEF Beginnings
  <2>8. CASE name = "forStatement"
    <3>1. Body("forStatement") =
           <<Compilers("begin scope"), Optional("FOR", <<>>), Expect("LEFT_PAREN"),
             Rule("initializer"), Unless("SEMICOLON", <<Expression>>), Expect("SEMICOLON"),
             Unless("RIGHT_PAREN", <<Expression>>), Expect("RIGHT_PAREN"),
             Rule("statement"), Compilers("end scope")>>
      BY Zenon DEF Body
    <3>2. For0 =
           <<Compilers("begin scope"), Optional("FOR", <<>>), Expect("LEFT_PAREN"),
             Rule("initializer"), Unless("SEMICOLON", <<Expression>>), Expect("SEMICOLON"),
             Unless("RIGHT_PAREN", <<Expression>>), Expect("RIGHT_PAREN"),
             Rule("statement"), Compilers("end scope")>>
      BY Zenon DEF For0, Opening, Closing
    <3>3. QED
      BY <2>8, <3>1, <3>2, Zenon DEF Beginnings
  <2>9. CASE name = "returnStatement"
    <3>1. Body(name) =
           <<NotIn("INITIALIZER"), Optional("RETURN", <<>>), NotIn("TOP_LEVEL_SCRIPT"),
             Unless("SEMICOLON", <<Expression>>), Require("SEMICOLON")>>
      BY <2>9 DEF Body
    <3>2. \A type \in {"INITIALIZER", "TOP_LEVEL_SCRIPT"} : NotIn(type) \in StatementPart
      BY <1>2, StatedItems, Zenon
    <3>3. /\ NotIn("INITIALIZER") \in StatementPart /\ Optional("RETURN", <<>>) \in StatementPart
          /\ NotIn("TOP_LEVEL_SCRIPT") \in StatementPart
          /\ Unless("SEMICOLON", <<Expression>>) \in StatementPart
          /\ Require("SEMICOLON") \in StatementPart
      BY <1>1, <1>3, <3>2, Zenon
    <3>4. QED
      BY <1>5, <3>1, <3>3
  <2>10. CASE name = "printStatement"
    <3>1. Body(name) = <<Optional("PRINT", <<>>), Expression, Expect("SEMICOLON")>>
      BY <2>10 DEF Body
    <3>2. /\ Optional("PRINT", <<>>) \in StatementPart /\ Expression \in StatementPart
          /\ Expect("SEMICOLON") \in StatementPart
      BY <1>1, <1>2, <1>3, Zenon
    <3>3. QED
      BY <1>5, <3>1, <3>2
  <2>11. CASE name = "expressionStatement"
    <3>1. Body(name) = <<Expression, Expect("SEMICOLON")>>
      BY <2>11 DEF Body
    <3>2. Expression \in StatementPart /\ Expect("SEMICOLON") \in StatementPart
      BY <1>1, <1>2, <1>3, Zenon
    <3>3. QED
      BY <1>5, <3>1, <3>2
  <2>12. "declaration" \in RuleName /\ "statement" \in RuleName
    BY DEF RuleName
  <2>13. CASE name = "ifStatement"
    <3>1. Body(name) =
           <<Optional("IF", <<>>), Expect("LEFT_PAREN"), Expression, Expect("RIGHT_PAREN"),
             Rule("declaration"), Optional("ELSE", <<Rule("statement")>>)>>
      BY <2>13 DEF Body
    <3>2. Rule("declaration") \in Stated /\ Rule("statement") \in Stated
      BY <1>4, <2>12, Zenon
    <3>3. /\ Optional("IF", <<>>) \in StatementPart /\ Expect("LEFT_PAREN") \in StatementPart
          /\ Expression \in StatementPart /\ Expect("RIGHT_PAREN") \in StatementPart
          /\ Rule("declaration") \in StatementPart
          /\ Optional("ELSE", <<Rule("statement")>>) \in StatementPart
      BY <1>1, <1>2, <1>3, <3>2, Zenon
    <3>4. QED
      BY <1>6, <3>1, <3>3
  <2>14. CASE name = "whileStatement"
    <3>1. Body(name) =
           <<Optional("WHILE", <<>>), Expect("LEFT_PAREN"), Expression, Expect("RIGHT_PAREN"),
             Rule("statement")>>
      BY <2>14 DEF Body
    <3>2. Rule("statement") \in Stated
      BY <1>4, <2>12, Zenon
    <3>3. /\ Optional("WHILE", <<>>) \in StatementPart /\ Expect("LEFT_PAREN") \in StatementPart
          /\ Expression \in StatementPart /\ Expect("RIGHT_PAREN") \in StatementPart
          /\ Rule("statement") \in StatementPart
      BY <1>1, <1>2, <1>3, <3>2, Zenon
    <3>4. QED
      BY <1>5, <3>1, <3>3
  <2>15. \/ name \in {"declaration", "statement", "initializer", "classDeclaration",
                      "functionDeclaration", "variableDeclaration", "block", "forStatement"}
         \/ name \in {"returnStatement", "printStatement", "expressionStatement", "ifStatement",
                      "whileStatement"}
    BY Zenon DEF RuleName
  <2>16. QED
    BY <2>1, <2>2, <2>3, <2>4, <2>5, <2>6, <2>7, <2>8, <2>9, <2>10, <2>11, <2>13, <2>14, <2>15,
       Zenon
<1>8. \A b \in Beginnings : b # <<>> /\ b # Block3
  BY BeginningsNotBrace
<1>9. \A p \in Seq(StatementPart) : p # Block3
  BY PlainNotBlock
<1>10. \A s : Outside(s) => Runs(Body(name), s, s)
  BY <1>7, Zenon DEF Runs, RunsOutside
<1>11. QED
  BY <1>7, <1>8, <1>9, <1>10, Zenon

-------------------------------------------------------------------------------
(***************************************************************************)
(* What the steps do at the items of the rules for declarations.           *)
(***************************************************************************)
LEMMA NothingBefore == \A S : \A s \in Seq(S) : <<>> \o s = s
OBVIOUS

LEMMA OptionalStep ==
  ASSUME NEW type, NEW more, rules # <<>>, Item = Optional(type, more), Parse
  PROVE  compilers' = compilers /\ (Go(more \o Rest) \/ Go(Rest))
<1>1. Item.op = "consume" /\ Item.items = more /\ Item.missing = "ignored" /\ Item.again = FALSE
  BY OptionalFields
<1>2. Consume
  BY <1>1, ActionOf
<1>3. QED
  BY <1>1, <1>2 DEF Consume

LEMMA RepeatStep ==
  ASSUME NEW type, NEW more, rules # <<>>, Item = Repeat(type, more), Parse
  PROVE  compilers' = compilers /\ (Go(more \o Last(rules)) \/ Go(Rest))
<1>1. Item.op = "consume" /\ Item.items = more /\ Item.missing = "ignored" /\ Item.again = TRUE
  BY RepeatFields
<1>2. Consume
  BY <1>1, ActionOf
<1>3. QED
  BY <1>1, <1>2 DEF Consume

LEMMA ExpectStep ==
  ASSUME NEW type, NEW S, Rest \in Seq(S), rules # <<>>, Item = Expect(type), Parse
  PROVE  compilers' = compilers /\ Go(Rest)
<1>1. Item.op = "consume" /\ Item.items = <<>> /\ Item.missing = "reported" /\ Item.again = FALSE
  BY ExpectFields
<1>2. Consume
  BY <1>1, ActionOf
<1>3. <<>> \o Rest = Rest
  BY NothingBefore
<1>4. QED
  BY <1>1, <1>2, <1>3 DEF Consume

LEMMA RequireStep ==
  ASSUME NEW type, NEW S, Rest \in Seq(S), rules # <<>>, Item = Require(type), Parse
  PROVE  /\ compilers' = compilers
         /\ \/ Go(Rest)
            \/ ~Is(current_token, type) /\ Return /\ Stay(<<"syntax">>) /\ status' = status
<1>1. /\ Item.op = "consume" /\ Item.items = <<>> /\ Item.missing = "returned" /\ Item.again = FALSE
      /\ Item.type = type
  BY RequireFields
<1>2. Consume
  BY <1>1, ActionOf
<1>3. <<>> \o Rest = Rest
  BY NothingBefore
<1>4. QED
  BY <1>1, <1>2, <1>3 DEF Consume

LEMMA ChangeStep ==
  ASSUME rules # <<>>, Parse
  PROVE  /\ Item = Initialised => compilers' = WithLast(MarkInitialized(Cur)) /\ Go(Rest)
         /\ Item = Opening => compilers' = WithLast(BeginScope(Cur)) /\ Go(Rest)
         /\ Item = Closing => compilers' = WithLast(PopScope(Cur)) /\ Go(Rest)
         /\ Item = Entering =>
              compilers' = WithLast([Cur EXCEPT !.within_class = TRUE]) /\ Go(Rest)
         /\ Item = Leaving =>
              compilers' = WithLast([Cur EXCEPT !.within_class = FALSE]) /\ Go(Rest)
<1>1. Item.op = "compiler" => compilers' = WithLast(Changed(Item.change)) /\ Go(Rest)
  BY ActionOf DEF ChangeCompiler
<1>2. \A i \in {Initialised, Opening, Closing, Entering, Leaving} : i.op = "compiler"
  BY ChangeItems
<1>3. /\ Changed(Initialised.change) = MarkInitialized(Cur)
      /\ Changed(Opening.change) = BeginScope(Cur)
      /\ Changed(Closing.change) = PopScope(Cur)
      /\ Changed(Entering.change) = [Cur EXCEPT !.within_class = TRUE]
      /\ Changed(Leaving.change) = [Cur EXCEPT !.within_class = FALSE]
  <2>1. Changed("initialized") = MarkInitialized(Cur)
    BY Zenon DEF Changed
  <2>2. Changed("begin scope") = BeginScope(Cur)
    BY Zenon DEF Changed
  <2>3. Changed("end scope") = PopScope(Cur)
    BY Zenon DEF Changed
  <2>4. Changed("enter class") = [Cur EXCEPT !.within_class = TRUE]
    BY Zenon DEF Changed
  <2>5. Changed("leave class") = [Cur EXCEPT !.within_class = FALSE]
    BY Zenon DEF Changed
  <2>6. QED
    BY <2>1, <2>2, <2>3, <2>4, <2>5, ChangeFields, Zenon
<1>4. QED
  BY <1>1, <1>2, <1>3

LEMMA DeclareStep ==
  ASSUME rules # <<>>, Item = Do("declare"), Parse
  PROVE  /\ Go(Rest)
         /\ \/ compilers' = compilers /\ Redeclares(Cur, previous_token)
            \/ compilers' = WithLast(DeclareVariable(Cur, previous_token))
<1>1. Item.op = "declare"
  BY Fields
<1>2. Declare
  BY <1>1, ActionOf, ZenonT(30)
<1>3. QED
  BY <1>2 DEF Declare

LEMMA EnterStep ==
  ASSUME NEW type, rules # <<>>, Item = FunctionOf(type), Parse
  PROVE  \/ status' = "aborted"
         \/ /\ previous_token \in Identifiers /\ Go(FunctionBody \o Rest)
            /\ compilers' = Append(compilers,
                 [BeginScope(NewCompiler(type, Cur.within_class)) EXCEPT
                    !.function_type = IF previous_token = "init" THEN "INITIALIZER" ELSE @])
<1>1. Item.op = "function" /\ Item.type = type
  BY Fields
<1>2. EnterFunction
  BY <1>1, ActionOf
<1>3. QED
  BY <1>1, <1>2 DEF EnterFunction

LEMMA FinishStep ==
  ASSUME rules # <<>>, Item = Finishing, Parse
  PROVE  compilers' = Front(compilers) /\ Go(Rest)
<1>1. Item.op = "end function"
  BY ChangeFields, Zenon
<1>2. EndFunction
  BY <1>1, ActionOf, Zenon
<1>3. QED
  BY <1>2, Zenon DEF EndFunction

LEMMA CallStep ==
  ASSUME rules # <<>>, Item.op = "rule", Parse
  PROVE  compilers' = compilers /\ Call(Body(Item.name))
<1>1. EnterRule
  BY ActionOf
<1>2. QED
  BY <1>1 DEF EnterRule

LEMMA LoopStep ==
  ASSUME rules # <<>>, Item.op = "until", Parse
  PROVE  /\ compilers' = compilers
         /\ \/ current_token \in Item.types /\ Go(Rest) /\ Stay(<<>>)
            \/ rules' = Append(rules, Body(Item.name))
<1>1. Loop
  BY ActionOf
<1>2. QED
  BY <1>1 DEF Loop

LEMMA ChoiceStep ==
  ASSUME NEW type, NEW more, rules # <<>>, Item = Unless(type, more), Parse
  PROVE  compilers' = compilers /\ (Go(<<>> \o Rest) \/ Go(more \o Rest))
<1>1. Item.op = "unless" /\ Item.items = more
  BY Fields
<1>2. Choice
  BY <1>1, ActionOf
<1>3. QED
  BY <1>1, <1>2 DEF Choice

LEMMA NamedStep ==
  ASSUME rules # <<>>, Item = Named(FALSE), Parse
  PROVE  compilers' = compilers /\ Go(<<>> \o Rest)
<1>1. Item.op = "named"
  BY Fields
<1>2. Item.can_assign = FALSE
  BY Fields
<1>3. NamedVariable
  BY <1>1, ActionOf, ZenonT(30)
<1>4. QED
  BY <1>2, <1>3 DEF NamedVariable

-------------------------------------------------------------------------------
(***************************************************************************)
(* Every step keeps the rules waiting for each other.                      *)
(***************************************************************************)
Continues(S, tail, now, after) ==
  \A q \in Seq(S) : Runs(q \o tail, now, after) /\ q \o tail # Block3
Splits(items, S, parts, tail) ==
  parts \in Seq(S) /\ parts # <<>> /\ (\E T : tail \in Seq(T)) /\ items = parts \o tail
LEMMA ReadingHolds ==
  ASSUME NEW states, NEW items, NEW now, NEW after, Innermost(states, items, now, after), Parse,
         NEW S, HasOperands(S), NEW parts, NEW tail, Splits(items, S, parts, tail),
         Head(parts).op \in Reads,
         Continues(S, tail, now, after), now.function = after.function, Settled(items),
         now = after \/ (Head(parts).op = "consume" => Head(parts).missing # "returned")
  PROVE  Held'
<1>0. PICK T : tail \in Seq(T)
  BY DEF Splits
<1>1. /\ rules # <<>> /\ Last(rules) = parts \o tail
      /\ parts \in Seq(S) /\ parts # <<>> /\ items = parts \o tail
  BY DEF Innermost, Splits
<1>2. /\ compilers' = compilers
      /\ \/ \E q \in Seq(S) : Go(q \o tail)
         \/ Return /\ Head(parts).op = "consume" /\ Head(parts).missing = "returned"
         \/ \E q \in Seq(OperandPart) \ {<<>>} : rules' = Append(rules, q)
         \/ rules' = rules
  BY <1>0, <1>1, Reading
<1>3. CASE (\E q \in Seq(S) : Go(q \o tail)) \/ rules' = rules
  <2>0. rules' = rules => Go(parts \o tail)
    <3>1. rules = Append(Front(rules), items) /\ items # <<>>
      BY InnermostFacts, FrontLast DEF Innermost
    <3>2. QED
      BY <1>1, <3>1 DEF Go
  <2>1. PICK q \in Seq(S) : Go(q \o tail)
    BY <1>1, <1>3, <2>0
  <2>2. Runs(q \o tail, now, after) /\ q \o tail # Block3
    BY <2>1 DEF Continues
  <2>3. QED
    BY <1>2, <2>1, <2>2, GoSame
<1>4. CASE Return /\ Head(parts).op = "consume" /\ Head(parts).missing = "returned"
  BY <1>2, <1>4, ReturnHolds
<1>5. CASE \E q \in Seq(OperandPart) \ {<<>>} : rules' = Append(rules, q)
  <2>1. PICK q \in Seq(OperandPart) : rules' = Append(rules, q)
    BY <1>5
  <2>2. Runs(q, now, now)
    BY DEF Runs
  <2>3. q # Block3
    BY PlainNotBlock
  <2>4. QED
    <3>1. /\ Innermost(states, items, now, after) /\ Settled(items) /\ compilers' = compilers
          /\ rules' = Append(rules, q) /\ Runs(q, now, now) /\ q # Block3
      BY <1>2, <2>1, <2>2, <2>3
    <3>2. QED
      BY <3>1, PushHolds, SMTT(30)
<1>6. QED
  BY <1>2, <1>3, <1>4, <1>5

LEMMA OperandsHold ==
  ASSUME NEW states, NEW items, NEW now, NEW after, Innermost(states, items, now, after), Parse,
         now = after, items \in Seq(OperandPart)
  PROVE  Held'
<1>1. items # <<>>
  BY InnermostFacts
<1>2. \A q \in Seq(OperandPart) : q \o <<>> = q
  OBVIOUS
<1>3. <<>> \in Seq(OperandPart) /\ items = items \o <<>>
  BY <1>2
<1>4. Continues(OperandPart, <<>>, now, after)
  BY <1>2, PlainNotBlock DEF Runs, Continues
<1>5. Head(items) \in OperandPart
  BY <1>1
<1>6. Head(items).op \in Reads
  BY <1>5, PartKinds, Zenon
<1>7. Settled(items) /\ HasOperands(OperandPart)
  BY PlainNotBlock, PartsHaveOperands
<1>8. Splits(items, OperandPart, items, <<>>)
  BY <1>1, <1>3 DEF Splits
<1>9. QED
  BY <1>4, <1>6, <1>7, <1>8, ReadingHolds

LEMMA StatementsHold ==
  ASSUME NEW states, NEW items, NEW now, NEW after, Innermost(states, items, now, after), Parse,
         now = after, Outside(after), items \in Seq(StatementPart)
  PROVE  Held'
<1>1. items # <<>> /\ rules # <<>> /\ items = Last(rules)
  BY InnermostFacts DEF Innermost
<1>2. \A q \in Seq(StatementPart) : q \o <<>> = q
  OBVIOUS
<1>3. <<>> \in Seq(StatementPart) /\ items = items \o <<>>
  BY <1>2
<1>4. \A q \in Seq(StatementPart) : Runs(q, now, after) /\ q # Block3 /\ Settled(q)
  BY PlainNotBlock DEF Runs, RunsOutside
<1>5. Item = Head(items) /\ Item \in StatementPart /\ Rest \in Seq(StatementPart)
  BY <1>1 DEF Item, Rest
<1>6. CASE Item.op \in Reads
  <2>1. Continues(StatementPart, <<>>, now, after)
    BY <1>2, <1>4 DEF Continues
  <2>2. HasOperands(StatementPart) /\ Settled(items) /\ Head(items).op \in Reads
    BY <1>4, <1>5, <1>6, PartsHaveOperands
  <2>3. Splits(items, StatementPart, items, <<>>)
    BY <1>1, <1>3 DEF Splits
  <2>4. QED
    BY <2>1, <2>2, <2>3, ReadingHolds
<1>7. CASE Item.op = "rule" /\ Item.name \in RuleName \cup {"functionDeclaration"}
  <2>1. compilers' = compilers /\ Call(Body(Item.name))
    BY <1>1, <1>7, CallStep
  <2>2. Runs(Body(Item.name), now, now) /\ Body(Item.name) # Block3
    BY <1>7, BodyRuns
  <2>3. Runs(Rest, now, after) /\ Settled(Rest)
    BY <1>4, <1>5
  <2>4. QED
    BY <2>1, <2>2, <2>3, CallHolds
<1>8. CASE Item.op = "until" /\ Item.name = "declaration"
  <2>1. compilers' = compilers /\ (Go(Rest) \/ rules' = Append(rules, Body("declaration")))
    BY <1>1, <1>8, LoopStep
  <2>2. "declaration" \in RuleName \cup {"functionDeclaration"}
    BY DEF RuleName
  <2>3. Runs(Body("declaration"), now, now) /\ Body("declaration") # Block3
    BY <2>2, BodyRuns
  <2>4. Settled(items) /\ Runs(Rest, now, after) /\ Rest # Block3
    BY <1>4, <1>5
  <2>5. CASE Go(Rest)
    BY <2>1, <2>4, <2>5, GoSame
  <2>6. CASE rules' = Append(rules, Body("declaration"))
    BY <2>1, <2>3, <2>4, <2>6, PushHolds
  <2>7. QED
    BY <2>1, <2>5, <2>6
<1>9. CASE Item.op \in {"not in", "recover", "synchronize", "advance"}
  <2>1. \/ Item.op = "not in" \/ Item.op = "recover" \/ Item.op = "synchronize"
        \/ Item.op = "advance"
    BY <1>9, Zenon
  <2>2. ForbidReturn \/ Recover \/ Synchronize \/ FirstAdvance
    BY <1>1, <2>1, ActionOf, Zenon
  <2>3. ForbidReturn => compilers' = compilers /\ (Return \/ Go(Rest))
    BY Zenon DEF ForbidReturn
  <2>4. Recover => compilers' = compilers /\ (Go(<<Do("synchronize")>> \o Rest) \/ Go(Rest))
    BY Zenon DEF Recover
  <2>5. Synchronize => compilers' = compilers /\ (rules' = rules \/ Go(Rest))
    BY Zenon DEF Synchronize
  <2>6. FirstAdvance => compilers' = compilers /\ (rules' = rules \/ Go(Rest))
    BY Zenon DEF FirstAdvance
  <2>7. /\ compilers' = compilers
        /\ Return \/ rules' = rules \/ Go(Rest) \/ Go(<<Do("synchronize")>> \o Rest)
    BY <2>2, <2>3, <2>4, <2>5, <2>6, Zenon
  <2>8. CASE Return
    BY <2>7, <2>8, ReturnHolds
  <2>9. CASE rules' = rules
    <3>1. BraceAwaited /\ BraceAwaited'
      BY <1>1, <1>4, <2>9 DEF BraceAwaited
    <3>2. Held
      BY <3>1 DEF Held, Innermost
    <3>3. QED
      BY <2>7, <2>9, <3>1, <3>2, SameHolds
  <2>10. CASE Go(Rest)
    BY <1>4, <1>5, <2>7, <2>10, GoSame
  <2>11. CASE Go(<<Do("synchronize")>> \o Rest)
    <3>1. Do("synchronize") \in StatementPart
      BY StatedItems, StatementItems
    <3>2. <<Do("synchronize")>> \o Rest \in Seq(StatementPart)
      BY <1>5, <3>1
    <3>3. QED
      BY <1>4, <2>7, <2>11, <3>2, GoSame
  <2>12. QED
    BY <2>7, <2>8, <2>9, <2>10, <2>11
<1>10. QED
  BY <1>5, <1>6, <1>7, <1>8, <1>9, PartKinds, Zenon

LEMMA LoopsHold ==
  ASSUME NEW states, NEW items, NEW now, NEW after, Innermost(states, items, now, after), Parse,
         Outside(after), now = Deeper(after), NEW parts \in Seq(LoopPart), items = parts \o Block4
  PROVE  Held'
<1>1. /\ items # <<>> /\ rules # <<>> /\ items = Last(rules) /\ after \in State
      /\ Cur \in CompilerRecord /\ Meets(Cur, now)
  BY InnermostFacts DEF Innermost
<1>2. after.locals = "tidy" /\ ~after.class
  BY DEF Outside
<1>3. /\ now \in State /\ now.function = after.function /\ now.locals = after.locals
      /\ now.class = after.class
  BY <1>1, StateFields
<1>4. Outside(now)
  BY <1>2, <1>3 DEF Outside
<1>5. PICK T : Block4 \in Seq(T)
  <2>1. Block4 \in Seq({Closing})
    BY DEF Block4
  <2>2. QED
    BY <2>1, Zenon
<1>6. \A q \in Seq(LoopPart) : Runs(q \o Block4, now, after)
  BY DEF Runs, RunsOutside
<1>7. \A q \in Seq(LoopPart) : Settled(q \o Block4) /\ q \o Block4 # Block3
  BY EndedNotBlock
<1>8. CASE parts = <<>>
  <2>1. <<>> \o Block4 = Block4
    BY <1>5, NothingBefore
  <2>2. Item = Closing /\ Rest = <<>>
    BY <1>1, <1>8, <2>1, BlockSteps DEF Item, Rest
  <2>3. compilers' = WithLast(PopScope(Cur)) /\ Go(<<>>)
    BY <1>1, <2>2, ChangeStep
  <2>4. PopScope(Cur) \in CompilerRecord /\ Meets(PopScope(Cur), after)
    BY <1>1, <1>2, MeetsPop
  <2>5. <<>> \in Seq(OperandPart) /\ <<>> # Block3
    BY DEF Block3
  <2>6. Runs(<<>>, after, after)
    BY <2>5 DEF Runs
  <2>7. QED
    BY <1>1, <1>3, <2>3, <2>4, <2>5, <2>6, GoHolds
<1>9. CASE parts # <<>>
  <2>1. /\ Item = Head(parts) /\ Item \in LoopPart /\ Rest = Tail(parts) \o Block4
        /\ Tail(parts) \in Seq(LoopPart)
    <3>1. /\ Head(parts \o Block4) = Head(parts) /\ Head(parts) \in LoopPart
          /\ Tail(parts \o Block4) = Tail(parts) \o Block4 /\ Tail(parts) \in Seq(LoopPart)
      BY <1>5, <1>9, Split
    <3>2. QED
      BY <1>1, <3>1 DEF Item, Rest
  <2>2. CASE Item.op \in Reads
    <3>1. HasOperands(LoopPart) /\ Settled(items)
      BY <1>7, PartsHaveOperands
    <3>2. Item.op = "consume" => Item.missing # "returned"
      BY <2>1, PartKinds, Zenon
    <3>3. Continues(LoopPart, Block4, now, after)
      BY <1>6, <1>7 DEF Continues
    <3>4. /\ now.function = after.function /\ Head(parts).op \in Reads
          /\ Head(parts).op = "consume" => Head(parts).missing # "returned"
      BY <1>3, <2>1, <2>2, <3>2
    <3>5. Splits(items, LoopPart, parts, Block4)
      BY <1>5, <1>9 DEF Splits
    <3>6. QED
      BY <3>1, <3>3, <3>4, <3>5, ReadingHolds
  <2>3. CASE Item.op = "rule" /\ Item.name \in RuleName \cup {"functionDeclaration"}
    <3>1. compilers' = compilers /\ Call(Body(Item.name))
      BY <1>1, <2>3, CallStep
    <3>2. Runs(Body(Item.name), now, now) /\ Body(Item.name) # Block3
      BY <1>4, <2>3, BodyRuns
    <3>3. Runs(Rest, now, after) /\ Settled(Rest)
      BY <1>6, <1>7, <2>1
    <3>4. QED
      BY <1>3, <3>1, <3>2, <3>3, CallHolds
  <2>4. QED
    BY <2>1, <2>2, <2>3, PartKinds, Zenon
<1>10. QED
  BY <1>8, <1>9

LEMMA InitializersHold ==
  ASSUME NEW states, NEW items, NEW now, NEW after, Innermost(states, items, now, after), Parse,
         Outside(after), now = Marking(after), NEW parts \in Seq(Quiet),
         items = parts \o <<Initialised>>
  PROVE  Held'
<1>1. /\ items # <<>> /\ rules # <<>> /\ items = Last(rules) /\ after \in State
      /\ Cur \in CompilerRecord /\ Meets(Cur, now)
  BY InnermostFacts DEF Innermost
<1>2. after.locals = "tidy"
  BY DEF Outside
<1>3. now \in State /\ now.function = after.function
  BY <1>1, StateFields
<1>4. <<Initialised>> \in Seq({Initialised}) /\ <<>> \o <<Initialised>> = <<Initialised>>
  OBVIOUS
<1>5. \A q \in Seq(Quiet) : Runs(q \o <<Initialised>>, now, after)
  BY DEF Runs, RunsOutside
<1>6. \A q \in Seq(Quiet) : Settled(q \o <<Initialised>>) /\ q \o <<Initialised>> # Block3
  BY EndedNotBlock
<1>7. CASE parts = <<>>
  <2>1. \A a : Head(<<a>>) = a /\ Tail(<<a>>) = <<>>
    OBVIOUS
  <2>2. Item = Initialised /\ Rest = <<>>
    BY <1>1, <1>4, <1>7, <2>1 DEF Item, Rest
  <2>3. compilers' = WithLast(MarkInitialized(Cur)) /\ Go(<<>>)
    BY <1>1, <2>2, ChangeStep
  <2>4. MarkInitialized(Cur) \in CompilerRecord /\ Meets(MarkInitialized(Cur), after)
    BY <1>1, <1>2, MeetsMarked
  <2>5. <<>> \in Seq(OperandPart) /\ <<>> # Block3
    BY DEF Block3
  <2>6. Runs(<<>>, after, after)
    BY <2>5 DEF Runs
  <2>7. QED
    BY <1>1, <1>3, <2>3, <2>4, <2>5, <2>6, GoHolds
<1>8. CASE parts # <<>>
  <2>1. Head(parts) \in Quiet
    BY <1>8
  <2>2. Head(parts).op \in Reads /\ (Head(parts).op = "consume" => Head(parts).missing # "returned")
    BY <2>1, PartKinds, Zenon
  <2>3. HasOperands(Quiet) /\ Settled(items) /\ Continues(Quiet, <<Initialised>>, now, after)
    BY <1>5, <1>6, PartsHaveOperands DEF Continues
  <2>4. Splits(items, Quiet, parts, <<Initialised>>)
    BY <1>4, <1>8 DEF Splits
  <2>5. QED
    BY <1>3, <2>2, <2>3, <2>4, ReadingHolds
<1>9. QED
  BY <1>7, <1>8

LEMMA LastJoined ==
  ASSUME NEW S, NEW T, NEW a \in Seq(S), NEW b \in Seq(T), b # <<>>
  PROVE  Last(a \o b) = Last(b) /\ a \o b # <<>>
<1>1. Len(b) \in Nat \ {0} /\ Len(a) \in Nat
  OBVIOUS
<1>2. Len(a \o b) = Len(a) + Len(b) /\ a \o b \in Seq(S \cup T)
  BY Joined
<1>3. (a \o b)[Len(a) + Len(b)] = b[Len(b)]
  BY <1>1
<1>4. a \o b # <<>>
  BY <1>1, <1>2
<1>5. QED
  BY <1>2, <1>3, <1>4 DEF Last

\* The parts of a function, and what ends it.
Beginning == <<Do("declare"), Initialised>>
LEMMA FunctionShapes ==
  ASSUME NEW parts \in Seq(FunctionPart), NEW marks \in BOOLEAN
  PROVE  LET list == parts \o FunctionEnd(marks)
         IN  /\ Last(list) = Last(FunctionEnd(marks)) /\ list # <<>>
             /\ Last(<<Initialised>> \o list) = Last(FunctionEnd(marks))
             /\ <<Initialised>> \o list # <<>>
             /\ Last(Beginning \o list) = Last(FunctionEnd(marks)) /\ Beginning \o list # <<>>
             /\ Head(<<Initialised>> \o list) = Initialised /\ Tail(<<Initialised>> \o list) = list
             /\ Head(Beginning \o list) = Do("declare")
             /\ Tail(Beginning \o list) = <<Initialised>> \o list
<1> DEFINE T == {Finishing, Initialised}
           U == FunctionPart \cup T
           V == {Do("declare"), Initialised}
           fe == FunctionEnd(marks)
           list == parts \o fe
<1>1. fe \in Seq(T) /\ fe # <<>>
  BY FunctionEnds
<1>2. Initialised \in V /\ Do("declare") \in V
  OBVIOUS
<1> HIDE DEF T, fe, V
<1>3. list \in Seq(U) /\ list # <<>> /\ Last(list) = Last(fe)
  BY <1>1, Joined, LastJoined
<1> HIDE DEF U, list
<1>4. <<Initialised>> \in Seq(V) /\ Beginning \in Seq(V)
  BY <1>2 DEF Beginning
<1>5. /\ Last(<<Initialised>> \o list) = Last(list) /\ <<Initialised>> \o list # <<>>
      /\ Last(Beginning \o list) = Last(list) /\ Beginning \o list # <<>>
  <2>1. Last(<<Initialised>> \o list) = Last(list) /\ <<Initialised>> \o list # <<>>
    <3> DEFINE a == <<Initialised>>
    <3>1. a \in Seq(V)
      BY <1>4
    <3> HIDE DEF a
    <3>2. Last(a \o list) = Last(list) /\ a \o list # <<>>
      BY <1>3, <3>1, LastJoined
    <3>3. QED
      BY <3>2 DEF a
  <2>2. Last(Beginning \o list) = Last(list) /\ Beginning \o list # <<>>
    BY <1>3, <1>4, LastJoined
  <2>3. QED
    BY <2>1, <2>2
<1>6. /\ \A a : Head(<<a>>) = a /\ Tail(<<a>>) = <<>> /\ <<a>> # <<>>
      /\ \A a, b : Head(<<a, b>>) = a /\ Tail(<<a, b>>) = <<b>> /\ <<a, b>> # <<>>
  OBVIOUS
<1>7. <<>> \o list = list
  BY <1>3, NothingBefore
<1>8. Head(<<Initialised>> \o list) = Initialised /\ Tail(<<Initialised>> \o list) = list
  <2>1. /\ Head(<<Initialised>> \o list) = Head(<<Initialised>>)
        /\ Tail(<<Initialised>> \o list) = Tail(<<Initialised>>) \o list
    BY <1>3, <1>4, <1>6, Split
  <2>2. QED
    BY <1>6, <1>7, <2>1
<1>9. Head(Beginning \o list) = Do("declare") /\ Tail(Beginning \o list) = <<Initialised>> \o list
  <2>1. Head(Beginning) = Do("declare") /\ Tail(Beginning) = <<Initialised>> /\ Beginning # <<>>
    BY <1>6 DEF Beginning
  <2>2. /\ Head(Beginning \o list) = Head(Beginning)
        /\ Tail(Beginning \o list) = Tail(Beginning) \o list
    BY <1>3, <1>4, <2>1, Split
  <2>3. QED
    BY <2>1, <2>2
<1>10. QED
  BY <1>3, <1>5, <1>8, <1>9 DEF list, fe

LEMMA FunctionRuns ==
  ASSUME NEW after, after.locals = "tidy", NEW marks \in BOOLEAN, marks => Outside(after),
         NEW parts \in Seq(FunctionPart)
  PROVE  LET list == parts \o FunctionEnd(marks)
         IN  /\ Runs(list, Calling(after, "tidy"), after)
             /\ Runs(Beginning \o list, Calling(after, "tidy"), after)
             /\ Runs(<<Initialised>> \o list, Calling(after, "declared"), after)
<1> DEFINE list == parts \o FunctionEnd(marks)
<1>1. /\ InFunction(list, Calling(after, "tidy"), after, marks)
      /\ InFunction(Beginning \o list, Calling(after, "tidy"), after, marks)
      /\ InFunction(<<Initialised>> \o list, Calling(after, "declared"), after, marks)
  BY Zenon DEF InFunction, Beginning
<1> HIDE DEF list
<1>2. CASE marks = TRUE
  <2>1. /\ InFunction(list, Calling(after, "tidy"), after, TRUE)
        /\ InFunction(Beginning \o list, Calling(after, "tidy"), after, TRUE)
        /\ InFunction(<<Initialised>> \o list, Calling(after, "declared"), after, TRUE)
    BY <1>1, <1>2
  <2>2. Outside(after)
    BY <1>2
  <2>3. \A l, now : InFunction(l, now, after, TRUE) => Runs(l, now, after)
    BY <2>2 DEF Runs, RunsOutside
  <2>4. QED
    BY <2>1, <2>3, Zenon DEF list
<1>3. CASE marks = FALSE
  <2>1. /\ InFunction(list, Calling(after, "tidy"), after, FALSE)
        /\ InFunction(Beginning \o list, Calling(after, "tidy"), after, FALSE)
        /\ InFunction(<<Initialised>> \o list, Calling(after, "declared"), after, FALSE)
    BY <1>1, <1>3
  <2>2. \A l, now : InFunction(l, now, after, FALSE) => Runs(l, now, after)
    BY DEF Runs
  <2>3. QED
    BY <2>1, <2>2, Zenon DEF list
<1>4. QED
  BY <1>2, <1>3 DEF list

LEMMA FunctionPartKinds ==
  \A p \in FunctionPart :
    /\ p # Opening
    /\ p.op = "consume" => p.missing # "returned"
    /\ \/ p = Expect("LEFT_PAREN") \/ p = Expect("RIGHT_PAREN")
       \/ p = Unless("RIGHT_PAREN", <<Parameter, Repeat("COMMA", <<Parameter>>)>>)
       \/ p = Parameter \/ p = Repeat("COMMA", <<Parameter>>) \/ p = Rule("block")
<1>1. Opening.op = "compiler"
  BY ChangeItems
<1>2. \A type : Expect(type).op = "consume" /\ Expect(type).missing = "reported"
  BY ExpectFields
<1>3. Parameter.op = "consume" /\ Parameter.missing = "ignored"
  BY OptionalFields DEF Parameter, ParseVariable
<1>4. \A type, items : Repeat(type, items).op = "consume" /\ Repeat(type, items).missing = "ignored"
  BY RepeatFields
<1>5. /\ \A type, items : Unless(type, items).op = "unless"
      /\ \A name : Rule(name).op = "rule"
  BY Fields
<1>6. \A p \in FunctionPart :
       \/ p = Expect("LEFT_PAREN") \/ p = Expect("RIGHT_PAREN")
       \/ p = Unless("RIGHT_PAREN", <<Parameter, Repeat("COMMA", <<Parameter>>)>>)
       \/ p = Parameter \/ p = Repeat("COMMA", <<Parameter>>) \/ p = Rule("block")
  BY Zenon DEF FunctionPart
<1>7. /\ \A x : x.op = "unless" \/ x.op = "rule" \/ x.op = "consume" => x # Opening
      /\ "unless" # "consume" /\ "rule" # "consume"
      /\ "reported" # "returned" /\ "ignored" # "returned"
  BY <1>1
<1>8. QED
  BY <1>2, <1>3, <1>4, <1>5, <1>6, <1>7, Zenon

LEMMA FunctionNotBlock ==
  ASSUME NEW parts \in Seq(FunctionPart), NEW marks \in BOOLEAN
  PROVE  LET list == parts \o FunctionEnd(marks)
         IN  /\ Settled(list) /\ list # Block3
             /\ Settled(Beginning \o list) /\ Beginning \o list # Block3
             /\ Settled(<<Initialised>> \o list) /\ <<Initialised>> \o list # Block3
<1> DEFINE list == parts \o FunctionEnd(marks)
<1>1. Settled(list) /\ list # Block3
  <2>1. FunctionEnd(marks) \in Seq({Finishing, Initialised}) /\ Head(FunctionEnd(marks)) = Finishing
    BY FunctionEnds
  <2>2. CASE parts = <<>>
    <3>1. Head(list) = Finishing
      BY <2>1, <2>2, NothingBefore
    <3>2. Finishing # Opening /\ Finishing.op # "consume"
      BY ChangeItems, Zenon
    <3>3. QED
      BY <3>1, <3>2, SettledByHead
  <2>3. CASE parts # <<>>
    <3>1. Head(list) \in FunctionPart
      BY <2>1, <2>3, Split
    <3>2. QED
      BY <3>1, FunctionPartKinds, SettledByHead
  <2>4. QED
    BY <2>2, <2>3
<1>2. Head(Beginning \o list) = Do("declare") /\ Head(<<Initialised>> \o list) = Initialised
  BY FunctionShapes
<1>3. /\ Do("declare").op = "declare" /\ Initialised.op = "compiler" /\ Opening.op = "compiler"
      /\ Initialised # Opening
  <2>1. Do("declare").op = "declare"
    BY Fields
  <2>2. QED
    BY <2>1, ChangeItems, Zenon
<1> HIDE DEF list
<1>4. Settled(Beginning \o list) /\ Beginning \o list # Block3
  BY <1>2, <1>3, SettledByHead
<1>5. Settled(<<Initialised>> \o list) /\ <<Initialised>> \o list # Block3
  BY <1>2, <1>3, SettledByHead
<1>6. QED
  BY <1>1, <1>4, <1>5 DEF list

LEMMA Pair ==
  ASSUME NEW a, NEW b
  PROVE  <<a>> \o <<b>> = <<a, b>>
<1> DEFINE U == {a, b}
<1>1. <<a>> \in Seq(U) /\ <<b>> \in Seq(U) /\ <<a, b>> \in Seq(U)
  OBVIOUS
<1>2. <<a>> \o <<b>> \in Seq(U)
  <2>1. \A s, t \in Seq(U) : s \o t \in Seq(U)
    OBVIOUS
  <2>2. QED
    BY <1>1, <2>1
<1>3. /\ Len(<<a>>) = 1 /\ Len(<<b>>) = 1 /\ Len(<<a, b>>) = 2
      /\ <<a>>[1] = a /\ <<b>>[1] = b /\ <<a, b>>[1] = a /\ <<a, b>>[2] = b
  OBVIOUS
<1> DEFINE s == <<a>>
           t == <<b>>
<1> HIDE DEF s, t, U
<1>4. Len(s \o t) = Len(s) + Len(t) /\ (s \o t)[1] = s[1] /\ (s \o t)[2] = t[1]
  <2>1. s \in Seq(U) /\ t \in Seq(U) /\ Len(s) = 1 /\ Len(t) = 1
    BY <1>1, <1>3 DEF s, t
  <2>2. 1 \in 1..Len(s) /\ 1 \in 1..Len(t) /\ Len(s) + 1 = 2
    BY <2>1
  <2>3. Len(s \o t) = Len(s) + Len(t)
    <3>1. \A S : \A x, y \in Seq(S) : Len(x \o y) = Len(x) + Len(y)
      OBVIOUS
    <3>2. QED
      BY <2>1, <3>1, Zenon
  <2>4. (s \o t)[1] = s[1]
    <3>1. \A S : \A x, y \in Seq(S) : \A k \in 1..Len(x) : (x \o y)[k] = x[k]
      OBVIOUS
    <3>2. \A k \in 1..Len(s) : (s \o t)[k] = s[k]
      BY <2>1, <3>1, Zenon
    <3>3. QED
      BY <2>2, <3>2, Zenon
  <2>5. (s \o t)[Len(s) + 1] = t[1]
    <3>1. \A S : \A x, y \in Seq(S) : \A k \in 1..Len(y) : (x \o y)[Len(x) + k] = y[k]
      OBVIOUS
    <3>2. \A k \in 1..Len(t) : (s \o t)[Len(s) + k] = t[k]
      BY <2>1, <3>1, Zenon
    <3>3. QED
      BY <2>2, <3>2, Zenon
  <2>6. QED
    BY <2>2, <2>3, <2>4, <2>5
<1>5. /\ Len(<<a>> \o <<b>>) = 2 /\ (<<a>> \o <<b>>)[1] = a /\ (<<a>> \o <<b>>)[2] = b
  BY <1>3, <1>4 DEF s, t
<1>6. \A i \in 1..2 : (<<a>> \o <<b>>)[i] = <<a, b>>[i]
  BY <1>3, <1>5
<1>7. QED
  BY <1>1, <1>2, <1>3, <1>5, <1>6, SameSequence

\* The parameters and the body are read by the function's own compiler.
LEMMA PartsHold ==
  ASSUME NEW states, NEW items, NEW now, NEW after, Innermost(states, items, now, after), Parse,
         after.locals = "tidy", NEW marks \in BOOLEAN, marks => Outside(after),
         NEW parts \in Seq(FunctionPart), parts # <<>>, items = parts \o FunctionEnd(marks),
         now = Calling(after, "tidy")
  PROVE  Held'
<1> DEFINE fe == FunctionEnd(marks)
           rest == Tail(parts) \o fe
<1>1. /\ items # <<>> /\ rules # <<>> /\ items = Last(rules) /\ after \in State
  BY InnermostFacts DEF Innermost
<1>2. fe \in Seq({Finishing, Initialised})
  BY FunctionEnds
<1> HIDE DEF fe
<1>3. /\ Item = Head(parts) /\ Item \in FunctionPart /\ Rest = rest
      /\ Tail(parts) \in Seq(FunctionPart)
  <2>1. /\ Head(parts \o fe) = Head(parts) /\ Head(parts) \in FunctionPart
        /\ Tail(parts \o fe) = Tail(parts) \o fe /\ Tail(parts) \in Seq(FunctionPart)
    BY <1>2, Split
  <2>2. items = parts \o fe
    BY DEF fe
  <2>3. QED
    BY <1>1, <2>1, <2>2 DEF Item, Rest
<1>4. \A q \in Seq(FunctionPart) :
        /\ Runs(q \o fe, now, after) /\ Settled(q \o fe) /\ q \o fe # Block3
        /\ Last(q \o fe) = Last(items)
  BY FunctionRuns, FunctionShapes, FunctionNotBlock DEF fe
<1>5. \A a, b \in Seq(FunctionPart) : a \o b \in Seq(FunctionPart) /\ a \o (b \o fe) = (a \o b) \o fe
  BY <1>2, Joins
<1>6. ASSUME NEW q \in Seq(FunctionPart), Go(q \o fe), compilers' = compilers
      PROVE  Held'
  BY <1>4, <1>6, GoSame
<1>7. ASSUME Go(rest), compilers' = compilers
      PROVE  Held'
  BY <1>3, <1>6, <1>7
<1>8. ASSUME NEW more \in Seq(FunctionPart), Go(more \o rest), compilers' = compilers
      PROVE  Held'
  <2>1. more \o Tail(parts) \in Seq(FunctionPart) /\ more \o rest = (more \o Tail(parts)) \o fe
    BY <1>3, <1>5
  <2>2. Go((more \o Tail(parts)) \o fe)
    BY <1>8, <2>1
  <2>3. QED
    BY <1>6, <1>8, <2>1, <2>2
<1>9. rest \in Seq(FunctionPart \cup {Finishing, Initialised})
  BY <1>2, <1>3, Joined
<1>10. Parameter \in FunctionPart /\ Repeat("COMMA", <<Parameter>>) \in FunctionPart
  BY Zenon DEF FunctionPart
<1> HIDE DEF rest
<1>11. CASE Item = Expect("LEFT_PAREN") \/ Item = Expect("RIGHT_PAREN")
  <2>1. compilers' = compilers /\ Go(rest)
    BY <1>1, <1>3, <1>9, <1>11, ExpectStep
  <2>2. QED
    BY <1>7, <2>1
<1>12. CASE Item = Unless("RIGHT_PAREN", <<Parameter, Repeat("COMMA", <<Parameter>>)>>)
  <2> DEFINE more == <<Parameter, Repeat("COMMA", <<Parameter>>)>>
  <2>1. compilers' = compilers /\ (Go(<<>> \o rest) \/ Go(more \o rest))
    BY <1>1, <1>3, <1>12, ChoiceStep
  <2>2. more \in Seq(FunctionPart) /\ <<>> \in Seq(FunctionPart)
    BY <1>10
  <2> HIDE DEF more
  <2>3. QED
    BY <1>8, <2>1, <2>2
<1>13. CASE Item = Parameter
  <2>1. Parameter = Optional("IDENTIFIER", <<Do("declare")>> \o <<Initialised>>)
    BY Zenon DEF Parameter, ParseVariable
  <2>2. <<Do("declare")>> \o <<Initialised>> = <<Do("declare"), Initialised>>
    BY Pair
  <2>3. Parameter = Optional("IDENTIFIER", Beginning)
    BY <2>1, <2>2, Zenon DEF Beginning
  <2>4. compilers' = compilers /\ (Go(Beginning \o rest) \/ Go(rest))
    BY <1>1, <1>3, <1>13, <2>3, OptionalStep
  <2>5. CASE Go(Beginning \o rest)
    <3>1. /\ Runs(Beginning \o rest, now, after) /\ Beginning \o rest # Block3
          /\ Last(Beginning \o rest) = Last(items)
      BY <1>3, FunctionRuns, FunctionShapes, FunctionNotBlock DEF rest, fe
    <3>2. QED
      BY <2>4, <2>5, <3>1, GoSame
  <2>6. QED
    BY <1>7, <2>4, <2>5
<1>14. CASE Item = Repeat("COMMA", <<Parameter>>)
  <2>1. compilers' = compilers /\ (Go(<<Parameter>> \o Last(rules)) \/ Go(rest))
    BY <1>1, <1>3, <1>14, RepeatStep
  <2>2. CASE Go(<<Parameter>> \o Last(rules))
    <3>1. <<Parameter>> \in Seq(FunctionPart)
      BY <1>10
    <3>2. /\ <<Parameter>> \o parts \in Seq(FunctionPart)
          /\ <<Parameter>> \o (parts \o fe) = (<<Parameter>> \o parts) \o fe
      BY <1>5, <3>1, Zenon
    <3>3. Last(rules) = parts \o fe
      BY <1>1 DEF fe
    <3>4. Go((<<Parameter>> \o parts) \o fe)
      BY <2>2, <3>2, <3>3, Zenon
    <3>5. QED
      BY <1>6, <2>1, <3>2, <3>4
  <2>3. QED
    BY <1>7, <2>1, <2>2
<1>15. CASE Item = Rule("block")
  <2>1. Item.op = "rule" /\ Item.name = "block"
    BY <1>15, Fields
  <2>2. compilers' = compilers /\ Call(Body("block"))
    BY <1>1, <2>1, CallStep
  <2>3. "block" \in RuleName \cup {"functionDeclaration"}
    BY DEF RuleName
  <2>4. Outside(now)
    BY <1>1, CallingFields
  <2>5. Runs(Body("block"), now, now) /\ Body("block") # Block3
    BY <2>3, <2>4, BodyRuns
  <2>6. Runs(rest, now, after) /\ Settled(rest) /\ Last(rest) = Last(items)
    BY <1>3, <1>4 DEF rest
  <2>7. QED
    BY <1>3, <2>2, <2>5, <2>6, CallHolds
<1>16. QED
  BY <1>3, <1>11, <1>12, <1>13, <1>14, <1>15, FunctionPartKinds

LEMMA EndHolds ==
  ASSUME NEW states, NEW items, NEW now, NEW after, Innermost(states, items, now, after), Parse,
         after.locals = "tidy", NEW marks \in BOOLEAN, marks => Outside(after),
         items = FunctionEnd(marks), now = Calling(after, "tidy")
  PROVE  Held'
<1>1. /\ items # <<>> /\ rules # <<>> /\ items = Last(rules) /\ after \in State
  BY InnermostFacts DEF Innermost
<1>2. Item = Finishing /\ Rest = Remainder(marks)
  BY <1>1, FunctionEnds DEF Item, Rest
<1>3. compilers' = Front(compilers) /\ Go(Remainder(marks))
  BY <1>1, <1>2, FinishStep
<1>4. now.function = after.function + 1
  BY <1>1, CallingFields
<1>5. /\ \A a : Last(<<a>>) = a
      /\ \A a, b : Last(<<a, b>>) = b
  BY DEF Last
<1>6. Finishing # Initialised
  BY ChangeItems, Zenon
<1>7. CASE marks
  <2>1. Remainder(marks) = <<Initialised>> /\ items = <<Finishing, Initialised>>
    BY <1>7, Zenon DEF Remainder, FunctionEnd
  <2>2. Awaited(items, after) = Marked(after)
    BY <1>5, <2>1, Zenon DEF Awaited
  <2>3. Marking(after) \in State /\ Marking(after).function = after.function
    BY <1>1, StateFields
  <2>4. \A c : Meets(c, Awaited(items, after)) => Meets(c, Marking(after))
    BY <1>1, <2>2, MeetsAgain
  <2>5. Runs(<<Initialised>>, Marking(after), after)
    <3>1. <<>> \in Seq(Quiet) /\ <<>> \o <<Initialised>> = <<Initialised>>
      OBVIOUS
    <3>2. RunsOutside(<<Initialised>>, Marking(after), after)
      BY <3>1 DEF RunsOutside
    <3>3. QED
      BY <1>7, <3>2 DEF Runs
  <2>6. <<Initialised>> # Block3
    BY DEF Block3
  <2>7. Go(<<Initialised>>)
    BY <1>3, <2>1
  <2>8. QED
    BY <1>3, <1>4, <2>3, <2>4, <2>5, <2>6, <2>7, LeaveHolds
<1>8. CASE ~marks
  <2>1. Remainder(marks) = <<>> /\ items = <<Finishing>>
    BY <1>8, Zenon DEF Remainder, FunctionEnd
  <2>2. Awaited(items, after) = after
    BY <1>5, <1>6, <2>1, Zenon DEF Awaited
  <2>3. \A c : Meets(c, Awaited(items, after)) => Meets(c, after)
    BY <2>2
  <2>4. <<>> \in Seq(OperandPart) /\ <<>> # Block3
    BY DEF Block3
  <2>5. Runs(<<>>, after, after)
    BY <2>4 DEF Runs
  <2>6. Go(<<>>)
    BY <1>3, <2>1
  <2>7. QED
    BY <1>1, <1>3, <1>4, <2>3, <2>4, <2>5, <2>6, LeaveHolds
<1>9. QED
  BY <1>7, <1>8

LEMMA FunctionsHold ==
  ASSUME NEW states, NEW items, NEW now, NEW after, Innermost(states, items, now, after), Parse,
         after.locals = "tidy", NEW marks \in BOOLEAN, marks => Outside(after),
         InFunction(items, now, after, marks), previous_token \in Word
  PROVE  Held'
<1>1. PICK parts \in Seq(FunctionPart) :
         \/ /\ now = Calling(after, "tidy")
            /\ \/ items = parts \o FunctionEnd(marks)
               \/ items = Beginning \o (parts \o FunctionEnd(marks))
         \/ /\ now = Calling(after, "declared")
            /\ items = <<Initialised>> \o (parts \o FunctionEnd(marks))
  BY Zenon DEF InFunction, Beginning
<1>2. /\ items # <<>> /\ rules # <<>> /\ items = Last(rules) /\ after \in State
      /\ Cur \in CompilerRecord /\ Meets(Cur, now)
  BY InnermostFacts DEF Innermost
<1> DEFINE list == parts \o FunctionEnd(marks)
           tidy == Calling(after, "tidy")
<1>3. /\ tidy \in State /\ tidy.function = after.function + 1 /\ tidy.locals = "tidy"
      /\ Calling(after, "declared") = Marking(tidy)
  BY <1>2, CallingFields
<1>4. Marking(tidy) \in State /\ Marking(tidy).function = tidy.function
  BY <1>3, StateFields
<1>5. /\ Runs(list, tidy, after) /\ Runs(<<Initialised>> \o list, Marking(tidy), after)
  BY <1>3, FunctionRuns
<1>6. list # Block3 /\ <<Initialised>> \o list # Block3
  BY FunctionNotBlock
<1>7. /\ Last(list) = Last(FunctionEnd(marks))
      /\ Last(<<Initialised>> \o list) = Last(FunctionEnd(marks))
      /\ Last(Beginning \o list) = Last(FunctionEnd(marks))
      /\ Head(<<Initialised>> \o list) = Initialised /\ Tail(<<Initialised>> \o list) = list
      /\ Head(Beginning \o list) = Do("declare")
      /\ Tail(Beginning \o list) = <<Initialised>> \o list
  BY FunctionShapes
<1>8. CASE now = tidy /\ items = list
  <2>1. CASE parts = <<>>
    <3>1. items = FunctionEnd(marks)
      BY <1>8, <2>1, FunctionEnds, NothingBefore
    <3>2. QED
      BY <1>8, <3>1, EndHolds
  <2>2. CASE parts # <<>>
    BY <1>8, <2>2, PartsHold
  <2>3. QED
    BY <2>1, <2>2
<1> HIDE DEF list, tidy
<1>9. CASE now = tidy /\ items = Beginning \o list
  <2>1. Item = Do("declare") /\ Rest = <<Initialised>> \o list
    BY <1>2, <1>7, <1>9 DEF Item, Rest
  <2>2. /\ Go(<<Initialised>> \o list)
        /\ \/ compilers' = compilers /\ Redeclares(Cur, previous_token)
           \/ compilers' = WithLast(DeclareVariable(Cur, previous_token))
    BY <1>2, <2>1, DeclareStep
  <2>3. /\ DeclareVariable(Cur, previous_token) \in CompilerRecord
        /\ Meets(DeclareVariable(Cur, previous_token), Marking(tidy))
        /\ Redeclares(Cur, previous_token) => Meets(Cur, Marking(tidy))
    BY <1>2, <1>3, <1>9, MeetsDeclared
  <2>4. compilers = WithLast(Cur)
    BY InnermostFacts, LastSame DEF Innermost
  <2>5. PICK c \in CompilerRecord : compilers' = WithLast(c) /\ Meets(c, Marking(tidy))
    BY <1>2, <2>2, <2>3, <2>4
  <2>6. QED
    BY <1>3, <1>4, <1>5, <1>6, <1>7, <1>9, <2>2, <2>5, GoHolds
<1>10. CASE now = Calling(after, "declared") /\ items = <<Initialised>> \o list
  <2>1. Item = Initialised /\ Rest = list
    BY <1>2, <1>7, <1>10 DEF Item, Rest
  <2>2. compilers' = WithLast(MarkInitialized(Cur)) /\ Go(list)
    BY <1>2, <2>1, ChangeStep
  <2>3. Meets(Cur, Marking(tidy)) /\ now = Marking(tidy)
    BY <1>2, <1>3, <1>10
  <2>4. MarkInitialized(Cur) \in CompilerRecord /\ Meets(MarkInitialized(Cur), tidy)
    BY <1>2, <1>3, <2>3, MeetsMarked
  <2>5. QED
    BY <1>3, <1>4, <1>5, <1>6, <1>7, <1>10, <2>2, <2>3, <2>4, GoHolds
<1>11. QED
  BY <1>1, <1>8, <1>9, <1>10 DEF list, tidy

\* A list and the item that ends it.
LEMMA Ended ==
  ASSUME NEW U, NEW s \in Seq(U), NEW t \in Seq(U), NEW x, Len(t) = Len(s) + 1,
         \A i \in 1..Len(s) : t[i] = s[i], t[Len(s) + 1] = x
  PROVE  s \o <<x>> = t
<1>1. s \o <<x>> = Append(s, x)
  OBVIOUS
<1>2. Len(s) \in Nat /\ x \in U
  <2>1. Len(s) \in Nat
    OBVIOUS
  <2>2. Len(s) + 1 \in 1..Len(t)
    BY <2>1
  <2>3. \A i \in 1..Len(t) : t[i] \in U
    OBVIOUS
  <2>4. QED
    BY <2>1, <2>2, <2>3
<1>3. /\ Append(s, x) \in Seq(U) /\ Len(Append(s, x)) = Len(s) + 1
      /\ \A i \in 1..Len(s) : Append(s, x)[i] = s[i]
      /\ Append(s, x)[Len(s) + 1] = x
  BY <1>2
<1>4. \A i \in 1..(Len(s) + 1) : i \in 1..Len(s) \/ i = Len(s) + 1
  BY <1>2
<1>5. \A i \in 1..(Len(s) + 1) : Append(s, x)[i] = t[i]
  BY <1>3, <1>4
<1>6. QED
  BY <1>1, <1>3, <1>5, SameSequence

LEMMA Ended2 ==
  ASSUME NEW a, NEW b, NEW c
  PROVE  <<a, b>> \o <<c>> = <<a, b, c>>
<1> DEFINE U == {a, b, c}
           s == <<a, b>>
           t == <<a, b, c>>
<1>1. s \in Seq(U) /\ t \in Seq(U) /\ Len(s) = 2 /\ Len(t) = 3
  OBVIOUS
<1>2. s[1] = a /\ s[2] = b /\ t[1] = a /\ t[2] = b /\ t[3] = c
  OBVIOUS
<1> HIDE DEF s, t, U
<1>3. \A i \in 1..Len(s) : t[i] = s[i]
  <2>1. \A i \in 1..2 : i = 1 \/ i = 2
    OBVIOUS
  <2>2. QED
    BY <1>1, <1>2, <2>1
<1>4. s \o <<c>> = t
  <2>1. Len(t) = Len(s) + 1 /\ t[Len(s) + 1] = c
    BY <1>1, <1>2, <1>3
  <2>2. QED
    BY <1>1, <1>2, <1>3, <2>1, Ended, Zenon
<1>5. QED
  BY <1>4 DEF s, t

LEMMA Ended3 ==
  ASSUME NEW a, NEW b, NEW c, NEW d
  PROVE  <<a, b, c>> \o <<d>> = <<a, b, c, d>>
<1> DEFINE U == {a, b, c, d}
           s == <<a, b, c>>
           t == <<a, b, c, d>>
<1>1. s \in Seq(U) /\ t \in Seq(U) /\ Len(s) = 3 /\ Len(t) = 4
  OBVIOUS
<1>2. s[1] = a /\ s[2] = b /\ s[3] = c
  OBVIOUS
<1>3. t[1] = a /\ t[2] = b /\ t[3] = c /\ t[4] = d
  OBVIOUS
<1> HIDE DEF s, t, U
<1>4. \A i \in 1..Len(s) : t[i] = s[i]
  <2>1. \A i \in 1..3 : i = 1 \/ i = 2 \/ i = 3
    OBVIOUS
  <2>2. QED
    BY <1>1, <1>2, <1>3, <2>1
<1>5. s \o <<d>> = t
  <2>1. Len(t) = Len(s) + 1 /\ t[Len(s) + 1] = d
    BY <1>1, <1>3, <1>4
  <2>2. QED
    BY <1>1, <1>3, <1>4, <2>1, Ended, Zenon
<1>6. QED
  BY <1>5 DEF s, t

LEMMA Ended4 ==
  ASSUME NEW a, NEW b, NEW c, NEW d, NEW e
  PROVE  <<a, b, c, d>> \o <<e>> = <<a, b, c, d, e>>
<1> DEFINE U == {a, b, c, d, e}
           s == <<a, b, c, d>>
           t == <<a, b, c, d, e>>
<1>1. s \in Seq(U) /\ t \in Seq(U) /\ Len(s) = 4 /\ Len(t) = 5
  OBVIOUS
<1>2. s[1] = a /\ s[2] = b /\ s[3] = c /\ s[4] = d
  OBVIOUS
<1>3. t[1] = a /\ t[2] = b /\ t[3] = c /\ t[4] = d /\ t[5] = e
  OBVIOUS
<1> HIDE DEF s, t, U
<1>4. \A i \in 1..Len(s) : t[i] = s[i]
  <2>1. \A i \in 1..4 : i = 1 \/ i = 2 \/ i = 3 \/ i = 4
    OBVIOUS
  <2>2. QED
    BY <1>1, <1>2, <1>3, <2>1
<1>5. s \o <<e>> = t
  <2>1. Len(t) = Len(s) + 1 /\ t[Len(s) + 1] = e
    BY <1>1, <1>3, <1>4
  <2>2. QED
    BY <1>1, <1>3, <1>4, <2>1, Ended, Zenon
<1>6. QED
  BY <1>5 DEF s, t

LEMMA Ended8 ==
  ASSUME NEW a, NEW b, NEW c, NEW d, NEW e, NEW f, NEW g, NEW h, NEW i
  PROVE  <<a, b, c, d, e, f, g, h>> \o <<i>> = <<a, b, c, d, e, f, g, h, i>>
<1> DEFINE U == {a, b, c, d, e, f, g, h, i}
           s == <<a, b, c, d, e, f, g, h>>
           t == <<a, b, c, d, e, f, g, h, i>>
<1>1. s \in Seq(U) /\ t \in Seq(U) /\ Len(s) = 8 /\ Len(t) = 9
  OBVIOUS
<1>2. s[1] = a /\ s[2] = b /\ s[3] = c /\ s[4] = d /\ s[5] = e /\ s[6] = f /\ s[7] = g /\ s[8] = h
  OBVIOUS
<1>3. /\ t[1] = a /\ t[2] = b /\ t[3] = c /\ t[4] = d /\ t[5] = e /\ t[6] = f /\ t[7] = g /\ t[8] = h
      /\ t[9] = i
  OBVIOUS
<1> HIDE DEF s, t, U
<1>4. \A k \in 1..Len(s) : t[k] = s[k]
  <2>1. \A k \in 1..8 : k = 1 \/ k = 2 \/ k = 3 \/ k = 4 \/ k = 5 \/ k = 6 \/ k = 7 \/ k = 8
    OBVIOUS
  <2>2. QED
    BY <1>1, <1>2, <1>3, <2>1
<1>5. s \o <<i>> = t
  <2>1. Len(t) = Len(s) + 1 /\ t[Len(s) + 1] = i
    BY <1>1, <1>3, <1>4
  <2>2. QED
    BY <1>1, <1>3, <1>4, <2>1, Ended, Zenon
<1>6. QED
  BY <1>5 DEF s, t

\* What the rules for variables, loops and functions are put together from.
LEMMA VariableList ==
  \E parts \in Seq(Quiet) : VariableParts = parts \o <<Initialised>>
<1>1. "EQUAL" \in TypeName /\ "SEMICOLON" \in TypeName /\ "ignored" \in Kept /\ "reported" \in Kept
  BY Zenon DEF TypeName, Kept
<1>2. <<Expression>> \in Seq(Operand) /\ <<>> \in Seq(Operand)
  BY OperandItems
<1>3. Optional("EQUAL", <<Expression>>) \in Quiet /\ Expect("SEMICOLON") \in Quiet
  <2>1. \A type \in TypeName, items \in Seq(Operand), m \in Kept, again \in BOOLEAN :
          Token(type, items, m, again) \in Quiet
    BY TwiceItems, Zenon DEF Quiet
  <2>2. QED
    BY <1>1, <1>2, <2>1, Zenon DEF Optional, Expect
<1>4. <<Optional("EQUAL", <<Expression>>), Expect("SEMICOLON")>> \in Seq(Quiet)
  BY <1>3
<1>5. VariableParts = <<Optional("EQUAL", <<Expression>>), Expect("SEMICOLON")>> \o <<Initialised>>
  BY Ended2, Zenon DEF VariableParts
<1>6. QED
  BY <1>4, <1>5, Zenon

LEMMA ForList ==
  \E parts \in Seq(LoopPart) : Tail(For0) = parts \o Block4
<1>1. /\ \A type \in {"FOR", "LEFT_PAREN", "RIGHT_PAREN", "SEMICOLON"} : type \in TypeName
      /\ "ignored" \in Kept /\ "reported" \in Kept
      /\ "initializer" \in RuleName /\ "statement" \in RuleName
  BY Zenon DEF TypeName, Kept, RuleName
<1>2. \A n \in RuleName : Rule(n) \in Called
  <2>1. \A n \in RuleName : Rule(n) \in [op : {"rule"}, name : RuleName \cup {"functionDeclaration"}]
    BY DEF Rule
  <2>2. QED
    BY <2>1, Zenon DEF Called
<1>3. Expression \in Called
  BY OperandItems, Zenon DEF Called
<1>4. /\ Called \subseteq LoopPart
      /\ \A type \in TypeName, items \in Seq(Called), m \in Kept, again \in BOOLEAN :
           Token(type, items, m, again) \in LoopPart
      /\ \A type \in TypeName, items \in Seq(Around(Called, Kept)) : Unless(type, items) \in LoopPart
  BY TwiceItems, Zenon DEF LoopPart
<1>5. <<>> \in Seq(Called) /\ <<Expression>> \in Seq(Around(Called, Kept))
  <2>1. Expression \in Around(Called, Kept)
    BY <1>3, AroundItems
  <2>2. QED
    BY <2>1
<1>6. /\ Optional("FOR", <<>>) \in LoopPart /\ Expect("LEFT_PAREN") \in LoopPart
      /\ Expect("SEMICOLON") \in LoopPart /\ Expect("RIGHT_PAREN") \in LoopPart
  BY <1>1, <1>4, <1>5, Zenon DEF Optional, Expect
<1>7. /\ Unless("SEMICOLON", <<Expression>>) \in LoopPart
      /\ Unless("RIGHT_PAREN", <<Expression>>) \in LoopPart
      /\ Rule("initializer") \in LoopPart /\ Rule("statement") \in LoopPart
  BY <1>1, <1>2, <1>4, <1>5, Zenon
<1> DEFINE parts == <<Optional("FOR", <<>>), Expect("LEFT_PAREN"), Rule("initializer"),
                      Unless("SEMICOLON", <<Expression>>), Expect("SEMICOLON"),
                      Unless("RIGHT_PAREN", <<Expression>>), Expect("RIGHT_PAREN"),
                      Rule("statement")>>
<1>8. parts \in Seq(LoopPart)
  <2>1. \A a, b, c, d, e, f, g, h \in LoopPart : <<a, b, c, d, e, f, g, h>> \in Seq(LoopPart)
    OBVIOUS
  <2>2. QED
    BY <1>6, <1>7, <2>1
<1>9. \A a, b, c, d, e, f, g, h, i, j :
        For0 = <<a, b, c, d, e, f, g, h, i, j>> =>
          Tail(For0) = <<b, c, d, e, f, g, h, i>> \o <<j>>
  BY HeadTail10, Ended8
<1>10. For0 = <<Opening, Optional("FOR", <<>>), Expect("LEFT_PAREN"), Rule("initializer"),
                Unless("SEMICOLON", <<Expression>>), Expect("SEMICOLON"),
                Unless("RIGHT_PAREN", <<Expression>>), Expect("RIGHT_PAREN"),
                Rule("statement"), Closing>>
  BY Zenon DEF For0
<1>11. Tail(For0) = parts \o <<Closing>>
  BY <1>9, <1>10, Zenon
<1>12. QED
  BY <1>8, <1>11, Zenon DEF Block4

LEMMA FunctionList ==
  \E parts \in Seq(FunctionPart) :
    FunctionBody \o Remainder(FALSE) = parts \o FunctionEnd(FALSE)
      /\ FunctionBody \o Remainder(TRUE) = parts \o FunctionEnd(TRUE)
<1> DEFINE parts ==
      <<Expect("LEFT_PAREN"), Unless("RIGHT_PAREN", <<Parameter, Repeat("COMMA", <<Parameter>>)>>),
        Expect("RIGHT_PAREN"), Rule("block")>>
<1>1. parts \in Seq(FunctionPart)
  <2>1. /\ Expect("LEFT_PAREN") \in FunctionPart /\ Expect("RIGHT_PAREN") \in FunctionPart
        /\ Rule("block") \in FunctionPart
        /\ Unless("RIGHT_PAREN", <<Parameter, Repeat("COMMA", <<Parameter>>)>>) \in FunctionPart
    BY Zenon DEF FunctionPart
  <2>2. \A a, b, c, d \in FunctionPart : <<a, b, c, d>> \in Seq(FunctionPart)
    OBVIOUS
  <2>3. QED
    BY <2>1, <2>2
<1>2. FunctionBody = parts \o <<Finishing>>
  BY Ended4, Zenon DEF FunctionBody, Finishing, Parameter, Initialised
<1> HIDE DEF parts
<1> DEFINE T == {Finishing, Initialised}
<1>3. <<Finishing>> \in Seq(T) /\ <<Initialised>> \in Seq(T) /\ <<>> \in Seq(T)
      /\ <<Finishing, Initialised>> \in Seq(T)
  OBVIOUS
<1>4. \A U : \A s \in Seq(U) : s \o <<>> = s
  OBVIOUS
<1>5. FunctionBody \o <<>> = parts \o <<Finishing>>
  <2>1. <<Finishing>> \o <<>> = <<Finishing>>
    BY <1>3, <1>4, Zenon
  <2>2. (parts \o <<Finishing>>) \o <<>> = parts \o (<<Finishing>> \o <<>>)
    <3> DEFINE U == FunctionPart \cup T
    <3>1. parts \in Seq(U) /\ <<Finishing>> \in Seq(U) /\ <<>> \in Seq(U)
      <4>1. FunctionPart \subseteq U /\ T \subseteq U
        OBVIOUS
      <4> HIDE DEF U, T
      <4>2. QED
        BY <1>1, <1>3, <4>1
    <3> HIDE DEF U
    <3>2. QED
      BY <3>1, Associative
  <2>3. QED
    BY <1>2, <2>1, <2>2
<1>6. FunctionBody \o <<Initialised>> = parts \o <<Finishing, Initialised>>
  <2>1. <<Finishing>> \o <<Initialised>> = <<Finishing, Initialised>>
    BY Pair
  <2>2. (parts \o <<Finishing>>) \o <<Initialised>> = parts \o (<<Finishing>> \o <<Initialised>>)
    <3> DEFINE U == FunctionPart \cup T
    <3>1. parts \in Seq(U) /\ <<Finishing>> \in Seq(U) /\ <<Initialised>> \in Seq(U)
      <4>1. FunctionPart \subseteq U /\ T \subseteq U
        OBVIOUS
      <4> HIDE DEF U, T
      <4>2. QED
        BY <1>1, <1>3, <4>1
    <3> HIDE DEF U
    <3>2. QED
      BY <3>1, Associative
  <2>3. QED
    BY <1>2, <2>1, <2>2
<1>7. /\ Remainder(FALSE) = <<>> /\ Remainder(TRUE) = <<Initialised>>
      /\ FunctionEnd(FALSE) = <<Finishing>> /\ FunctionEnd(TRUE) = <<Finishing, Initialised>>
  BY Zenon DEF Remainder, FunctionEnd
<1>8. QED
  BY <1>1, <1>5, <1>6, <1>7, Zenon

\* A source that ends within a block leaves its scopes open: the error is known by then,
\* and no more tokens come.  A function without a name is not read to its end.
Lost   == encountered_error /\ current_token = EOF /\ AtEnd
Doomed ==
  \/ status = "aborted"
  \/ /\ status = "parsing" /\ rules # <<>> /\ Last(rules) \in {Function4, Function5}
     /\ previous_token \notin Identifiers

LEMMA TopItem ==
  ASSUME NEW states, NEW items, NEW now, NEW after, Innermost(states, items, now, after)
  PROVE  /\ rules # <<>> /\ items = Last(rules) /\ Item = Head(items) /\ Rest = Tail(items)
         /\ Rest \in Seq(Plain \cup Naming) /\ <<>> \o Rest = Rest
<1>1. /\ rules # <<>> /\ items = Last(rules) /\ items \in Lists
  BY InnermostFacts DEF Innermost
<1>2. Item = Head(items) /\ Rest = Tail(items)
  BY <1>1 DEF Item, Rest
<1> HIDE DEF Plain, Naming
<1>3. items \in Seq(Plain \cup Naming) /\ items # <<>>
  BY <1>1 DEF Lists
<1>4. Tail(items) \in Seq(Plain \cup Naming)
  BY <1>3
<1>5. QED
  BY <1>1, <1>2, <1>4, NothingBefore

LEMMA FunctionNamed ==
  ASSUME RulesInv, rules # <<>>, Last(rules) = Function2
  PROVE  previous_token = "FUN"
<1>1. Item = ParseVariable(<<>>) /\ Rest = Function4
  BY FunctionSteps DEF Item, Rest
<1>2. ParseVariable(<<>>).op = "consume" /\ ParseVariable(<<>>).type = "IDENTIFIER"
      /\ ParseVariable(<<>>).missing = "ignored"
  BY OptionalFields DEF ParseVariable
<1>3. Last(rules) \notin PlainList
  <2>1. Function2[3] = FunctionOf("FUNCTION") /\ Len(Function2) = 4
    BY DEF Function2
  <2>2. FunctionOf("FUNCTION").op = "function"
    BY Fields
  <2>3. FunctionOf("FUNCTION") \notin Plain
    BY <2>2, PlainItems
  <2> HIDE DEF Plain
  <2>4. Function2 \in Seq(Plain) => Function2[3] \in Plain
    <3>1. \A S : \A s \in Seq(S) : \A i \in 1..Len(s) : s[i] \in S
      OBVIOUS
    <3>2. 3 \in 1..Len(Function2)
      BY <2>1
    <3>3. QED
      BY <3>1, <3>2, Zenon
  <2>5. QED
    BY <2>1, <2>3, <2>4 DEF PlainList
<1>4. Names(Last(rules))
  BY <1>3 DEF RulesInv
<1>5. /\ Rule("functionDeclaration").op = "rule" /\ Optional("FUN", <<>>).type = "FUN"
      /\ Do("declare").op = "declare" /\ Compilers("initialized").op = "compiler"
      /\ FunctionOf("FUNCTION").op = "function" /\ FunctionOf("METHOD").op = "function"
      /\ Require("IDENTIFIER").missing = "returned"
  BY Fields, OptionalFields, RequireFields
<1>6. QED
  BY <1>1, <1>2, <1>4, <1>5, NamingItems, Zenon

LEMMA Begun3 ==
  \A a, b, c, d : <<a>> \o <<b, c, d>> = <<a, b, c, d>>
<1> SUFFICES ASSUME NEW a, NEW b, NEW c, NEW d
             PROVE  <<a>> \o <<b, c, d>> = <<a, b, c, d>>
  BY Zenon
<1> DEFINE U == {a, b, c, d}
<1>1. <<a>> \in Seq(U) /\ <<b>> \in Seq(U) /\ <<a, b>> \in Seq(U) /\ <<b, c>> \in Seq(U)
      /\ <<c>> \in Seq(U) /\ <<d>> \in Seq(U)
  OBVIOUS
<1> HIDE DEF U
<1>2. <<b, c, d>> = <<b, c>> \o <<d>> /\ <<b, c>> = <<b>> \o <<c>>
  BY Ended2, Pair
<1>3. <<a>> \o (<<b, c>> \o <<d>>) = (<<a>> \o <<b, c>>) \o <<d>>
  BY <1>1, Associative
<1>4. <<a>> \o (<<b>> \o <<c>>) = (<<a>> \o <<b>>) \o <<c>>
  BY <1>1, Associative
<1>5. <<a>> \o <<b, c>> = <<a, b, c>>
  <2>1. <<a>> \o <<b>> = <<a, b>> /\ <<a, b>> \o <<c>> = <<a, b, c>>
    BY Pair, Ended2
  <2>2. QED
    BY <1>2, <1>4, <2>1, Zenon
<1>6. <<a, b, c>> \o <<d>> = <<a, b, c, d>>
  BY Ended3
<1>7. QED
  BY <1>2, <1>3, <1>5, <1>6

\* What follows a name just read.
LEMMA VariableDeclared ==
  (<<Do("declare")>> \o VariableParts) \o <<>> = Variable3
<1>1. \A a, b, c, d : <<a>> \o <<b, c, d>> = <<a, b, c, d>>
  BY Begun3, Zenon
<1>2. <<Do("declare")>> \o VariableParts = Variable3
  BY <1>1, Zenon DEF VariableParts, Variable3
<1>3. \A a, b, c, d : <<a, b, c, d>> \o <<>> = <<a, b, c, d>>
  <2>1. \A a, b, c, d : <<a, b, c, d>> \in Seq({a, b, c, d})
    OBVIOUS
  <2>2. \A S : \A s \in Seq(S) : s \o <<>> = s
    OBVIOUS
  <2>3. QED
    BY <2>1, <2>2, Zenon
<1>4. Variable3 \o <<>> = Variable3
  BY <1>3, Zenon DEF Variable3
<1>5. QED
  BY <1>2, <1>4

LEMMA FunctionDeclared ==
  (<<Do("declare")>> \o <<>>) \o Function4 = Function3
<1>1. \A a : <<a>> \o <<>> = <<a>>
  OBVIOUS
<1>2. \A a, b, c, d : <<a>> \o <<b, c, d>> = <<a, b, c, d>>
  BY Begun3, Zenon
<1>3. QED
  BY <1>1, <1>2, Zenon DEF Function3, Function4

\* Only one list is the end of a block.
LEMMA BlocksDiffer ==
  /\ Block1 # Block3 /\ Block2 # Block3 /\ Block4 # Block3 /\ Function4 # Block3
  /\ Function5 # Block3 /\ Class4 # Block3 /\ Class6 # Block3 /\ Class7 # Block3
  /\ Class8 # Block3 /\ Class9 # Block3 /\ Class10 # Block3 /\ Method1 # Block3
  /\ Method2 # Block3
  /\ Settled(Block2) /\ Settled(Class8)
<1>1. /\ Head(Block3) = Require("RIGHT_BRACE") /\ Require("RIGHT_BRACE").op = "consume"
      /\ Require("RIGHT_BRACE").missing = "returned" /\ Require("RIGHT_BRACE").type = "RIGHT_BRACE"
  BY BlockSteps, RequireFields
<1>2. /\ \A type : Expect(type).missing = "reported"
      /\ Require("IDENTIFIER").type = "IDENTIFIER"
  BY ExpectFields, RequireFields
<1>3. Initialised.op = "compiler" /\ Closing.op = "compiler" /\ Leaving.op = "compiler"
      /\ Opening.op = "compiler" /\ Declarations.op = "until" /\ Methods.op = "until"
  BY ChangeItems, Zenon
<1>4. FunctionOf("FUNCTION").op = "function" /\ FunctionOf("METHOD").op = "function"
  BY Fields
<1>5. Named(FALSE).op = "named"
  BY Fields
<1>6. Block1 # Block3 /\ Block2 # Block3 /\ Block4 # Block3
  BY <1>1, <1>2, <1>3, BlockSteps
<1>7. Function4 # Block3 /\ Function5 # Block3 /\ Method1 # Block3 /\ Method2 # Block3
  BY <1>1, <1>2, <1>3, <1>4, FunctionSteps
<1>8. /\ Class4 # Block3 /\ Class6 # Block3 /\ Class7 # Block3
      /\ Class8 # Block3 /\ Class9 # Block3 /\ Class10 # Block3
  <2>1. "compiler" # "consume" /\ "named" # "consume" /\ "until" # "consume"
        /\ "reported" # "returned"
    OBVIOUS
  <2>2. QED
    BY <1>1, <1>2, <1>3, <1>5, <2>1, ClassSteps, ZenonT(60)
<1>9. Settled(Block2) /\ Settled(Class8)
  <2>1. Head(Block2) = Declarations /\ Head(Class8) = Methods
    BY BlockSteps, ClassSteps
  <2>2. Declarations # Opening /\ Methods # Opening /\ Declarations.op # "consume"
        /\ Methods.op # "consume"
    BY <1>3
  <2>3. QED
    BY <2>1, <2>2, SettledByHead
<1>10. QED
  BY <1>6, <1>7, <1>8, <1>9, Zenon

LEMMA BeginningsHold ==
  ASSUME NEW states, NEW items, NEW now, NEW after, Innermost(states, items, now, after), Parse,
         now = after, Outside(after), items \in Beginnings, RulesInv, previous_token \in Word,
         "FUN" \notin Identifiers
  PROVE  Held' \/ Doomed'
<1>1. /\ rules # <<>> /\ items = Last(rules) /\ Item = Head(items) /\ Rest = Tail(items)
      /\ Rest \in Seq(Plain \cup Naming) /\ <<>> \o Rest = Rest
  BY TopItem
<1>2. /\ after \in State /\ Cur \in CompilerRecord /\ Meets(Cur, now)
  BY InnermostFacts
<1>3. after.locals = "tidy"
  BY DEF Outside
<1>4. /\ Marking(after) \in State /\ Marking(after).function = after.function
      /\ Deeper(after) \in State /\ Deeper(after).function = after.function
      /\ Entered(after) \in State /\ Entered(after).function = after.function
  BY <1>2, StateFields
<1>5. ASSUME NEW new \in Beginnings, Go(new), compilers' = compilers
      PROVE  Held'
  <2>1. Runs(new, now, after)
    BY DEF Runs, RunsOutside
  <2>2. new # Block3
    BY BeginningsNotBrace
  <2>3. QED
    BY <1>5, <2>1, <2>2, GoSame
<1>6. /\ \A i \in {Class2, Class3, Variable2, Function2, Function3} : i \in Beginnings
  BY Zenon DEF Beginnings
\* A local is declared.
<1>7. ASSUME NEW new, Item = Do("declare"), Rest = new, Runs(new, Marking(after), after),
             new # Block3
      PROVE  Held'
  <2>1. /\ Go(new)
        /\ \/ compilers' = compilers /\ Redeclares(Cur, previous_token)
           \/ compilers' = WithLast(DeclareVariable(Cur, previous_token))
    BY <1>1, <1>7, DeclareStep
  <2>2. /\ DeclareVariable(Cur, previous_token) \in CompilerRecord
        /\ Meets(DeclareVariable(Cur, previous_token), Marking(after))
        /\ Redeclares(Cur, previous_token) => Meets(Cur, Marking(after))
    BY <1>2, <1>3, MeetsDeclared
  <2>3. compilers = WithLast(Cur)
    BY InnermostFacts, LastSame DEF Innermost
  <2>4. PICK c \in CompilerRecord : compilers' = WithLast(c) /\ Meets(c, Marking(after))
    BY <1>2, <2>1, <2>2, <2>3
  <2>5. QED
    BY <1>4, <1>7, <2>1, <2>4, GoHolds
<1>8. CASE items = Block0
  <2>1. Item = Opening /\ Rest = Block1
    BY <1>1, <1>8, BlockSteps
  <2>2. compilers' = WithLast(BeginScope(Cur)) /\ Go(Block1)
    BY <1>1, <2>1, ChangeStep
  <2>3. BeginScope(Cur) \in CompilerRecord /\ Meets(BeginScope(Cur), Deeper(after))
    BY <1>2, <1>3, MeetsDeeper
  <2>4. Runs(Block1, Deeper(after), after)
    BY DEF Runs, RunsOutside
  <2>5. Block1 # Block3
    BY BlocksDiffer
  <2>6. QED
    BY <1>4, <2>2, <2>3, <2>4, <2>5, GoHolds
<1>9. CASE items = For0
  <2>1. PICK parts \in Seq(LoopPart) : Tail(For0) = parts \o Block4
    BY ForList
  <2>2. Item = Opening /\ Rest = parts \o Block4
    BY <1>1, <1>9, <2>1, BlockSteps
  <2>3. compilers' = WithLast(BeginScope(Cur)) /\ Go(parts \o Block4)
    BY <1>1, <2>2, ChangeStep
  <2>4. BeginScope(Cur) \in CompilerRecord /\ Meets(BeginScope(Cur), Deeper(after))
    BY <1>2, <1>3, MeetsDeeper
  <2>5. Runs(parts \o Block4, Deeper(after), after)
    BY DEF Runs, RunsOutside
  <2>6. parts \o Block4 # Block3
    BY EndedNotBlock
  <2>7. QED
    BY <1>4, <2>3, <2>4, <2>5, <2>6, GoHolds
<1>10. CASE items = Class1
  <2>1. Item = Optional("CLASS", <<>>) /\ Rest = Class2
    BY <1>1, <1>10, ClassSteps
  <2>2. compilers' = compilers /\ Go(Class2)
    BY <1>1, <2>1, OptionalStep
  <2>3. QED
    BY <1>5, <1>6, <2>2
<1>11. CASE items = Class2
  <2>1. Item = Require("IDENTIFIER") /\ Rest = Class3
    BY <1>1, <1>11, ClassSteps
  <2>2. compilers' = compilers /\ (Go(Class3) \/ Return)
    BY <1>1, <2>1, RequireStep
  <2>3. QED
    BY <1>5, <1>6, <2>2, ReturnHolds
<1>12. CASE items = Class3
  <2>1. Item = Do("declare") /\ Rest = Class4
    BY <1>1, <1>12, ClassSteps
  <2>2. Runs(Class4, Marking(after), after)
    BY DEF Runs, RunsOutside
  <2>3. QED
    BY <1>7, <2>1, <2>2, BlocksDiffer
<1>13. CASE items = Class5
  <2>1. Item = Entering /\ Rest = Class6
    BY <1>1, <1>13, ClassSteps
  <2>2. compilers' = WithLast([Cur EXCEPT !.within_class = TRUE]) /\ Go(Class6)
    BY <1>1, <2>1, ChangeStep
  <2> DEFINE d == [Cur EXCEPT !.within_class = TRUE]
  <2>3. d \in CompilerRecord /\ Meets(d, Entered(after))
    BY <1>2, <1>3, MeetsClass
  <2>4. Runs(Class6, Entered(after), after)
    BY DEF Runs, RunsOutside
  <2> HIDE DEF d
  <2>5. QED
    BY <1>4, <2>2, <2>3, <2>4, BlocksDiffer, GoHolds DEF d
<1>14. CASE items = Variable1
  <2>1. Item = Optional("VAR", <<>>) /\ Rest = Variable2
    BY <1>1, <1>14, FunctionSteps
  <2>2. compilers' = compilers /\ Go(Variable2)
    BY <1>1, <2>1, OptionalStep
  <2>3. QED
    BY <1>5, <1>6, <2>2
<1>15. PICK parts \in Seq(Quiet) : VariableParts = parts \o <<Initialised>>
  BY VariableList
<1>16. CASE items = Variable2
  <2>1. Item = ParseVariable(VariableParts) /\ Rest = <<>>
    BY <1>1, <1>16, FunctionSteps
  <2>2. Item = Optional("IDENTIFIER", <<Do("declare")>> \o VariableParts)
    BY <2>1 DEF ParseVariable
  <2>3. compilers' = compilers /\ (Go((<<Do("declare")>> \o VariableParts) \o <<>>) \/ Go(<<>>))
    BY <1>1, <2>1, <2>2, OptionalStep
  <2>4. (<<Do("declare")>> \o VariableParts) \o <<>> = Variable3
    BY VariableDeclared
  <2>5. Variable3 \in Beginnings
    BY Zenon DEF Beginnings
  <2>6. CASE Go(<<>>)
    <3>1. Return
      BY <2>6 DEF Go, Return
    <3>2. QED
      BY <2>3, <3>1, ReturnHolds
  <2>7. QED
    BY <1>5, <2>3, <2>4, <2>5, <2>6
<1>17. CASE items = Variable3
  <2>1. Item = Do("declare") /\ Rest = VariableParts
    BY <1>1, <1>17, FunctionSteps
  <2>2. Runs(VariableParts, Marking(after), after)
    BY <1>15 DEF Runs, RunsOutside
  <2>3. VariableParts # Block3
    BY <1>15, EndedNotBlock
  <2>4. QED
    BY <1>7, <2>1, <2>2, <2>3
<1>18. CASE items = Function1
  <2>1. Item = Optional("FUN", <<>>) /\ Rest = Function2
    BY <1>1, <1>18, FunctionSteps
  <2>2. compilers' = compilers /\ Go(Function2)
    BY <1>1, <2>1, OptionalStep
  <2>3. QED
    BY <1>5, <1>6, <2>2
<1>19. CASE items = Function2
  <2>1. Item = ParseVariable(<<>>) /\ Rest = Function4
    BY <1>1, <1>19, FunctionSteps
  <2>2. Item.op = "consume" /\ Item.items = <<Do("declare")>> \o <<>> /\ Item.missing = "ignored"
        /\ Item.again = FALSE
    BY <2>1, OptionalFields DEF ParseVariable
  <2>3. Consume /\ status = "parsing"
    BY <1>1, <2>2, ActionOf, Zenon
  <2>4. /\ compilers' = compilers /\ status' = status
        /\ \/ Go((<<Do("declare")>> \o <<>>) \o Function4)
           \/ Go(Function4) /\ previous_token' = previous_token
    BY <2>1, <2>2, <2>3 DEF Consume, Stay, tokenVars
  <2>5. CASE Go((<<Do("declare")>> \o <<>>) \o Function4)
    <3>1. (<<Do("declare")>> \o <<>>) \o Function4 = Function3
      BY FunctionDeclared
    <3>2. QED
      BY <1>5, <1>6, <2>4, <2>5, <3>1
  <2>6. CASE Go(Function4) /\ previous_token' = previous_token
    <3>1. previous_token' \notin Identifiers
      BY <1>1, <1>19, <2>6, FunctionNamed
    <3>2. rules' # <<>> /\ Last(rules') = Function4
      <4>1. Function4 # <<>>
        BY DEF Function4
      <4>2. rules' = Append(Front(rules), Function4)
        BY <2>6, <4>1 DEF Go
      <4>3. rules \in Seq(Lists) /\ rules # <<>>
        BY DEF Innermost
      <4>4. Front(rules) \in Seq(Lists)
        BY <4>3, FrontLast
      <4>5. \A S : \A s \in Seq(S) : \A x : Append(s, x) # <<>> /\ Last(Append(s, x)) = x
        BY DEF Last
      <4>6. QED
        BY <4>2, <4>4, <4>5
    <3>3. status' = "parsing"
      BY <2>3, <2>4
    <3>4. Doomed'
      BY <3>1, <3>2, <3>3 DEF Doomed
    <3>5. QED
      BY <3>4
  <2>7. QED
    BY <2>4, <2>5, <2>6
<1>20. CASE items = Function3
  <2>1. Item = Do("declare") /\ Rest = Function4
    BY <1>1, <1>20, FunctionSteps
  <2>2. Runs(Function4, Marking(after), after)
    BY DEF Runs, RunsOutside
  <2>3. QED
    BY <1>7, <2>1, <2>2, BlocksDiffer
<1>21. QED
  BY <1>8, <1>9, <1>10, <1>11, <1>12, <1>13, <1>14, <1>16, <1>17, <1>18, <1>19, <1>20, Zenon
     DEF Beginnings

\* Only before its first token is read may a source seem to be at its end.
Ahead ==
  status = "parsing" /\ current_token = EOF /\ ~AtEnd => rules # <<>> /\ Item = Do("advance")

LEMMA BlocksHold ==
  ASSUME NEW states, NEW items, NEW now, NEW after, Innermost(states, items, now, after), Parse,
         now = Deeper(after), Outside(after), items \in {Block1, Block2, Block3},
         Ahead, BraceAwaited, FlagsAgree
  PROVE  Held' \/ Lost'
<1>1. /\ rules # <<>> /\ items = Last(rules) /\ Item = Head(items) /\ Rest = Tail(items)
      /\ Rest \in Seq(Plain \cup Naming) /\ <<>> \o Rest = Rest
  BY TopItem
<1>2. /\ after \in State /\ Cur \in CompilerRecord /\ Meets(Cur, now)
  BY InnermostFacts
<1>3. /\ now.function = after.function /\ now.locals = after.locals /\ now.class = after.class
  BY <1>2, StateFields
<1>4. Outside(now)
  BY <1>3 DEF Outside
<1>5. \A b \in {Block1, Block2, Block3} : Runs(b, now, after)
  BY DEF Runs, RunsOutside
<1>6. CASE items = Block1
  <2>1. Item = Expect("LEFT_BRACE") /\ Rest = Block2
    BY <1>1, <1>6, BlockSteps
  <2>2. compilers' = compilers /\ Go(Block2)
    BY <1>1, <2>1, ExpectStep
  <2>3. QED
    BY <1>3, <1>5, <2>2, BlocksDiffer, GoSame
<1>7. CASE items = Block2
  <2>1. Item = Declarations /\ Rest = Block3
    BY <1>1, <1>7, BlockSteps
  <2>2. Item.op = "until" /\ Item.types = {"RIGHT_BRACE", EOF} /\ Item.name = "declaration"
    BY <2>1, ChangeItems, Zenon
  <2>3. /\ compilers' = compilers
        /\ \/ current_token \in {"RIGHT_BRACE", EOF} /\ Go(Block3) /\ Stay(<<>>)
           \/ rules' = Append(rules, Body("declaration"))
    BY <1>1, <2>1, <2>2, LoopStep
  <2>4. CASE current_token \in {"RIGHT_BRACE", EOF} /\ Go(Block3) /\ Stay(<<>>)
    <3>1. status = "parsing"
      BY <1>1, ActionOf, Zenon
    <3>2. Item # Do("advance")
      <4>1. Do("advance").op = "advance"
        BY Fields
      <4>2. QED
        BY <2>2, <4>1
    <3>3. current_token = EOF => AtEnd
      BY <3>1, <3>2 DEF Ahead
    <3>4. current_token' = current_token /\ read' = read
      BY <2>4 DEF Stay, tokenVars
    <3>5. AtBrace'
      BY <2>4, <3>3, <3>4 DEF AtBrace, AtEnd
    <3>6. QED
      BY <1>3, <1>5, <2>3, <2>4, <3>5, GoSame
  <2>5. CASE rules' = Append(rules, Body("declaration"))
    <3>1. "declaration" \in RuleName \cup {"functionDeclaration"}
      BY DEF RuleName
    <3>2. Runs(Body("declaration"), now, now) /\ Body("declaration") # Block3
      BY <1>4, <3>1, BodyRuns
    <3>3. Settled(items)
      BY <1>7, BlocksDiffer
    <3>4. QED
      BY <2>3, <2>5, <3>2, <3>3, PushHolds
  <2>6. QED
    BY <2>3, <2>4, <2>5
<1>8. CASE items = Block3
  <2>1. Item = Require("RIGHT_BRACE") /\ Rest = Block4
    BY <1>1, <1>8, BlockSteps
  <2>2. /\ compilers' = compilers
        /\ \/ Go(Block4)
           \/ ~Is(current_token, "RIGHT_BRACE") /\ Return /\ Stay(<<"syntax">>)
    BY <1>1, <2>1, RequireStep
  <2>3. CASE Go(Block4)
    <3>1. <<>> \in Seq(LoopPart) /\ Block4 = <<>> \o Block4
      BY DEF Block4
    <3>2. Runs(Block4, now, after)
      BY <3>1 DEF Runs, RunsOutside
    <3>3. QED
      BY <1>3, <2>2, <2>3, <3>2, BlocksDiffer, GoSame
  <2>4. CASE ~Is(current_token, "RIGHT_BRACE") /\ Return /\ Stay(<<"syntax">>)
    <3>1. current_token = EOF /\ AtEnd
      BY <1>1, <1>8, <2>4 DEF Is, BraceAwaited, AtBrace
    <3>2. current_token' = current_token /\ read' = read /\ encountered_error'
      BY <2>4 DEF Stay, tokenVars, Report, ReportError, FlagsAgree
    <3>3. Lost'
      BY <3>1, <3>2 DEF Lost, AtEnd
    <3>4. QED
      BY <3>3
  <2>5. QED
    BY <2>2, <2>3, <2>4
<1>9. QED
  BY <1>6, <1>7, <1>8

LEMMA MarksHold ==
  ASSUME NEW states, NEW items, NEW now, NEW after, Innermost(states, items, now, after), Parse,
         now = Marking(after), Outside(after), items \in {Function4, Class4}
  PROVE  Held'
<1>1. /\ rules # <<>> /\ items = Last(rules) /\ Item = Head(items) /\ Rest = Tail(items)
  BY TopItem
<1>2. /\ after \in State /\ Cur \in CompilerRecord /\ Meets(Cur, now)
  BY InnermostFacts
<1>3. after.locals = "tidy"
  BY DEF Outside
<1>4. /\ now.function = after.function
      /\ Marked(after) \in State /\ Marked(after).function = after.function
  BY <1>2, StateFields
<1>5. /\ MarkInitialized(Cur) \in CompilerRecord
      /\ Meets(MarkInitialized(Cur), Marked(after)) /\ Meets(MarkInitialized(Cur), after)
  BY <1>2, <1>3, MeetsMarked
<1>6. CASE items = Function4
  <2>1. Item = Initialised /\ Rest = Function5
    BY <1>1, <1>6, FunctionSteps
  <2>2. compilers' = WithLast(MarkInitialized(Cur)) /\ Go(Function5)
    BY <1>1, <2>1, ChangeStep
  <2>3. Runs(Function5, Marked(after), after)
    BY DEF Runs, RunsOutside
  <2>4. QED
    BY <1>4, <1>5, <2>2, <2>3, BlocksDiffer, GoHolds
<1>7. CASE items = Class4
  <2>1. Item = Initialised /\ Rest = Class5
    BY <1>1, <1>7, ClassSteps
  <2>2. compilers' = WithLast(MarkInitialized(Cur)) /\ Go(Class5)
    BY <1>1, <2>1, ChangeStep
  <2>3. Class5 \in Beginnings
    BY Zenon DEF Beginnings
  <2>4. Runs(Class5, after, after)
    BY <2>3 DEF Runs, RunsOutside
  <2>5. Class5 # Block3
    BY <2>3, BeginningsNotBrace
  <2>6. QED
    BY <1>2, <1>4, <1>5, <2>2, <2>4, <2>5, GoHolds
<1>8. QED
  BY <1>6, <1>7

\* The body of a function follows its name, or the compiler has given up.
LEMMA CallsHold ==
  ASSUME NEW states, NEW items, NEW now, NEW after, Innermost(states, items, now, after), Parse,
         \/ now = Marked(after) /\ Outside(after) /\ items = Function5
         \/ now = after /\ after.locals = "tidy" /\ items = Method2
  PROVE  Held' \/ Doomed'
<1>1. /\ rules # <<>> /\ items = Last(rules) /\ Item = Head(items) /\ Rest = Tail(items)
  BY TopItem
<1>2. /\ after \in State /\ Cur \in CompilerRecord /\ Meets(Cur, now) /\ after.function \in Nat \ {0}
  BY InnermostFacts
<1> DEFINE marks == (items = Function5)
           type == IF marks THEN "FUNCTION" ELSE "METHOD"
<1>3. /\ Item = FunctionOf(type) /\ Rest = Remainder(marks)
      /\ marks \in BOOLEAN /\ type \in FunctionType
  <2>1. CASE items = Function5
    <3>1. Remainder(TRUE) = <<Initialised>>
      BY Zenon DEF Remainder
    <3>2. Item = FunctionOf("FUNCTION") /\ Rest = <<Initialised>>
      BY <1>1, <2>1, FunctionSteps
    <3>3. "FUNCTION" \in FunctionType
      BY DEF FunctionType
    <3>4. QED
      BY <2>1, <3>1, <3>2, <3>3
  <2>2. CASE items = Method2 /\ items # Function5
    <3>1. Remainder(FALSE) = <<>>
      BY Zenon DEF Remainder
    <3>2. Item = FunctionOf("METHOD") /\ Rest = <<>>
      BY <1>1, <2>2, FunctionSteps
    <3>3. "METHOD" \in FunctionType
      BY DEF FunctionType
    <3>4. QED
      BY <2>2, <3>1, <3>2, <3>3
  <2>3. QED
    BY <2>1, <2>2
<1>4. /\ after.locals = "tidy" /\ (marks => Outside(after)) /\ now.function = after.function
      /\ marks => now = Marked(after)
      /\ ~marks => now = after
  <2>1. CASE now = Marked(after) /\ Outside(after) /\ items = Function5
    BY <1>2, <2>1, StateFields DEF Outside
  <2>2. CASE now = after /\ after.locals = "tidy" /\ items = Method2
    <3>1. Head(Function5) = FunctionOf("FUNCTION") /\ Head(Method2) = FunctionOf("METHOD")
          /\ FunctionOf("FUNCTION").type = "FUNCTION" /\ FunctionOf("METHOD").type = "METHOD"
      BY FunctionSteps, Fields
    <3>2. Method2 # Function5
      BY <3>1
    <3>3. QED
      BY <2>2, <3>2
  <2>3. QED
    BY <2>1, <2>2
<1> HIDE DEF marks, type
<1>5. CASE status' = "aborted"
  BY <1>5 DEF Doomed
<1> DEFINE init == (previous_token = "init")
           within == (Cur.within_class = TRUE)
           c == [BeginScope(NewCompiler(type, Cur.within_class)) EXCEPT
                   !.function_type = IF init THEN "INITIALIZER" ELSE @]
<1>6. CASE Go(FunctionBody \o Rest) /\ compilers' = Append(compilers, c)
  <2>1. Cur.within_class \in BOOLEAN /\ init \in BOOLEAN
    BY <1>2 DEF CompilerRecord
  <2> DEFINE next == Calling(after, "tidy")
  <2>2. c \in CompilerRecord /\ Meets(c, next)
    <3> HIDE DEF init
    <3>1. QED
      BY <1>2, <1>3, <2>1, MeetsCalled
  <2>3. next \in State /\ next.function = after.function + 1
    BY <1>2, CallingFields
  <2>4. PICK parts \in Seq(FunctionPart) : FunctionBody \o Rest = parts \o FunctionEnd(marks)
    <3>1. CASE marks = TRUE
      BY <1>3, <3>1, FunctionList
    <3>2. CASE marks = FALSE
      BY <1>3, <3>2, FunctionList
    <3>3. QED
      BY <1>3, <3>1, <3>2
  <2> DEFINE new == parts \o FunctionEnd(marks)
  <2>5. /\ Runs(new, next, after) /\ new # <<>> /\ new # Block3
        /\ Last(new) = Last(FunctionEnd(marks))
    BY <1>3, <1>4, FunctionRuns, FunctionShapes, FunctionNotBlock
  <2> HIDE DEF c, next, new
  <2>6. Meets(Cur, Awaited(new, after))
    <3>1. /\ \A a : Last(<<a>>) = a
          /\ \A a, b : Last(<<a, b>>) = b
      BY DEF Last
    <3>2. CASE marks
      <4>1. Last(FunctionEnd(marks)) = Initialised
        BY <3>1, <3>2, Zenon DEF FunctionEnd
      <4>2. Awaited(new, after) = Marked(after)
        BY <2>5, <4>1 DEF Awaited
      <4>3. QED
        BY <1>2, <1>4, <3>2, <4>2
    <3>3. CASE ~marks
      <4>1. Last(FunctionEnd(marks)) = Finishing
        BY <3>1, <3>3, Zenon DEF FunctionEnd
      <4>2. Finishing # Initialised
        BY ChangeItems, Zenon
      <4>3. Awaited(new, after) = after
        BY <2>5, <4>1, <4>2 DEF Awaited
      <4>4. QED
        BY <1>2, <1>4, <3>3, <4>3
    <3>4. QED
      BY <3>2, <3>3
  <2>7. Go(new) /\ compilers' = Append(compilers, c)
    BY <1>6, <2>4 DEF new
  <2>8. Held'
    BY <1>4, <2>2, <2>3, <2>5, <2>6, <2>7, EnterHolds
  <2>9. QED
    BY <2>8
<1>7. \/ status' = "aborted"
      \/ /\ Go(FunctionBody \o Rest)
         /\ compilers' = Append(compilers, c)
  BY <1>1, <1>3, EnterStep
<1>8. QED
  BY <1>5, <1>6, <1>7

LEMMA ClassesHold ==
  ASSUME NEW states, NEW items, NEW now, NEW after, Innermost(states, items, now, after), Parse,
         now = Entered(after), Outside(after), items \in {Class6, Class7, Class8, Class9, Class10}
  PROVE  Held'
<1>1. /\ rules # <<>> /\ items = Last(rules) /\ Item = Head(items) /\ Rest = Tail(items)
      /\ Rest \in Seq(Plain \cup Naming) /\ <<>> \o Rest = Rest
  BY TopItem
<1>2. /\ after \in State /\ Cur \in CompilerRecord /\ Meets(Cur, now)
  BY InnermostFacts
<1>3. after.locals = "tidy"
  BY DEF Outside
<1>4. now.function = after.function /\ now.locals = after.locals
  BY <1>2, StateFields
<1>5. \A b \in {Class6, Class7, Class8, Class9, Class10} : Runs(b, now, after)
  BY DEF Runs, RunsOutside
<1>6. ASSUME NEW new \in {Class7, Class8, Class9, Class10}, Go(new), compilers' = compilers
      PROVE  Held'
  BY <1>4, <1>5, <1>6, BlocksDiffer, GoSame
<1>7. CASE items = Class6
  <2>1. Item = Named(FALSE) /\ Rest = Class7
    BY <1>1, <1>7, ClassSteps
  <2>2. compilers' = compilers /\ Go(<<>> \o Rest)
    BY <1>1, <2>1, NamedStep
  <2>3. QED
    BY <1>1, <1>6, <2>1, <2>2
<1>8. CASE items = Class7
  <2>1. Item = Expect("LEFT_BRACE") /\ Rest = Class8
    BY <1>1, <1>8, ClassSteps
  <2>2. compilers' = compilers /\ Go(Class8)
    BY <1>1, <2>1, ExpectStep
  <2>3. QED
    BY <1>6, <2>2
<1>9. CASE items = Class8
  <2>1. Item = Methods /\ Rest = Class9
    BY <1>1, <1>9, ClassSteps
  <2>2. Item.op = "until" /\ Item.name = "method"
    BY <2>1, ChangeItems, Zenon
  <2>3. /\ compilers' = compilers
        /\ Go(Class9) \/ rules' = Append(rules, Body("method"))
    BY <1>1, <2>1, <2>2, LoopStep
  <2>4. Body("method") = Method1
    BY Zenon DEF Body, Method1
  <2>5. Runs(Method1, now, now)
    BY <1>3, <1>4 DEF Runs
  <2>6. CASE rules' = Append(rules, Body("method"))
    BY <1>9, <2>3, <2>4, <2>5, <2>6, BlocksDiffer, PushHolds
  <2>7. QED
    BY <1>6, <2>3, <2>6
<1>10. CASE items = Class9
  <2>1. Item = Expect("RIGHT_BRACE") /\ Rest = Class10
    BY <1>1, <1>10, ClassSteps
  <2>2. compilers' = compilers /\ Go(Class10)
    BY <1>1, <2>1, ExpectStep
  <2>3. QED
    BY <1>6, <2>2
<1>11. CASE items = Class10
  <2>1. Item = Leaving /\ Rest = <<>>
    BY <1>1, <1>11, ClassSteps
  <2>2. compilers' = WithLast([Cur EXCEPT !.within_class = FALSE]) /\ Go(<<>>)
    BY <1>1, <2>1, ChangeStep
  <2> DEFINE d == [Cur EXCEPT !.within_class = FALSE]
  <2>3. d \in CompilerRecord /\ Meets(d, after)
    BY <1>2, <1>3, MeetsClass
  <2>4. <<>> \in Seq(OperandPart) /\ <<>> # Block3
    BY DEF Block3
  <2>5. Runs(<<>>, after, after)
    BY <2>4 DEF Runs
  <2> HIDE DEF d
  <2>6. QED
    BY <1>2, <1>4, <2>2, <2>3, <2>4, <2>5, GoHolds DEF d
<1>12. QED
  BY <1>7, <1>8, <1>9, <1>10, <1>11

LEMMA MethodsHold ==
  ASSUME NEW states, NEW items, NEW now, NEW after, Innermost(states, items, now, after), Parse,
         now = after, after.locals = "tidy", items = Method1
  PROVE  Held'
<1>1. Item = Require("IDENTIFIER") /\ Rest = Method2 /\ rules # <<>>
      /\ Rest \in Seq(Plain \cup Naming)
  BY TopItem, FunctionSteps
<1>2. compilers' = compilers /\ (Go(Method2) \/ Return)
  BY <1>1, RequireStep
<1>3. Runs(Method2, now, after)
  BY DEF Runs
<1>4. QED
  BY <1>2, <1>3, BlocksDiffer, GoSame, ReturnHolds

LEMMA RunsHold ==
  ASSUME NEW states, NEW items, NEW now, NEW after, Innermost(states, items, now, after), Parse,
         Outside(after), RunsOutside(items, now, after),
         RulesInv, previous_token \in Word, Ahead, BraceAwaited, FlagsAgree
  PROVE  Held' \/ Lost' \/ Doomed'
<1>1. after.locals = "tidy"
  BY DEF Outside
<1>2. CASE now = after /\ items \in Seq(StatementPart)
  BY <1>2, StatementsHold
<1>3. CASE now = after /\ items \in Beginnings
  BY <1>3, BeginningsHold, ParserConstants
<1>4. CASE now = Deeper(after) /\ items \in {Block1, Block2, Block3}
  BY <1>4, BlocksHold
<1>5. CASE now = Deeper(after) /\ \E parts \in Seq(LoopPart) : items = parts \o Block4
  BY <1>5, LoopsHold
<1>6. CASE now = Marking(after) /\ items \in {Function4, Class4}
  BY <1>6, MarksHold
<1>7. CASE now = Marking(after) /\ \E parts \in Seq(Quiet) : items = parts \o <<Initialised>>
  BY <1>7, InitializersHold
<1>8. CASE now = Marked(after) /\ items = Function5
  BY <1>8, CallsHold
<1>9. CASE now = Entered(after) /\ items \in {Class6, Class7, Class8, Class9, Class10}
  BY <1>9, ClassesHold
<1>10. CASE InFunction(items, now, after, TRUE)
  <2>1. TRUE \in BOOLEAN
    OBVIOUS
  <2>2. QED
    BY <1>1, <1>10, <2>1, FunctionsHold
<1>11. QED
  BY <1>2, <1>3, <1>4, <1>5, <1>6, <1>7, <1>8, <1>9, <1>10, Zenon DEF RunsOutside

\* Whatever the innermost rule goes on with.
LEMMA StepHolds ==
  ASSUME NEW states, NEW items, NEW now, NEW after, Innermost(states, items, now, after), Parse,
         RulesInv, previous_token \in Word, Ahead, BraceAwaited, FlagsAgree
  PROVE  Held' \/ Lost' \/ Doomed'
<1>1. Runs(items, now, after)
  BY InnermostFacts
<1>2. CASE now = after /\ items \in Seq(OperandPart)
  BY <1>2, OperandsHold
<1>3. CASE after.locals = "tidy" /\ now = after /\ items \in {Method1, Method2}
  BY <1>3, MethodsHold, CallsHold
<1>4. CASE after.locals = "tidy" /\ InFunction(items, now, after, FALSE)
  <2>1. FALSE \in BOOLEAN /\ (FALSE => Outside(after))
    OBVIOUS
  <2>2. QED
    BY <1>4, <2>1, FunctionsHold
<1>5. CASE Outside(after) /\ RunsOutside(items, now, after)
  BY <1>5, RunsHold
<1>6. QED
  BY <1>1, <1>2, <1>3, <1>4, <1>5, Zenon DEF Runs

\* A pending rule is the innermost one.
LEMMA HeldInnermost ==
  ASSUME Held, RulesInv, rules # <<>>
  PROVE  \E states, items, now, after : Innermost(states, items, now, after)
<1>1. PICK states : Waits(states, rules, compilers)
  BY DEF Held
<1>2. rules \in Seq(Lists)
  BY DEF RulesInv, Lists
<1>3. Innermost(states, Last(rules), states[Len(rules)], states[Len(rules) - 1])
  BY <1>1, <1>2 DEF Innermost, Held
<1>4. QED
  BY <1>3

-------------------------------------------------------------------------------
(***************************************************************************)
(* The tokens, and the ends of a source.                                   *)
(***************************************************************************)
Drained    == status \in {"idle", "compiled", "failed"} => rules = <<>>
TokenWords == previous_token \in Word /\ current_token \in Word

\* What a step does to the tokens and the flags.
LEMMA TokenSteps ==
  ASSUME Parse
  PROVE  /\ status = "parsing"
         /\ (\E kinds : Advance(kinds)) \/ UNCHANGED tokenVars
         /\ encountered_error = TRUE => encountered_error' = TRUE
<1>1. status = "parsing"
  BY Misread, Zenon DEF Parse, FirstAdvance, Consume, EnterRule, Loop, Choice, ParsePrecedence, ParseInfix,
         NamedVariable, This, Declare, ChangeCompiler, EnterFunction, EndFunction, ForbidReturn,
         Recover, Synchronize, EndSource, Doing
<1>2. (\E kinds : Advance(kinds)) \/ UNCHANGED tokenVars
  BY Misread, Zenon DEF Parse, FirstAdvance, Consume, EnterRule, Loop, Choice, ParsePrecedence, ParseInfix,
         NamedVariable, This, Declare, ChangeCompiler, EnterFunction, EndFunction, ForbidReturn,
         Recover, Synchronize, EndSource, Stay
<1>3. \/ \E kinds : Advance(kinds) \/ Stay(kinds)
      \/ UNCHANGED errors \/ UNCHANGED errorVars \/ ResetPanicState
  BY Misread, Zenon DEF Parse, FirstAdvance, Consume, EnterRule, Loop, Choice, ParsePrecedence, ParseInfix,
         NamedVariable, This, Declare, ChangeCompiler, EnterFunction, EndFunction, ForbidReturn,
         Recover, Synchronize, EndSource
<1>4. (\E kinds : Report(kinds)) \/ UNCHANGED encountered_error
  BY <1>3 DEF Advance, Stay, errors, errorVars, ResetPanicState
<1>5. encountered_error = TRUE => encountered_error' = TRUE
  BY <1>4 DEF Report, ReportError, errors, errorVars
<1>6. QED
  BY <1>1, <1>2, <1>5

LEMMA AdvanceDelivers ==
  ASSUME TokensInv, status = "parsing", NEW kinds, Advance(kinds)
  PROVE  /\ previous_token' = current_token
         /\ current_token' \in Word /\ (current_token' = EOF => AtEnd')
         /\ AtEnd => current_token' = EOF /\ AtEnd'
<1>1. PICK token \in Upcoming : Scans(token)
  BY DEF Advance
<1>2. token \in STRING \cup {EOF}
  BY <1>1, UpcomingTokens
<1>3. previous_token' = current_token /\ current_token' = token
      /\ read' = IF AtEnd THEN read ELSE Append(read, token)
  BY <1>1 DEF Scans, Shift, Deliver
<1>4. CASE AtEnd
  <2>1. token = EOF
    BY <1>1, <1>4 DEF Upcoming
  <2>2. AtEnd'
    BY <1>3, <1>4 DEF AtEnd
  <2>3. QED
    BY <1>2, <1>3, <2>1, <2>2 DEF Word
<1>5. CASE ~AtEnd
  <2>1. read' = Append(read, token) /\ read \in Seq(STRING \cup {EOF})
    BY <1>3, <1>5 DEF TokensInv
  <2>2. read' # <<>> /\ Last(read') = token
    <3> DEFINE S == STRING \cup {EOF}
    <3>1. read \in Seq(S) /\ token \in S
      BY <1>2, <2>1
    <3> HIDE DEF S
    <3>2. Append(read, token) # <<>> /\ Last(Append(read, token)) = token
      BY <3>1 DEF Last
    <3>3. QED
      BY <2>1, <3>2
  <2>3. token = EOF => AtEnd'
    BY <2>2 DEF AtEnd
  <2>4. QED
    BY <1>2, <1>3, <1>5, <2>3 DEF Word
<1>6. QED
  BY <1>4, <1>5

LEMMA WordsStay ==
  ASSUME TokensInv, TokenWords, Parse
  PROVE  TokenWords'
<1>1. status = "parsing" /\ ((\E kinds : Advance(kinds)) \/ UNCHANGED tokenVars)
  BY TokenSteps
<1>2. QED
  BY <1>1, AdvanceDelivers DEF TokenWords, tokenVars

LEMMA AheadStays ==
  ASSUME TokensInv, Ahead, Parse
  PROVE  Ahead'
<1>1. status = "parsing" /\ ((\E kinds : Advance(kinds)) \/ UNCHANGED tokenVars)
  BY TokenSteps
<1>2. CASE \E kinds : Advance(kinds)
  <2>1. current_token' = EOF => AtEnd'
    BY <1>1, <1>2, AdvanceDelivers
  <2>2. QED
    BY <2>1 DEF Ahead
<1>3. CASE UNCHANGED tokenVars
  <2>1. current_token' = current_token /\ AtEnd' = AtEnd
    BY <1>3 DEF tokenVars, AtEnd
  <2>2. CASE current_token = EOF /\ ~AtEnd
    <3>1. rules # <<>> /\ Item = Do("advance")
      BY <1>1, <2>2 DEF Ahead
    <3>2. Item.op = "advance"
      BY <3>1, Fields
    <3>3. FirstAdvance
      BY <3>1, <3>2, ActionOf, Zenon
    <3>4. CASE Advance(<<>>)
      <4>1. QED
        BY <1>2, <3>4
    <3>5. CASE status' = "aborted"
      BY <3>5 DEF Ahead
    <3>6. QED
      BY <3>3, <3>4, <3>5 DEF FirstAdvance
  <2>3. QED
    BY <2>1, <2>2 DEF Ahead
<1>4. QED
  BY <1>1, <1>2, <1>3

LEMMA DrainedStays ==
  ASSUME Parse
  PROVE  Drained'
<1>1. CASE rules = <<>>
  <2>1. EndSource
    BY <1>1 DEF Parse, FirstAdvance, Consume, EnterRule, Loop, Choice, ParsePrecedence,
       MisreadNumber, ParseInfix, NamedVariable, This, Declare, ChangeCompiler, EnterFunction, EndFunction,
       ForbidReturn, Recover, Synchronize, Doing
  <2>2. QED
    BY <1>1, <2>1 DEF EndSource, Drained
<1>2. CASE rules # <<>>
  <2>1. ~EndSource
    BY <1>2 DEF EndSource
  <2>2. status' \in {"parsing", "aborted"}
    BY <2>1, Zenon DEF Parse, FirstAdvance, Consume, EnterRule, Loop, Choice, ParsePrecedence,
                MisreadNumber, ParseInfix, NamedVariable, This, Declare, ChangeCompiler, EnterFunction,
                EndFunction, ForbidReturn, Recover, Synchronize, Doing
  <2>3. QED
    BY <2>2 DEF Drained
<1>3. QED
  BY <1>1, <1>2

LEMMA LostStays ==
  ASSUME TokensInv, Lost, FlagsAgree, Parse
  PROVE  Lost'
<1>1. /\ status = "parsing" /\ ((\E kinds : Advance(kinds)) \/ UNCHANGED tokenVars)
      /\ encountered_error' = TRUE
  BY TokenSteps DEF Lost, FlagsAgree
<1>2. current_token' = EOF /\ AtEnd'
  BY <1>1, AdvanceDelivers DEF Lost, tokenVars, AtEnd
<1>3. QED
  BY <1>1, <1>2 DEF Lost

LEMMA DoomedStays ==
  ASSUME RulesInv, Doomed, Parse
  PROVE  Doomed'
<1>1. status = "parsing" /\ rules # <<>> /\ Last(rules) \in {Function4, Function5}
      /\ previous_token \notin Identifiers
  BY TokenSteps DEF Doomed
<1>2. CASE Last(rules) = Function4
  <2>1. Item = Initialised /\ Rest = Function5
    BY <1>2, FunctionSteps DEF Item, Rest
  <2>2. Item.op = "compiler"
    BY <2>1, ChangeItems, Zenon
  <2>3. ChangeCompiler
    BY <1>1, <2>2, ActionOf, Zenon
  <2>4. Go(Function5) /\ Stay(<<>>) /\ status' = status
    BY <2>1, <2>3 DEF ChangeCompiler
  <2>5. rules' = Append(Front(rules), Function5)
    <3>1. Function5 # <<>>
      BY DEF Function5
    <3>2. QED
      BY <2>4, <3>1 DEF Go
  <2>6. rules' # <<>> /\ Last(rules') = Function5
    <3>1. Front(rules) \in Seq(PlainList)
      BY <1>1, Top
    <3> DEFINE S == PlainList \cup {Function5}
    <3>2. Front(rules) \in Seq(S) /\ Function5 \in S
      BY <3>1
    <3> HIDE DEF S
    <3>3. \A s \in Seq(S) : Append(s, Function5) # <<>> /\ Last(Append(s, Function5)) = Function5
      BY <3>2 DEF Last
    <3>4. QED
      BY <2>5, <3>2, <3>3
  <2>7. previous_token' = previous_token
    BY <2>4 DEF Stay, tokenVars
  <2>8. QED
    BY <1>1, <2>4, <2>6, <2>7 DEF Doomed
<1>3. CASE Last(rules) = Function5
  <2>1. Item = FunctionOf("FUNCTION")
    BY <1>3, FunctionSteps DEF Item
  <2>2. status' = "aborted"
    BY <1>1, <2>1, EnterStep
  <2>3. QED
    BY <2>2 DEF Doomed
<1>4. QED
  BY <1>1, <1>2, <1>3

-------------------------------------------------------------------------------
(***************************************************************************)
(* The rules wait for each other until the end of the source comes too     *)
(* early, or for good after an error of an earlier source.                 *)
(***************************************************************************)
Structure == Held \/ erred \/ Doomed \/ Lost
ScopeInv ==
  AbortInv /\ ErrorInv /\ TokenWords /\ Ahead /\ Drained /\ Structure

LEMMA ParseKeepsStructure ==
  ASSUME ScopeInv, Parse, UNCHANGED sourceVars
  PROVE  Structure'
<1>1. /\ RulesInv /\ TokensInv /\ FlagsAgree /\ TokenWords /\ Ahead /\ Drained /\ Structure
      /\ previous_token \in Word
  BY DEF ScopeInv, AbortInv, ErrorInv, TokenWords
<1>2. CASE erred
  BY <1>2 DEF sourceVars, Structure
<1>3. CASE Doomed
  BY <1>1, <1>3, DoomedStays DEF Structure
<1>4. CASE Lost
  BY <1>1, <1>4, LostStays DEF Structure
<1>5. CASE Held /\ rules # <<>>
  <2>1. PICK states, items, now, after : Innermost(states, items, now, after)
    BY <1>1, <1>5, HeldInnermost
  <2>2. BraceAwaited
    BY <1>5 DEF Held
  <2>3. QED
    BY <1>1, <2>1, <2>2, StepHolds DEF Structure
<1>6. CASE Held /\ rules = <<>>
  <2>1. EndSource
    BY <1>6, Zenon DEF Parse, FirstAdvance, Consume, EnterRule, Loop, Choice, ParsePrecedence,
       MisreadNumber, ParseInfix, NamedVariable, This, Declare, ChangeCompiler, EnterFunction, EndFunction,
       ForbidReturn, Recover, Synchronize, Doing
  <2>2. rules' = rules /\ compilers' = compilers
    BY <2>1 DEF EndSource
  <2>3. BraceAwaited'
    BY <1>6, <2>2 DEF BraceAwaited
  <2>4. QED
    BY <1>6, <2>2, <2>3, SameHolds DEF Structure
<1>7. QED
  BY <1>1, <1>2, <1>3, <1>4, <1>5, <1>6 DEF Structure

\* A source starts with the rule of the whole program.
Program == <<Do("advance"), Until({EOF}, "declaration")>>
LEMMA ProgramRuns ==
  /\ Program \in Seq(StatementPart) /\ Program # Block3 /\ Program # <<>>
  /\ Outermost \in State /\ Outside(Outermost) /\ Runs(Program, Outermost, Outermost)
<1>1. Do("advance") \in StatementPart /\ Until({EOF}, "declaration") \in StatementPart
  BY StatedItems, StatementItems
<1>2. Program \in Seq(StatementPart)
  <2>1. \A S : \A a, b \in S : <<a, b>> \in Seq(S)
    OBVIOUS
  <2>2. QED
    BY <1>1, <2>1, Zenon DEF Program
<1>3. Head(Program) = Do("advance") /\ Program # <<>>
  BY DEF Program
<1>4. Program # Block3
  <2>1. Do("advance").op = "advance" /\ Require("RIGHT_BRACE").op = "consume"
    BY Fields, RequireFields
  <2>2. Head(Block3) = Require("RIGHT_BRACE")
    BY BlockSteps
  <2>3. QED
    BY <1>3, <2>1, <2>2
<1>5. Outermost \in State /\ Outermost.locals = "tidy" /\ Outermost.class = FALSE
  BY DEF Outermost, State
<1>6. Outside(Outermost)
  BY <1>5 DEF Outside
<1>7. Runs(Program, Outermost, Outermost)
  BY <1>2, <1>6 DEF Runs, RunsOutside
<1>8. QED
  BY <1>2, <1>3, <1>4, <1>5, <1>6, <1>7

LEMMA InitializeHolds ==
  ASSUME ScopeInv, Initialize
  PROVE  Structure'
<1>1. Structure /\ FlagsAgree /\ Drained
  BY DEF ScopeInv, ErrorInv
<1>2. /\ status \in {"idle", "compiled", "failed"} /\ erred' = encountered_error
      /\ rules' = <<Program>> /\ compilers' = compilers
  BY DEF Initialize, Program
<1>3. CASE Lost \/ erred
  <2>1. encountered_error
    BY <1>1, <1>3 DEF Lost, FlagsAgree
  <2>2. QED
    BY <1>2, <2>1 DEF Structure
<1>4. CASE Doomed
  BY <1>2, <1>4 DEF Doomed
<1>5. CASE Held
  <2>1. rules = <<>>
    BY <1>1, <1>2 DEF Drained
  <2>2. PICK states : Waits(states, rules, compilers)
    BY <1>5 DEF Held
  <2>3. rules \in Seq({Program}) /\ Program \in {Program} /\ Len(rules) = 0
        /\ Append(rules, Program) = <<Program>> /\ Len(<<Program>>) = 1
        /\ <<Program>>[1] = Program
    BY <2>1
  <2>4. states[0] = Outermost
    BY <2>2 DEF Waits, Lower
  <2>5. Runs(Program, states[Len(rules)], states[Len(rules)])
    BY <2>3, <2>4, ProgramRuns
  <2>6. \E ss : Waits(ss, Append(rules, Program), compilers)
    BY <2>2, <2>3, <2>5, WaitsPush
  <2>7. \E ss : Waits(ss, rules', compilers')
    BY <1>2, <2>3, <2>6
  <2>8. BelowSettled' /\ BraceAwaited'
    <3>1. Last(<<Program>>) = Program
      BY DEF Last
    <3>2. QED
      BY <1>2, <2>3, <3>1, ProgramRuns DEF BelowSettled, BraceAwaited
  <2>9. Held'
    BY <1>2, <1>5, <2>7, <2>8 DEF Held
  <2>10. QED
    BY <2>9 DEF Structure
<1>6. QED
  BY <1>1, <1>3, <1>4, <1>5 DEF Structure

LEMMA FirstCompiler ==
  LET c == NewCompiler("TOP_LEVEL_SCRIPT", FALSE)
  IN  c \in CompilerRecord /\ Meets(c, Outermost)
<1> DEFINE c == NewCompiler("TOP_LEVEL_SCRIPT", FALSE)
           local == FirstLocal("TOP_LEVEL_SCRIPT")
<1>1. local \in LocalRecord /\ local.local_scope_depth = 0
  <2>1. \A name \in LocalName : Local(name, 0) \in LocalRecord /\ Local(name, 0).local_scope_depth = 0
    BY DEF Local, LocalRecord
  <2>2. \E name \in LocalName : local = Local(name, 0)
    <3>1. "this" \in LocalName /\ "" \in LocalName
      BY Zenon DEF LocalName
    <3>2. QED
      BY <3>1, Zenon DEF FirstLocal
  <2>3. QED
    BY <2>1, <2>2
<1> HIDE DEF local
<1>2. c = [function_type |-> "TOP_LEVEL_SCRIPT", within_class |-> FALSE,
           current_scope_depth |-> 0, locals |-> <<local>>]
  BY DEF NewCompiler, local
<1>3. c \in CompilerRecord
  <2>1. <<local>> \in Seq(LocalRecord)
    BY <1>1
  <2> DEFINE locals == <<local>>
  <2> HIDE DEF locals
  <2>2. \A t \in FunctionType, ls \in Seq(LocalRecord) :
          [function_type |-> t, within_class |-> FALSE, current_scope_depth |-> 0, locals |-> ls]
            \in CompilerRecord
    BY DEF CompilerRecord
  <2>3. "TOP_LEVEL_SCRIPT" \in FunctionType
    BY Zenon DEF FunctionType
  <2> HIDE DEF c
  <2>4. QED
    BY <1>2, <2>1, <2>2, <2>3
<1>4. c.current_scope_depth = 0 /\ c.within_class = FALSE /\ c.locals = <<local>>
  <2>1. \A t, x : LET r == [function_type |-> t, within_class |-> FALSE,
                           current_scope_depth |-> 0, locals |-> x]
                 IN  r.current_scope_depth = 0 /\ r.within_class = FALSE /\ r.locals = x
    OBVIOUS
  <2>2. QED
    BY <1>2, <2>1
<1> HIDE DEF c
<1>5. Tidy(c)
  <2>1. Len(c.locals) = 1 /\ DepthAt(c, 1) = 0
    BY <1>1, <1>4 DEF DepthAt
  <2>2. \A i, j \in 1..1 : ~(i < j)
    OBVIOUS
  <2>3. \A i \in 2..1 : FALSE
    OBVIOUS
  <2>4. QED
    BY <2>1, <2>2, <2>3 DEF Tidy, TidyTo
<1>6. Meets(c, Outermost)
  BY <1>4, <1>5 DEF Meets, Outermost
<1>7. QED
  BY <1>3, <1>6 DEF c

LEMMA InitScopes == Init => ScopeInv
<1> SUFFICES ASSUME Init PROVE ScopeInv
  OBVIOUS
<1>1. /\ rules = <<>> /\ status = "idle" /\ previous_token = NoToken /\ current_token = NoToken
      /\ compilers = <<NewCompiler("TOP_LEVEL_SCRIPT", FALSE)>>
  BY DEF Init, ParserStateInit
<1>2. TokenWords /\ Ahead /\ Drained
  BY <1>1 DEF TokenWords, Word, Ahead, Drained
<1> DEFINE c == NewCompiler("TOP_LEVEL_SCRIPT", FALSE)
           states == [k \in Nat |-> Outermost]
<1>3. c \in CompilerRecord /\ Meets(c, Outermost)
  BY FirstCompiler
<1>4. compilers \in Seq(CompilerRecord) /\ Len(compilers) = 1 /\ compilers[1] = c
  <2>1. \A x \in CompilerRecord : <<x>> \in Seq(CompilerRecord) /\ Len(<<x>>) = 1 /\ <<x>>[1] = x
    OBVIOUS
  <2> HIDE DEF c
  <2>2. compilers = <<c>>
    BY <1>1 DEF c
  <2>3. QED
    BY <1>3, <2>1, <2>2
<1>5. Meets(c, Outermost)
  BY <1>3
<1>6. Waits(states, rules, compilers)
  <2>1. /\ Len(rules) = 0 /\ states \in [Nat -> State] /\ states[0] = Outermost
        /\ Outermost.function = 1
    BY <1>1, ProgramRuns DEF Outermost
  <2> HIDE DEF states, c
  <2>2. Lower(states, rules, compilers)
    BY <2>1 DEF Lower
  <2>3. QED
    BY <1>4, <1>5, <2>1, <2>2 DEF Waits
<1>7. Held
  <2>1. BelowSettled /\ BraceAwaited
    BY <1>1 DEF BelowSettled, BraceAwaited
  <2>2. QED
    BY <1>4, <1>6, <2>1 DEF Held
<1>8. QED
  BY <1>2, <1>7, InitAborts, InitErrors DEF ScopeInv, Structure

LEMMA NextScopes == ScopeInv /\ [Next]_vars => ScopeInv'
<1> SUFFICES ASSUME ScopeInv, [Next]_vars PROVE ScopeInv'
  OBVIOUS
<1>1. AbortInv' /\ ErrorInv'
  BY NextAborts, NextErrors DEF ScopeInv
<1>2. TokensInv /\ TokenWords /\ Ahead /\ Drained /\ Structure
  BY DEF ScopeInv, AbortInv
<1>3. CASE Initialize
  <2>1. Structure'
    BY <1>3, InitializeHolds
  <2>2. TokenWords' /\ Drained'
    BY <1>2, <1>3 DEF Initialize, TokenWords, Drained
  <2>3. rules' = <<Program>>
    BY <1>3 DEF Initialize, Program
  <2>4. rules' # <<>> /\ Head(Last(rules')) = Do("advance")
    BY <2>3 DEF Program, Last
  <2>5. Ahead'
    BY <2>4 DEF Ahead, Item
  <2>6. QED
    BY <1>1, <2>1, <2>2, <2>5 DEF ScopeInv
<1>4. CASE Parse /\ UNCHANGED sourceVars
  <2>1. Structure'
    BY <1>4, ParseKeepsStructure
  <2>2. QED
    BY <1>1, <1>2, <1>4, <2>1, WordsStay, AheadStays, DrainedStays DEF ScopeInv
<1>5. CASE UNCHANGED vars
  <2>1. /\ rules' = rules /\ previous_token' = previous_token /\ current_token' = current_token
        /\ compilers' = compilers /\ erred' = erred /\ encountered_error' = encountered_error
        /\ read' = read /\ status' = status
    BY <1>5 DEF vars, parserStateVars, sourceVars
  <2>2. TokenWords' /\ Ahead' /\ Drained'
    BY <1>2, <2>1 DEF TokenWords, Ahead, Drained, AtEnd, Item
  <2>3. (BraceAwaited <=> BraceAwaited') /\ (Lost <=> Lost') /\ (Doomed <=> Doomed')
    BY <2>1 DEF BraceAwaited, AtBrace, AtEnd, Lost, Doomed
  <2>4. Held => Held'
    <3>1. Held => BraceAwaited
      BY DEF Held
    <3>2. QED
      BY <2>1, <2>3, <3>1, SameHolds
  <2>5. QED
    BY <1>1, <1>2, <2>1, <2>2, <2>3, <2>4 DEF ScopeInv, Structure
<1>6. QED
  BY <1>3, <1>4, <1>5 DEF Next

-------------------------------------------------------------------------------
(***************************************************************************)
(* What a pending rule has still to end, a scope or a function, says what  *)
(* its state adds to that of the rule before.                              *)
(***************************************************************************)
Has(items, x) == \E i \in DOMAIN items : items[i] = x

LEMMA HasParts ==
  ASSUME NEW S, NEW s \in Seq(S), NEW x, \A i \in S : i # x
  PROVE  ~Has(s, x)
BY DEF Has

LEMMA HasJoined ==
  ASSUME NEW S, NEW T, NEW s \in Seq(S), NEW t \in Seq(T), NEW x
  PROVE  Has(s \o t, x) <=> Has(s, x) \/ Has(t, x)
<1>1. s \o t \in Seq(S \cup T) /\ Len(s \o t) = Len(s) + Len(t)
  BY Joined
<1>2. Len(s) \in Nat /\ Len(t) \in Nat
  OBVIOUS
<1>3. /\ \A i \in 1..Len(s) : i \in 1..Len(s \o t) /\ (s \o t)[i] = s[i]
      /\ \A i \in 1..Len(t) : Len(s) + i \in 1..Len(s \o t) /\ (s \o t)[Len(s) + i] = t[i]
  BY <1>1, <1>2
<1>4. ASSUME NEW i \in 1..Len(s \o t)
      PROVE  \/ i \in 1..Len(s) /\ (s \o t)[i] = s[i]
             \/ i - Len(s) \in 1..Len(t) /\ (s \o t)[i] = t[i - Len(s)]
  BY <1>1, <1>2
<1>5. DOMAIN s = 1..Len(s) /\ DOMAIN t = 1..Len(t) /\ DOMAIN (s \o t) = 1..Len(s \o t)
  BY <1>1
<1>6. QED
  BY <1>3, <1>4, <1>5, Zenon DEF Has

LEMMA HasFew ==
  /\ \A x : ~Has(<<>>, x)
  /\ \A a, x : Has(<<a>>, x) <=> a = x
  /\ \A a, b, x : Has(<<a, b>>, x) <=> a = x \/ b = x
<1>1. \A x : ~Has(<<>>, x)
  BY DEF Has
<1>2. \A a : DOMAIN <<a>> = {1} /\ <<a>>[1] = a
  OBVIOUS
<1>3. \A a, b : DOMAIN <<a, b>> = {1, 2} /\ <<a, b>>[1] = a /\ <<a, b>>[2] = b
  OBVIOUS
<1>4. \A a, x : Has(<<a>>, x) <=> a = x
  BY <1>2 DEF Has
<1>5. \A a, b, x : Has(<<a, b>>, x) <=> a = x \/ b = x
  BY <1>3 DEF Has
<1>6. QED
  BY <1>1, <1>4, <1>5

Ending(i) == i = Closing \/ i = Finishing
LEMMA EndingItems ==
  /\ \A i : i.op \in Reads \cup {"rule", "until", "declare", "function"} => ~Ending(i)
  /\ \A i \in OperandPart \cup Quiet \cup LoopPart \cup StatementPart \cup FunctionPart :
       ~Ending(i)
  /\ ~Ending(Initialised) /\ ~Ending(Entering) /\ ~Ending(Leaving)
  /\ Closing # Finishing /\ Opening # Closing /\ Opening # Finishing
<1>1. Closing.op = "compiler" /\ Finishing.op = "end function"
  BY ChangeItems, ChangeFields, Zenon
<1>2. \A x \in Reads \cup {"rule", "until", "declare", "function"} :
        x # "compiler" /\ x # "end function"
  <2>1. \A x \in Reads : x # "compiler" /\ x # "end function"
    BY Zenon DEF Reads
  <2>2. \A x \in {"rule", "until", "declare", "function"} : x # "compiler" /\ x # "end function"
    BY Zenon
  <2>3. QED
    BY <2>1, <2>2, Zenon
<1> DEFINE Rare == {"not in", "recover", "synchronize", "advance"}
<1>3. \A x \in Rare : x # "compiler" /\ x # "end function"
  BY Zenon
<1> HIDE DEF Rare
<1>4. \A i : i.op \in Reads \cup {"rule", "until", "declare", "function"} => ~Ending(i)
  BY <1>1, <1>2, Zenon DEF Ending
<1>5. \A i : i.op \in Rare => ~Ending(i)
  BY <1>1, <1>3, Zenon DEF Ending
<1>6. \A i \in OperandPart \cup Quiet \cup LoopPart \cup StatementPart : ~Ending(i)
  <2>1. "rule" \in {"rule", "until", "declare", "function"}
        /\ "until" \in {"rule", "until", "declare", "function"}
    BY Zenon
  <2>2. \A i \in StatementPart : ~Ending(i)
    <3>1. \A i \in StatementPart : i.op \in Reads \/ i.op = "rule" \/ i.op = "until" \/ i.op \in Rare
      BY PartKinds, Zenon DEF Rare
    <3>2. \A i : i.op \in Reads \/ i.op = "rule" \/ i.op = "until" => ~Ending(i)
      BY <1>4, <2>1, Zenon
    <3>3. QED
      BY <1>5, <3>1, <3>2, Zenon
  <2>3. \A i \in LoopPart : ~Ending(i)
    BY <1>4, <2>1, PartKinds, Zenon
  <2>4. \A i \in Quiet : ~Ending(i)
    BY <1>4, PartKinds, Zenon
  <2>5. \A i \in OperandPart : ~Ending(i)
    BY <1>4, PartKinds, Zenon
  <2>6. QED
    BY <2>2, <2>3, <2>4, <2>5, Zenon
<1>7. \A i \in FunctionPart : ~Ending(i)
  <2>1. \A i \in FunctionPart : i.op \in {"consume", "unless", "rule"}
    <3>1. /\ \A type : Expect(type).op = "consume"
          /\ \A type, items : Optional(type, items).op = "consume" /\ Repeat(type, items).op = "consume"
          /\ \A type, items : Unless(type, items).op = "unless"
          /\ Rule("block").op = "rule"
      BY Fields, ExpectFields, OptionalFields, RepeatFields
    <3>2. Parameter.op = "consume"
      BY <3>1, Zenon DEF Parameter, ParseVariable
    <3>3. QED
      BY <3>1, <3>2, FunctionPartKinds
  <2>2. {"consume", "unless", "rule"} \subseteq Reads \cup {"rule", "until", "declare", "function"}
    BY DEF Reads
  <2>3. QED
    BY <1>4, <2>1, <2>2
<1>8. ~Ending(Initialised) /\ ~Ending(Entering) /\ ~Ending(Leaving)
  BY <1>1, ChangeItems, ChangeFields, Zenon DEF Ending
<1>9. Closing # Finishing /\ Opening # Closing /\ Opening # Finishing
  BY <1>1, ChangeItems, ChangeFields, Zenon
<1>10. QED
  BY <1>4, <1>6, <1>7, <1>8, <1>9, Zenon

\* What the lists of the rules for declarations end.
Neutral(items) == ~Has(items, Closing) /\ ~Has(items, Finishing)
Closes(items)  == Has(items, Closing) /\ ~Has(items, Finishing)

LEMMA NeutralDeclarations ==
  /\ Neutral(Function1) /\ Neutral(Function2) /\ Neutral(Function3) /\ Neutral(Function4)
  /\ Neutral(Function5) /\ Neutral(Variable1) /\ Neutral(Variable2) /\ Neutral(Variable3)
  /\ Neutral(Method1) /\ Neutral(Method2)
<1> DEFINE S == {Optional("FUN", <<>>), ParseVariable(<<>>), Do("declare"), Initialised,
                 FunctionOf("FUNCTION"), FunctionOf("METHOD"), Require("IDENTIFIER"),
                 Optional("VAR", <<>>), ParseVariable(VariableParts),
                 Optional("EQUAL", <<Expression>>), Expect("SEMICOLON")}
<1>1. \A i \in S : ~Ending(i)
  <2>1. /\ \A type, items : Optional(type, items).op = "consume"
        /\ \A items : ParseVariable(items).op = "consume"
        /\ Require("IDENTIFIER").op = "consume" /\ Do("declare").op = "declare"
        /\ FunctionOf("FUNCTION").op = "function" /\ FunctionOf("METHOD").op = "function"
        /\ Expect("SEMICOLON").op = "consume"
    BY Fields, OptionalFields, RequireFields, ExpectFields DEF ParseVariable
  <2>2. {"consume", "declare", "function"} \subseteq Reads \cup {"rule", "until", "declare", "function"}
    BY DEF Reads
  <2>3. \A i : i.op \in {"consume", "declare", "function"} => ~Ending(i)
    BY <2>2, EndingItems
  <2>4. QED
    BY <2>1, <2>3, EndingItems
<1>2. \A T : \A a, b, c, d, e \in T : <<a, b, c, d, e>> \in Seq(T) /\ <<a, b, c, d>> \in Seq(T)
  OBVIOUS
<1>3. Function1 \in Seq(S) /\ Function3 \in Seq(S)
  BY <1>2 DEF Function1, Function3
<1>4. Method1 \in Seq(S) /\ Variable1 \in Seq(S)
  BY DEF Method1, Variable1
<1>5. Variable3 \in Seq(S)
  <2>1. Variable3 = <<Do("declare"), Optional("EQUAL", <<Expression>>), Expect("SEMICOLON"), Initialised>>
    BY Zenon DEF Variable3
  <2>2. QED
    BY <1>2, <2>1
<1> HIDE DEF S
<1>6. \A s \in Seq(S) : s # <<>> => Tail(s) \in Seq(S)
  OBVIOUS
<1>7. ASSUME NEW s \in Seq(S)
      PROVE  Neutral(s)
  BY <1>1, HasParts DEF Neutral, Ending
<1>8. /\ Function1 # <<>> /\ Function2 # <<>> /\ Function3 # <<>> /\ Function4 # <<>>
      /\ Method1 # <<>> /\ Variable1 # <<>>
  BY DEF Function1, Function2, Function3, Function4, Method1, Variable1
<1>9. Function2 \in Seq(S) /\ Function4 \in Seq(S) /\ Method2 \in Seq(S) /\ Variable2 \in Seq(S)
  BY <1>3, <1>4, <1>6, <1>8, FunctionSteps
<1>10. Function5 \in Seq(S)
  BY <1>6, <1>8, <1>9, FunctionSteps
<1>11. QED
  BY <1>3, <1>4, <1>5, <1>7, <1>9, <1>10

LEMMA NeutralClasses ==
  /\ Neutral(Class1) /\ Neutral(Class2) /\ Neutral(Class3) /\ Neutral(Class4) /\ Neutral(Class5)
  /\ Neutral(Class6) /\ Neutral(Class7) /\ Neutral(Class8) /\ Neutral(Class9) /\ Neutral(Class10)
<1> DEFINE S == {Optional("CLASS", <<>>), Require("IDENTIFIER"), Do("declare"), Initialised,
                 Entering, Named(FALSE), Expect("LEFT_BRACE"), Methods, Expect("RIGHT_BRACE"),
                 Leaving}
<1>1. \A i \in S : ~Ending(i)
  <2>1. /\ \A type, items : Optional(type, items).op = "consume"
        /\ \A type : Require(type).op = "consume" /\ Expect(type).op = "consume"
        /\ Do("declare").op = "declare"
    BY Fields, OptionalFields, RequireFields, ExpectFields
  <2>2. Named(FALSE).op = "named"
    BY Fields, Zenon
  <2>3. {"consume", "declare", "named", "until"} \subseteq Reads \cup {"rule", "until", "declare", "function"}
    BY DEF Reads
  <2>4. \A i : i.op \in {"consume", "declare", "named", "until"} => ~Ending(i)
    BY <2>3, EndingItems
  <2>5. Methods.op = "until"
    BY ChangeItems, Zenon
  <2>6. /\ ~Ending(Optional("CLASS", <<>>)) /\ ~Ending(Require("IDENTIFIER"))
        /\ ~Ending(Do("declare")) /\ ~Ending(Expect("LEFT_BRACE")) /\ ~Ending(Expect("RIGHT_BRACE"))
    BY <2>1, <2>4
  <2>7. ~Ending(Named(FALSE)) /\ ~Ending(Methods)
    <3>1. \A i : i.op = "named" => ~Ending(i)
      BY <2>4
    <3>2. \A i : i.op = "until" => ~Ending(i)
      BY <2>4
    <3>3. QED
      BY <2>2, <2>5, <3>1, <3>2, Zenon
  <2>8. ~Ending(Initialised) /\ ~Ending(Entering) /\ ~Ending(Leaving)
    BY EndingItems
  <2>9. QED
    BY <2>6, <2>7, <2>8, Zenon
<1>2. Class1 \in Seq(S)
  <2>1. \A T : \A a, b, c, d, e, f, g, h, i, j \in T : <<a, b, c, d, e, f, g, h, i, j>> \in Seq(T)
    OBVIOUS
  <2>2. Class1 = <<Optional("CLASS", <<>>), Require("IDENTIFIER"), Do("declare"), Initialised,
             Entering, Named(FALSE), Expect("LEFT_BRACE"), Methods,
             Expect("RIGHT_BRACE"), Leaving>>
    BY Zenon DEF Class1
  <2>3. QED
    BY <2>1, <2>2
<1> HIDE DEF S
<1>3. \A s \in Seq(S) : s # <<>> => Tail(s) \in Seq(S)
  OBVIOUS
<1>4. ASSUME NEW s \in Seq(S)
      PROVE  Neutral(s)
  BY <1>1, HasParts DEF Neutral, Ending
<1>5. /\ Class1 # <<>> /\ Class2 # <<>> /\ Class3 # <<>> /\ Class4 # <<>> /\ Class5 # <<>>
      /\ Class6 # <<>> /\ Class7 # <<>> /\ Class8 # <<>> /\ Class9 # <<>> /\ Class10 # <<>>
  BY DEF Class1, Class2, Class3, Class4, Class5, Class6, Class7, Class8, Class9, Class10
<1>6. Class2 \in Seq(S) /\ Class3 \in Seq(S) /\ Class4 \in Seq(S)
  BY <1>2, <1>3, <1>5, ClassSteps
<1>7. Class5 \in Seq(S) /\ Class6 \in Seq(S) /\ Class7 \in Seq(S)
  BY <1>3, <1>5, <1>6, ClassSteps
<1>8. Class8 \in Seq(S) /\ Class9 \in Seq(S) /\ Class10 \in Seq(S)
  BY <1>3, <1>5, <1>7, ClassSteps
<1>9. QED
  BY <1>2, <1>4, <1>6, <1>7, <1>8

LEMMA ClosingLists ==
  /\ Closes(Block1) /\ Closes(Block2) /\ Closes(Block3)
  /\ \A parts \in Seq(LoopPart) : Closes(parts \o Block4)
<1>1. ASSUME NEW S, \A i \in S : ~Ending(i), NEW s \in Seq(S)
      PROVE  Closes(s \o <<Closing>>)
  <2>1. ~Has(s, Closing) /\ ~Has(s, Finishing)
    BY <1>1, HasParts DEF Ending
  <2>2. Has(<<Closing>>, Closing) /\ ~Has(<<Closing>>, Finishing)
    BY HasFew, EndingItems
  <2>3. <<Closing>> \in Seq({Closing})
    OBVIOUS
  <2>4. \A x : Has(s \o <<Closing>>, x) <=> Has(s, x) \/ Has(<<Closing>>, x)
    BY <2>3, HasJoined
  <2>5. QED
    BY <2>1, <2>2, <2>4 DEF Closes
<1> DEFINE S == {Expect("LEFT_BRACE"), Declarations, Require("RIGHT_BRACE")}
<1>2. \A i \in S : ~Ending(i)
  <2>1. Expect("LEFT_BRACE").op = "consume" /\ Require("RIGHT_BRACE").op = "consume"
    BY RequireFields, ExpectFields
  <2>2. Declarations.op = "until"
    BY ChangeItems, Zenon
  <2>3. {"consume", "until"} \subseteq Reads \cup {"rule", "until", "declare", "function"}
    BY DEF Reads
  <2>4. \A i : (i.op = "consume" => ~Ending(i)) /\ (i.op = "until" => ~Ending(i))
    BY <2>3, EndingItems
  <2>5. QED
    BY <2>1, <2>2, <2>4, Zenon
<1>3. /\ <<Expect("LEFT_BRACE"), Declarations, Require("RIGHT_BRACE")>> \in Seq(S)
      /\ <<Declarations, Require("RIGHT_BRACE")>> \in Seq(S)
      /\ <<Require("RIGHT_BRACE")>> \in Seq(S)
  OBVIOUS
<1> HIDE DEF S
<1>4. /\ Block1 = <<Expect("LEFT_BRACE"), Declarations, Require("RIGHT_BRACE")>> \o <<Closing>>
      /\ Block2 = <<Declarations, Require("RIGHT_BRACE")>> \o <<Closing>>
      /\ Block3 = <<Require("RIGHT_BRACE")>> \o <<Closing>>
  BY Pair, Ended2, Ended3, Zenon DEF Block1, Block2, Block3
<1>5. Closes(Block1) /\ Closes(Block2) /\ Closes(Block3)
  BY <1>1, <1>2, <1>3, <1>4
<1>6. \A i \in LoopPart : ~Ending(i)
  BY EndingItems
<1>7. QED
  BY <1>1, <1>5, <1>6 DEF Block4

LEMMA FunctionLists ==
  ASSUME NEW items, NEW now, NEW after, NEW marks \in BOOLEAN, InFunction(items, now, after, marks)
  PROVE  Has(items, Finishing) /\ ~Has(items, Closing)
<1>1. Has(FunctionEnd(marks), Finishing) /\ ~Has(FunctionEnd(marks), Closing)
  <2>1. Initialised # Closing /\ Finishing # Closing
    BY EndingItems DEF Ending
  <2>2. FunctionEnd(marks) = <<Finishing>> \/ FunctionEnd(marks) = <<Finishing, Initialised>>
    BY Zenon DEF FunctionEnd
  <2>3. QED
    BY <2>1, <2>2, HasFew
<1>2. \A p \in FunctionPart : p # Closing /\ p # Finishing
  BY EndingItems DEF Ending
<1>3. FunctionEnd(marks) \in Seq({Finishing, Initialised})
  BY FunctionEnds
<1>4. ASSUME NEW parts \in Seq(FunctionPart)
      PROVE  LET list == parts \o FunctionEnd(marks)
             IN  /\ Has(list, Finishing) /\ ~Has(list, Closing)
                 /\ Has(Beginning \o list, Finishing) /\ ~Has(Beginning \o list, Closing)
                 /\ Has(<<Initialised>> \o list, Finishing) /\ ~Has(<<Initialised>> \o list, Closing)
  <2> DEFINE T == {Finishing, Initialised}
             U == FunctionPart \cup T
             V == {Do("declare"), Initialised}
             list == parts \o FunctionEnd(marks)
  <2>1. list \in Seq(U)
    <3> HIDE DEF T
    <3>1. QED
      BY <1>3, Joined DEF T
  <2>2. Has(list, Finishing) /\ ~Has(list, Closing)
    <3>1. ~Has(parts, Closing)
      BY <1>2, HasParts
    <3>2. QED
      BY <1>1, <1>3, <3>1, HasJoined
  <2>3. <<Initialised>> \in Seq(V) /\ Beginning \in Seq(V)
    BY DEF Beginning
  <2>4. ~Has(<<Initialised>>, Closing) /\ ~Has(Beginning, Closing)
    <3>1. Do("declare").op = "declare"
      BY Fields
    <3>2. Closing.op = "compiler"
      BY ChangeItems, Zenon
    <3>3. Initialised # Closing /\ Do("declare") # Closing
      BY <3>1, <3>2, EndingItems DEF Ending
    <3>4. QED
      BY <3>3, HasFew DEF Beginning
  <2> HIDE DEF U, V, list
  <2>5. \A x : /\ Has(Beginning \o list, x) <=> Has(Beginning, x) \/ Has(list, x)
               /\ Has(<<Initialised>> \o list, x) <=> Has(<<Initialised>>, x) \/ Has(list, x)
    <3> DEFINE one == <<Initialised>>
    <3> HIDE DEF one
    <3>1. one \in Seq(V)
      BY <2>3 DEF one
    <3>2. \A x : /\ Has(Beginning \o list, x) <=> Has(Beginning, x) \/ Has(list, x)
                 /\ Has(one \o list, x) <=> Has(one, x) \/ Has(list, x)
      BY <2>1, <2>3, <3>1, HasJoined
    <3>3. QED
      BY <3>2 DEF one
  <2>6. QED
    BY <2>2, <2>4, <2>5 DEF list
<1>5. PICK parts \in Seq(FunctionPart) :
        \/ items = parts \o FunctionEnd(marks)
        \/ items = Beginning \o (parts \o FunctionEnd(marks))
        \/ items = <<Initialised>> \o (parts \o FunctionEnd(marks))
  BY DEF InFunction, Beginning
<1>6. QED
  BY <1>4, <1>5

\* A rule with a scope to end is one deeper than the rule before; a rule with a function
\* to end is in a function of its own, and the function before has its locals in order.
LEMMA RunsEnd ==
  ASSUME NEW items, NEW now \in State, NEW after \in State, Runs(items, now, after),
         items \notin {Block0, For0}
  PROVE  \/ /\ Neutral(items) /\ now.function = after.function /\ now.depth = after.depth
         \/ /\ Closes(items) /\ now.function = after.function /\ now.depth = after.depth + 1
         \/ /\ Has(items, Finishing) /\ ~Has(items, Closing)
            /\ now.function = after.function + 1 /\ now.depth = 1 /\ after.locals = "tidy"
<1>1. ASSUME NEW S, \A i \in S : ~Ending(i), NEW s \in Seq(S)
      PROVE  Neutral(s)
  BY <1>1, HasParts DEF Neutral, Ending
<1>2. \A i \in OperandPart \cup Quiet \cup LoopPart \cup StatementPart : ~Ending(i)
  BY EndingItems
<1>3. /\ Deeper(after).function = after.function /\ Deeper(after).depth = after.depth + 1
      /\ Marking(after).function = after.function /\ Marking(after).depth = after.depth
      /\ Marked(after).function = after.function /\ Marked(after).depth = after.depth
      /\ Entered(after).function = after.function /\ Entered(after).depth = after.depth
  BY StateFields
<1>4. ASSUME NEW marks \in BOOLEAN, InFunction(items, now, after, marks)
      PROVE  /\ Has(items, Finishing) /\ ~Has(items, Closing)
             /\ now.function = after.function + 1 /\ now.depth = 1
  <2>1. Has(items, Finishing) /\ ~Has(items, Closing)
    BY <1>4, FunctionLists
  <2>2. now = Calling(after, "tidy") \/ now = Calling(after, "declared")
    BY <1>4 DEF InFunction
  <2>3. QED
    BY <2>1, <2>2 DEF Calling
<1>5. CASE now = after /\ items \in Seq(OperandPart)
  BY <1>1, <1>2, <1>5
<1>6. CASE after.locals = "tidy" /\ now = after /\ items \in {Method1, Method2}
  BY <1>6, NeutralDeclarations
<1>7. CASE after.locals = "tidy" /\ InFunction(items, now, after, FALSE)
  <2>1. FALSE \in BOOLEAN
    OBVIOUS
  <2>2. QED
    BY <1>4, <1>7, <2>1
<1>8. CASE Outside(after) /\ RunsOutside(items, now, after)
  <2>1. CASE now = after /\ items \in Seq(StatementPart)
    BY <1>1, <1>2, <2>1
  <2>2. CASE now = after /\ items \in Beginnings
    <3>1. items \in {Class1, Class2, Class3, Class5, Variable1, Variable2, Variable3,
                     Function1, Function2, Function3}
      BY <2>2, Zenon DEF Beginnings
    <3>2. QED
      BY <2>2, <3>1, NeutralDeclarations, NeutralClasses
  <2>3. CASE now = Deeper(after) /\ items \in {Block1, Block2, Block3}
    BY <1>3, <2>3, ClosingLists
  <2>4. CASE now = Deeper(after) /\ \E parts \in Seq(LoopPart) : items = parts \o Block4
    BY <1>3, <2>4, ClosingLists
  <2>5. CASE now = Marking(after) /\ items \in {Function4, Class4}
    BY <1>3, <2>5, NeutralDeclarations, NeutralClasses
  <2>6. CASE now = Marking(after) /\ \E parts \in Seq(Quiet) : items = parts \o <<Initialised>>
    <3>1. PICK parts \in Seq(Quiet) : items = parts \o <<Initialised>>
      BY <2>6
    <3>2. Neutral(parts)
      BY <1>1, <1>2
    <3>3. Neutral(<<Initialised>>)
      BY HasFew, EndingItems DEF Neutral, Ending
    <3>4. <<Initialised>> \in Seq({Initialised})
      OBVIOUS
    <3>5. Neutral(items)
      BY <3>1, <3>2, <3>3, <3>4, HasJoined DEF Neutral
    <3>6. QED
      BY <1>3, <2>6, <3>5
  <2>7. CASE now = Marked(after) /\ items = Function5
    BY <1>3, <2>7, NeutralDeclarations
  <2>8. CASE now = Entered(after) /\ items \in {Class6, Class7, Class8, Class9, Class10}
    BY <1>3, <2>8, NeutralClasses
  <2>9. CASE InFunction(items, now, after, TRUE)
    <3>1. TRUE \in BOOLEAN /\ after.locals = "tidy"
      BY <1>8 DEF Outside
    <3>2. QED
      BY <1>4, <2>9, <3>1
  <2>10. QED
    BY <1>8, <2>1, <2>2, <2>3, <2>4, <2>5, <2>6, <2>7, <2>8, <2>9, Zenon DEF RunsOutside
<1>9. QED
  BY <1>5, <1>6, <1>7, <1>8, Zenon DEF Runs

\* Between two declarations the innermost rule is one of a block or of the program.
LEMMA UntilOutside ==
  ASSUME NEW items, NEW now \in State, NEW after \in State, Runs(items, now, after), items # <<>>,
         Head(items).op = "until", Head(items).name = "declaration"
  PROVE  Outside(now) /\ Settled(items)
<1>1. \A S : \A s \in Seq(S) : s # <<>> => Head(s) \in S
  OBVIOUS
<1>2. \A x \in Reads : x # "until"
  BY DEF Reads
<1>3. /\ Initialised.op = "compiler" /\ Opening.op = "compiler" /\ Leaving.op = "compiler"
      /\ Methods.name = "method" /\ Finishing.op # "until"
  BY ChangeItems, Zenon
<1>4. /\ \A type, more : Optional(type, more).op = "consume"
      /\ \A type : Require(type).op = "consume" /\ Expect(type).op = "consume"
      /\ Do("declare").op = "declare"
      /\ FunctionOf("FUNCTION").op = "function" /\ FunctionOf("METHOD").op = "function"
  BY Fields, OptionalFields, RequireFields, ExpectFields
<1>5. Named(FALSE).op = "named"
  BY Fields, Zenon
<1>6. items \notin {Method1, Method2, Function4, Function5, Class4}
  <2>1. /\ Head(Method1).op = "consume" /\ Head(Method2).op = "function"
        /\ Head(Function5).op = "function"
    BY <1>4, FunctionSteps
  <2>2. Head(Function4).op = "compiler" /\ Head(Class4).op = "compiler"
    BY <1>3, FunctionSteps, ClassSteps
  <2>3. QED
    BY <2>1, <2>2
<1>7. items \notin {Class6, Class7, Class8, Class9, Class10}
  <2>1. /\ Head(Class7).op = "consume" /\ Head(Class9).op = "consume"
        /\ Head(Class10).op = "compiler" /\ Head(Class8).name = "method"
    BY <1>3, <1>4, ClassSteps
  <2>2. Head(Class6).op = "named"
    BY <1>5, ClassSteps
  <2>3. QED
    BY <2>1, <2>2
<1>8. \A marks \in BOOLEAN : ~InFunction(items, now, after, marks)
  <2>1. SUFFICES ASSUME NEW marks \in BOOLEAN, InFunction(items, now, after, marks)
                 PROVE  FALSE
    BY Zenon
  <2>2. PICK parts \in Seq(FunctionPart) :
          \/ items = parts \o FunctionEnd(marks)
          \/ items = Beginning \o (parts \o FunctionEnd(marks))
          \/ items = <<Initialised>> \o (parts \o FunctionEnd(marks))
    BY <2>1 DEF InFunction, Beginning
  <2>3. items = parts \o FunctionEnd(marks)
    <3>1. /\ Head(Beginning \o (parts \o FunctionEnd(marks))) = Do("declare")
          /\ Head(<<Initialised>> \o (parts \o FunctionEnd(marks))) = Initialised
      BY FunctionShapes
    <3>2. Do("declare").op # "until" /\ Initialised.op # "until"
      BY <1>3, <1>4
    <3>3. QED
      BY <2>2, <3>1, <3>2
  <2>4. FunctionEnd(marks) \in Seq({Finishing, Initialised}) /\ FunctionEnd(marks) # <<>>
        /\ Head(FunctionEnd(marks)) = Finishing
    BY FunctionEnds
  <2>5. CASE parts = <<>>
    <3>1. items = FunctionEnd(marks)
      BY <2>3, <2>4, <2>5, NothingBefore
    <3>2. QED
      BY <1>3, <2>4, <3>1
  <2>6. CASE parts # <<>>
    <3>1. Head(items) = Head(parts) /\ Head(parts) \in FunctionPart
      BY <2>3, <2>4, <2>6, Split
    <3>2. \A i \in FunctionPart : i.op # "until"
      <4>1. /\ \A type, more : Unless(type, more).op = "unless" /\ Repeat(type, more).op = "consume"
            /\ Rule("block").op = "rule"
        BY Fields, RepeatFields
      <4>2. Parameter.op = "consume"
        BY <1>4 DEF Parameter, ParseVariable
      <4>3. QED
        BY <1>4, <4>1, <4>2, FunctionPartKinds
    <3>3. QED
      BY <3>1, <3>2
  <2>7. QED
    BY <2>5, <2>6
<1>9. items \notin Seq(OperandPart)
  <2>1. \A i \in OperandPart : i.op # "until"
    BY <1>2, PartKinds, Zenon
  <2>2. QED
    BY <1>1, <2>1
<1>10. ~\E parts \in Seq(Quiet) : items = parts \o <<Initialised>>
  <2>1. SUFFICES ASSUME NEW parts \in Seq(Quiet), items = parts \o <<Initialised>>
                 PROVE  FALSE
    OBVIOUS
  <2>2. \A i \in Quiet : i.op # "until"
    BY <1>2, PartKinds, Zenon
  <2>3. <<Initialised>> \in Seq({Initialised}) /\ <<Initialised>> # <<>>
        /\ Head(<<Initialised>>) = Initialised
    OBVIOUS
  <2>4. CASE parts = <<>>
    <3>1. items = <<Initialised>>
      BY <2>1, <2>4, <2>3, NothingBefore
    <3>2. QED
      BY <1>3, <2>3, <3>1
  <2>5. CASE parts # <<>>
    <3>1. Head(items) = Head(parts) /\ Head(parts) \in Quiet
      BY <2>1, <2>3, <2>5, Split
    <3>2. QED
      BY <2>2, <3>1
  <2>6. QED
    BY <2>4, <2>5
<1>11. Settled(items)
  <2>1. Head(items) # Opening /\ Head(items).op # "consume"
    BY <1>3
  <2>2. QED
    BY <2>1, SettledByHead
<1>12. TRUE \in BOOLEAN /\ FALSE \in BOOLEAN
  OBVIOUS
<1>13. Outside(after) /\ RunsOutside(items, now, after)
  BY <1>6, <1>8, <1>9, <1>12, Zenon DEF Runs
<1>14. now = after \/ now = Deeper(after)
  BY <1>6, <1>7, <1>8, <1>10, <1>12, <1>13, Zenon DEF RunsOutside
<1>15. Outside(now)
  BY <1>13, <1>14, StateFields DEF Outside
<1>16. QED
  BY <1>11, <1>15

-------------------------------------------------------------------------------
(***************************************************************************)
(* Counting the rules that have a function or a scope to end.              *)
(***************************************************************************)
UpTo(T, k) == {j \in 1..k : j \in T}

LEMMA Counting ==
  ASSUME NEW T
  PROVE  /\ Cardinality(UpTo(T, 0)) = 0
         /\ \A k \in Nat :
              /\ Cardinality(UpTo(T, k)) \in Nat
              /\ Cardinality(UpTo(T, k + 1))
                   = Cardinality(UpTo(T, k)) + (IF k + 1 \in T THEN 1 ELSE 0)
<1>1. UpTo(T, 0) = {}
  BY DEF UpTo
<1>2. ASSUME NEW k \in Nat
      PROVE  /\ IsFiniteSet(UpTo(T, k)) /\ k + 1 \notin UpTo(T, k)
             /\ UpTo(T, k + 1) = IF k + 1 \in T THEN UpTo(T, k) \cup {k + 1} ELSE UpTo(T, k)
  <2>1. IsFiniteSet(1..k)
    BY FS_Interval
  <2>2. IsFiniteSet(UpTo(T, k))
    <3>1. UpTo(T, k) \subseteq 1..k
      BY DEF UpTo
    <3>2. QED
      BY <2>1, <3>1, FS_Subset
  <2>3. 1..(k + 1) = (1..k) \cup {k + 1} /\ k + 1 \notin 1..k
    OBVIOUS
  <2>4. QED
    BY <2>2, <2>3 DEF UpTo
<1>3. ASSUME NEW k \in Nat
      PROVE  /\ Cardinality(UpTo(T, k)) \in Nat
             /\ Cardinality(UpTo(T, k + 1))
                  = Cardinality(UpTo(T, k)) + (IF k + 1 \in T THEN 1 ELSE 0)
  <2>1. Cardinality(UpTo(T, k)) \in Nat
    BY <1>2, FS_CardinalityType
  <2>2. Cardinality(UpTo(T, k) \cup {k + 1}) = Cardinality(UpTo(T, k)) + 1
    BY <1>2, FS_AddElement
  <2>3. CASE k + 1 \in T
    <3>1. UpTo(T, k + 1) = UpTo(T, k) \cup {k + 1}
      BY <1>2, <2>3
    <3>2. QED
      BY <2>1, <2>2, <2>3, <3>1
  <2>4. CASE k + 1 \notin T
    <3>1. UpTo(T, k + 1) = UpTo(T, k)
      BY <1>2, <2>4
    <3>2. QED
      BY <2>1, <2>4, <3>1
  <2>5. QED
    BY <2>3, <2>4
<1>4. QED
  BY <1>1, <1>3, FS_EmptySet

\* What a pending rule adds to the state of the rule before.
Adds(states, k) ==
  \/ /\ ~EndsScope(k) /\ ~EndsFunction(k)
     /\ states[k].function = states[k - 1].function /\ states[k].depth = states[k - 1].depth
  \/ /\ EndsScope(k) /\ ~EndsFunction(k)
     /\ states[k].function = states[k - 1].function /\ states[k].depth = states[k - 1].depth + 1
  \/ /\ ~EndsScope(k) /\ EndsFunction(k)
     /\ states[k].function = states[k - 1].function + 1 /\ states[k].depth = 1
     /\ states[k - 1].locals = "tidy"
Stacked(states) ==
  /\ rules \in Seq(Lists) /\ Lower(states, rules, compilers)
  /\ \A k \in 1..Len(rules) : Adds(states, k)

LEMMA StackFacts ==
  ASSUME NEW states, Stacked(states)
  PROVE  /\ Len(rules) \in Nat /\ DOMAIN rules = 1..Len(rules)
         /\ \A k \in Nat : states[k] \in State /\ states[k].function \in Nat /\ states[k].depth \in Nat
         /\ states[0].function = 1 /\ states[0].depth = 0
         /\ \A k \in 0..Len(rules) : 1 <= states[k].function
         /\ \A i, j \in 0..Len(rules) : i <= j => states[i].function <= states[j].function
<1>1. rules \in Seq(Lists) /\ Lower(states, rules, compilers)
  BY DEF Stacked
<1>2. Len(rules) \in Nat /\ DOMAIN rules = 1..Len(rules)
  <2> HIDE DEF Lists
  <2>1. QED
    BY <1>1
<1>3. states \in [Nat -> State] /\ states[0] = Outermost
      /\ \A i, j \in 0..Len(rules) : i <= j => states[i].function <= states[j].function
  BY <1>1 DEF Lower
<1>4. \A k \in Nat : states[k] \in State
  BY <1>3
<1>5. \A k \in Nat : states[k].function \in Nat /\ states[k].depth \in Nat
  BY <1>4, StateFields
<1>6. states[0].function = 1 /\ states[0].depth = 0
  BY <1>3 DEF Outermost
<1>7. ASSUME NEW k \in 0..Len(rules)
      PROVE  1 <= states[k].function
  <2>1. 0 \in 0..Len(rules) /\ 0 <= k
    BY <1>2
  <2>2. QED
    BY <1>3, <1>6, <2>1
<1>8. QED
  BY <1>2, <1>3, <1>4, <1>5, <1>6, <1>7

\* The function of a rule is that of its state ...
LEMMA FunctionsCounted ==
  ASSUME NEW states, Stacked(states)
  PROVE  \A k \in 0..Len(rules) : FunctionOfRule(k) = states[k].function
<1> DEFINE T == {j \in Nat : EndsFunction(j)}
           Done == {k \in Nat : k <= Len(rules) => FunctionOfRule(k) = states[k].function}
<1>1. \A k \in Nat : FunctionOfRule(k) = 1 + Cardinality(UpTo(T, k))
  <2>1. \A k \in Nat : UpTo(T, k) = {j \in 1..k : EndsFunction(j)}
    BY DEF UpTo
  <2>2. QED
    BY <2>1, Zenon DEF FunctionOfRule
<1>2. 0 \in Done
  <2>1. states[0].function = 1 /\ FunctionOfRule(0) = 1 + Cardinality(UpTo(T, 0))
    BY <1>1, StackFacts
  <2> HIDE DEF T
  <2>2. Cardinality(UpTo(T, 0)) = 0
    BY Counting
  <2>3. QED
    BY <2>1, <2>2
<1>3. ASSUME NEW k \in Nat, k \in Done
      PROVE  k + 1 \in Done
  <2>1. SUFFICES ASSUME k + 1 <= Len(rules)
                 PROVE  FunctionOfRule(k + 1) = states[k + 1].function
    OBVIOUS
  <2>2. k + 1 \in 1..Len(rules) /\ (k + 1) - 1 = k /\ k <= Len(rules)
    BY <2>1, StackFacts
  <2>3. Adds(states, k + 1)
    BY <2>2 DEF Stacked
  <2>4. \/ ~EndsFunction(k + 1) /\ states[k + 1].function = states[k].function
        \/ EndsFunction(k + 1) /\ states[k + 1].function = states[k].function + 1
    BY <2>2, <2>3 DEF Adds
  <2>5. FunctionOfRule(k) = states[k].function
    BY <1>3, <2>2
  <2>6. k + 1 \in T <=> EndsFunction(k + 1)
    OBVIOUS
  <2> HIDE DEF T
  <2>7. /\ FunctionOfRule(k + 1) = 1 + Cardinality(UpTo(T, k + 1))
        /\ FunctionOfRule(k) = 1 + Cardinality(UpTo(T, k))
    BY <1>1
  <2>8. /\ Cardinality(UpTo(T, k)) \in Nat
        /\ Cardinality(UpTo(T, k + 1)) = Cardinality(UpTo(T, k)) + (IF k + 1 \in T THEN 1 ELSE 0)
    BY Counting
  <2>9. QED
    BY <2>4, <2>5, <2>6, <2>7, <2>8
<1>4. Nat \subseteq Done
  <2> HIDE DEF Done
  <2>1. QED
    BY <1>2, <1>3, Induction
<1>5. QED
  BY <1>4, StackFacts

\* ... and its depth the number of the scopes of that function to end.
ScopeSet(f) == {j \in Nat : EndsScope(j) /\ FunctionOfRule(j) = f}
LEMMA DepthsCounted ==
  ASSUME NEW states, Stacked(states)
  PROVE  \A k \in 0..Len(rules) :
           states[k].depth = Cardinality(UpTo(ScopeSet(states[k].function), k))
                               + (IF states[k].function = 1 THEN 0 ELSE 1)
<1> DEFINE Depth(k) == Cardinality(UpTo(ScopeSet(states[k].function), k))
                         + (IF states[k].function = 1 THEN 0 ELSE 1)
           Done == {k \in Nat : k <= Len(rules) => states[k].depth = Depth(k)}
<1>1. 0 \in Done
  <2>1. Depth(0) = 0
    <3>1. states[0].function = 1 /\ Cardinality(UpTo(ScopeSet(states[0].function), 0)) = 0
      BY Counting, StackFacts
    <3>2. QED
      BY <3>1
  <2>2. states[0].depth = 0
    BY StackFacts
  <2> HIDE DEF Depth
  <2>3. QED
    BY <2>1, <2>2
<1>2. ASSUME NEW k \in Nat, k \in Done
      PROVE  k + 1 \in Done
  <2>1. SUFFICES ASSUME k + 1 <= Len(rules)
                 PROVE  states[k + 1].depth = Depth(k + 1)
    OBVIOUS
  <2>2. k + 1 \in 1..Len(rules) /\ (k + 1) - 1 = k /\ k \in 0..Len(rules) /\ k + 1 \in 0..Len(rules)
    BY <2>1, StackFacts
  <2>3. Adds(states, k + 1)
    BY <2>2 DEF Stacked
  <2>4. states[k].depth = Depth(k)
    <3> HIDE DEF Depth
    <3>1. QED
      BY <1>2, <2>2
  <2>5. FunctionOfRule(k + 1) = states[k + 1].function
    BY <2>2, FunctionsCounted
  <2>6. k + 1 \in ScopeSet(states[k + 1].function) <=> EndsScope(k + 1)
    BY <2>5 DEF ScopeSet
  <2>7. \A T : /\ Cardinality(UpTo(T, k)) \in Nat
               /\ Cardinality(UpTo(T, k + 1)) = Cardinality(UpTo(T, k)) + (IF k + 1 \in T THEN 1 ELSE 0)
    BY Counting
  <2>8. CASE ~EndsScope(k + 1) /\ states[k + 1].function = states[k].function
             /\ states[k + 1].depth = states[k].depth
    BY <2>4, <2>6, <2>7, <2>8
  <2>9. CASE EndsScope(k + 1) /\ states[k + 1].function = states[k].function
             /\ states[k + 1].depth = states[k].depth + 1
    <3> DEFINE f == states[k].function
    <3>1. states[k + 1].depth = (Cardinality(UpTo(ScopeSet(f), k)) + (IF f = 1 THEN 0 ELSE 1)) + 1
      BY <2>4, <2>9
    <3>2. Cardinality(UpTo(ScopeSet(f), k)) \in Nat
          /\ Cardinality(UpTo(ScopeSet(f), k + 1)) = Cardinality(UpTo(ScopeSet(f), k)) + 1
      BY <2>6, <2>7, <2>9
    <3>3. QED
      BY <2>9, <3>1, <3>2
  <2>10. CASE ~EndsScope(k + 1) /\ states[k + 1].function = states[k].function + 1
              /\ states[k + 1].depth = 1
    <3> DEFINE f == states[k + 1].function
    <3>1. 1 <= states[k].function /\ states[k].function \in Nat
      BY <2>2, StackFacts
    <3>2. f # 1
      BY <2>10, <3>1
    <3>3. ASSUME NEW j \in 1..k
          PROVE  j \notin ScopeSet(f)
      <4>1. j \in 0..Len(rules) /\ j <= k
        BY <2>2
      <4>2. FunctionOfRule(j) = states[j].function /\ states[j].function <= states[k].function
            /\ states[j].function \in Nat
        BY <2>2, <4>1, FunctionsCounted, StackFacts
      <4>3. FunctionOfRule(j) # f
        BY <2>10, <3>1, <4>2
      <4>4. QED
        BY <4>3 DEF ScopeSet
    <3>4. k + 1 \notin ScopeSet(f)
      BY <2>6, <2>10
    <3>5. UpTo(ScopeSet(f), k) = {}
      BY <3>3 DEF UpTo
    <3>6. Cardinality(UpTo(ScopeSet(f), k + 1)) = 0
      <4>1. Cardinality(UpTo(ScopeSet(f), k)) = 0
        BY <3>5, FS_EmptySet
      <4>2. Cardinality(UpTo(ScopeSet(f), k + 1)) = Cardinality(UpTo(ScopeSet(f), k)) + 0
        BY <2>7, <3>4
      <4>3. QED
        BY <4>1, <4>2
    <3>7. QED
      BY <2>10, <3>2, <3>6
  <2>11. QED
    BY <2>2, <2>3, <2>8, <2>9, <2>10 DEF Adds
<1>3. Nat \subseteq Done
  <2> HIDE DEF Done
  <2>1. QED
    BY <1>1, <1>2, Induction
<1> HIDE DEF Depth
<1>4. \A k \in 0..Len(rules) : states[k].depth = Depth(k)
  BY <1>3, StackFacts
<1>5. QED
  BY <1>4 DEF Depth

\* A function that calls another one has left its locals in order.
LEMMA CallersTidy ==
  ASSUME NEW states, Stacked(states), NEW f \in Nat, 1 <= f, f < states[Len(rules)].function
  PROVE  /\ Tidy(compilers[f])
         /\ compilers[f].current_scope_depth
              = Cardinality(UpTo(ScopeSet(f), Len(rules))) + (IF f = 1 THEN 0 ELSE 1)
<1> DEFINE n == Len(rules)
           Later == {k \in 0..n : states[k].function > f}
<1>1. n \in Nat /\ n \in Later
  BY StackFacts
<1>2. Later \subseteq Nat /\ Later # {}
  BY <1>1
<1>3. PICK k \in Later : \A l \in Later : k <= l
  BY <1>2, LeastElement
<1>4. k \in 1..n /\ k - 1 \in 0..n /\ states[k].function > f /\ k - 1 \in Nat /\ k \in Nat
  <2>1. k \in 0..n /\ states[k].function > f /\ k # 0
    BY StackFacts
  <2>2. QED
    BY <1>1, <2>1
<1>5. states[k - 1].function <= f
  <2>1. k - 1 \notin Later
    BY <1>3, <1>4
  <2>2. states[k - 1].function \in Nat
    BY <1>4, StackFacts
  <2>3. QED
    BY <1>4, <2>1, <2>2
<1>6. Adds(states, k) /\ Lower(states, rules, compilers)
  BY <1>4 DEF Stacked
<1>7. /\ states[k].function \in Nat /\ states[k - 1].function \in Nat
      /\ states[k - 1].depth \in Nat /\ states[k - 1] \in State
  BY <1>4, StackFacts
<1> HIDE DEF n, Later
<1>8. /\ states[k].function = states[k - 1].function + 1 /\ states[k - 1].locals = "tidy"
      /\ ~EndsScope(k)
  BY <1>4, <1>5, <1>6, <1>7 DEF Adds
<1>9. states[k - 1].function = f
  BY <1>4, <1>5, <1>7, <1>8
<1>10. Meets(compilers[f], Awaited(rules[k], states[k - 1]))
  BY <1>4, <1>6, <1>7, <1>8, <1>9 DEF Lower, n
<1>11. Tidy(compilers[f]) /\ compilers[f].current_scope_depth = states[k - 1].depth
  <2>1. Awaited(rules[k], states[k - 1]) \in {states[k - 1], Marked(states[k - 1])}
    BY DEF Awaited
  <2>2. CASE Awaited(rules[k], states[k - 1]) = states[k - 1]
    BY <1>8, <1>10, <2>2 DEF Meets
  <2>3. CASE Awaited(rules[k], states[k - 1]) = Marked(states[k - 1])
    <3>1. Marked(states[k - 1]).depth = states[k - 1].depth
          /\ Marked(states[k - 1]).locals = "fresh"
      BY <1>7, StateFields
    <3>2. QED
      BY <1>10, <2>3, <3>1 DEF Meets, Fresh
  <2>4. QED
    BY <2>1, <2>2, <2>3
<1>12. UpTo(ScopeSet(f), n) = UpTo(ScopeSet(f), k - 1)
  <2>1. ASSUME NEW j \in k..n
        PROVE  j \notin ScopeSet(f)
    <3>1. j \in 0..n /\ k \in 0..n /\ k <= j /\ j \in Nat
      BY <1>4
    <3>2. FunctionOfRule(j) = states[j].function
      BY <3>1, FunctionsCounted DEF n
    <3>3. states[k].function <= states[j].function /\ states[j].function \in Nat
      BY <3>1, StackFacts DEF n
    <3>4. FunctionOfRule(j) # f
      BY <1>4, <1>7, <3>2, <3>3
    <3>5. QED
      BY <3>4 DEF ScopeSet
  <2>2. \A j \in 1..n : j \in 1..(k - 1) \/ j \in k..n
    BY <1>1, <1>4
  <2>3. \A j \in 1..(k - 1) : j \in 1..n
    BY <1>1, <1>4
  <2>4. QED
    BY <2>1, <2>2, <2>3 DEF UpTo
<1>13. states[k - 1].depth = Cardinality(UpTo(ScopeSet(f), k - 1)) + (IF f = 1 THEN 0 ELSE 1)
  BY <1>4, <1>9, DepthsCounted DEF n
<1>14. QED
  BY <1>11, <1>12, <1>13 DEF n

LEMMA TidyLocals ==
  ASSUME NEW c \in CompilerRecord, Tidy(c)
  PROVE  /\ \A i \in DOMAIN c.locals : c.locals[i].local_scope_depth \in 0..c.current_scope_depth
         /\ c.current_scope_depth = 0 => Len(c.locals) = 1
<1>1. /\ c.current_scope_depth \in Nat /\ c.locals \in Seq(LocalRecord)
      /\ Len(c.locals) \in Nat /\ \A i \in 1..Len(c.locals) : DepthAt(c, i) \in Int
  BY CompilerFields
<1>2. DOMAIN c.locals = 1..Len(c.locals)
  <2> HIDE DEF LocalRecord
  <2>1. QED
    BY <1>1
<1>3. /\ Len(c.locals) >= 1 /\ DepthAt(c, 1) = 0
      /\ \A i \in 2..Len(c.locals) : DepthAt(c, i) \in 1..c.current_scope_depth
  BY DEF Tidy, TidyTo
<1>4. ASSUME NEW i \in 1..Len(c.locals)
      PROVE  DepthAt(c, i) \in 0..c.current_scope_depth
  <2>1. i = 1 \/ i \in 2..Len(c.locals)
    BY <1>1
  <2>2. QED
    BY <1>1, <1>3, <2>1
<1>5. ASSUME c.current_scope_depth = 0
      PROVE  Len(c.locals) = 1
  <2>1. \A x : x \notin 1..c.current_scope_depth
    BY <1>5
  <2>2. 2 \notin 2..Len(c.locals)
    BY <1>3, <2>1
  <2>3. \A m \in Nat : m >= 1 /\ 2 \notin 2..m => m = 1
    OBVIOUS
  <2>4. QED
    BY <1>1, <1>3, <2>2, <2>3
<1>6. QED
  BY <1>2, <1>4, <1>5 DEF DepthAt

\* Between two declarations, every scope opened is one still to be closed.
LEMMA RestoredWhenHeld ==
  ASSUME Held, RulesInv, Doing("until"), Item.name = "declaration"
  PROVE  ScopesRestored
<1> DEFINE n == Len(rules)
<1>1. status = "parsing" /\ rules # <<>> /\ Item.op = "until"
  BY DEF Doing
<1>2. PICK states, items, now, after : Innermost(states, items, now, after)
  BY <1>1, HeldInnermost
<1>3. /\ rules \in Seq(Lists) /\ items = Last(rules) /\ Waits(states, rules, compilers)
      /\ now = states[n] /\ after = states[n - 1] /\ compilers \in Seq(CompilerRecord)
      /\ BelowSettled
  BY <1>2 DEF Innermost
<1>4. Lower(states, rules, compilers)
  BY <1>3 DEF Waits
<1>5. n \in Nat \ {0} /\ rules[n] = items /\ items # <<>>
  <2>1. n \in Nat \ {0} /\ Last(rules) = rules[n]
    BY <1>1, <1>3, FrontLast
  <2>2. items # <<>>
    BY <1>2, InnermostFacts
  <2>3. QED
    BY <1>3, <2>1, <2>2
<1>6. Head(items).op = "until" /\ Head(items).name = "declaration"
  BY <1>1, <1>3 DEF Item
<1>7. /\ now \in State /\ after \in State /\ Runs(items, now, after)
      /\ Len(compilers) = now.function /\ Len(compilers) \in Nat \ {0}
      /\ Cur = compilers[Len(compilers)] /\ Cur \in CompilerRecord /\ Meets(Cur, now)
  BY <1>2, InnermostFacts
<1>8. Outside(now) /\ Settled(items)
  BY <1>5, <1>6, <1>7, UntilOutside
<1> HIDE DEF n
<1>9. ASSUME NEW k \in 1..n
      PROVE  Adds(states, k)
  <2>1. /\ Runs(rules[k], states[k], states[k - 1])
    BY <1>4 DEF Lower, n
  <2>2. states[k] \in State /\ states[k - 1] \in State
    <3>1. k \in Nat /\ k - 1 \in Nat
      BY <1>5
    <3>2. states \in [Nat -> State]
      BY <1>4 DEF Lower
    <3>3. QED
      BY <3>1, <3>2
  <2>3. rules[k] \notin {Block0, For0}
    <3>1. Settled(rules[k])
      <4>1. k = n \/ k \in 1..(n - 1)
        BY <1>5
      <4>2. QED
        BY <1>3, <1>5, <1>8, <4>1 DEF BelowSettled, n
    <3>2. QED
      BY <3>1, Zenon DEF Settled
  <2>4. /\ EndsScope(k) <=> Has(rules[k], Closing)
        /\ EndsFunction(k) <=> Has(rules[k], Finishing)
    BY Zenon DEF EndsScope, EndsFunction, Has, Closing, Finishing
  <2>5. \/ /\ Neutral(rules[k]) /\ states[k].function = states[k - 1].function
           /\ states[k].depth = states[k - 1].depth
        \/ /\ Closes(rules[k]) /\ states[k].function = states[k - 1].function
           /\ states[k].depth = states[k - 1].depth + 1
        \/ /\ Has(rules[k], Finishing) /\ ~Has(rules[k], Closing)
           /\ states[k].function = states[k - 1].function + 1 /\ states[k].depth = 1
           /\ states[k - 1].locals = "tidy"
    BY <2>1, <2>2, <2>3, RunsEnd
  <2>6. QED
    BY <2>4, <2>5 DEF Adds, Neutral, Closes
<1>10. Stacked(states)
  BY <1>3, <1>4, <1>9 DEF Stacked, n
<1>11. n \in 0..n
  BY <1>5
<1>12. Len(compilers) = FunctionOfRule(n)
  BY <1>3, <1>7, <1>10, <1>11, FunctionsCounted DEF n
<1>13. \A f : ScopesOf(f) = UpTo(ScopeSet(f), n)
  <2>1. DOMAIN rules = 1..n /\ \A k \in 1..n : k \in Nat
    BY <1>5, <1>10, StackFacts DEF n
  <2>2. QED
    BY <2>1 DEF ScopesOf, UpTo, ScopeSet
<1>14. ASSUME NEW f \in DOMAIN compilers
       PROVE  LET c == compilers[f] IN
                /\ c.current_scope_depth = Cardinality(ScopesOf(f)) + (IF f = 1 THEN 0 ELSE 1)
                /\ \A i \in DOMAIN c.locals : c.locals[i].local_scope_depth \in 0..c.current_scope_depth
                /\ c.current_scope_depth = 0 => Len(c.locals) = 1
  <2>1. f \in 1..Len(compilers) /\ compilers[f] \in CompilerRecord
    <3> HIDE DEF CompilerRecord
    <3>1. QED
      BY <1>3
  <2>2. Tidy(compilers[f])
        /\ compilers[f].current_scope_depth
             = Cardinality(UpTo(ScopeSet(f), n)) + (IF f = 1 THEN 0 ELSE 1)
    <3>1. CASE f = Len(compilers)
      <4>1. Tidy(Cur) /\ Cur.current_scope_depth = now.depth
        BY <1>7, <1>8 DEF Meets, Outside
      <4>2. now.depth = Cardinality(UpTo(ScopeSet(now.function), n))
                          + (IF now.function = 1 THEN 0 ELSE 1)
        BY <1>3, <1>10, <1>11, DepthsCounted DEF n
      <4>3. QED
        BY <1>7, <3>1, <4>1, <4>2
    <3>2. CASE f # Len(compilers)
      <4>1. f \in Nat /\ 1 <= f /\ f < states[Len(rules)].function
        BY <1>3, <1>7, <2>1, <3>2 DEF n
      <4>2. QED
        BY <1>10, <4>1, CallersTidy DEF n
    <3>3. QED
      BY <3>1, <3>2
  <2>3. QED
    BY <1>13, <2>1, <2>2, TidyLocals
<1>15. ASSUME Len(compilers) = 1
       PROVE  ~Cur.within_class
  <2>1. now.function = 1
    BY <1>7, <1>15
  <2>2. QED
    BY <1>7, <1>8, <2>1 DEF Meets, Outside
<1>16. QED
  BY <1>12, <1>14, <1>15 DEF ScopesRestored, n

LEMMA ScopesWhenStructured == ScopeInv => ScopesRestored
<1> SUFFICES ASSUME ScopeInv, Doing("until"), Item.name = "declaration", current_token # EOF, ~erred
             PROVE  ScopesRestored
  BY DEF ScopesRestored
<1>1. Structure /\ RulesInv /\ TokensInv
  BY DEF ScopeInv, AbortInv
<1>2. status = "parsing" /\ rules # <<>> /\ Item.op = "until"
  BY DEF Doing
<1>3. ~Lost
  BY DEF Lost
<1>4. ~Doomed
  <2>1. Last(rules) \notin {Function4, Function5}
    <3>1. Head(Function4) = Initialised /\ Head(Function5) = FunctionOf("FUNCTION")
      BY FunctionSteps
    <3>2. Initialised.op = "compiler"
      BY ChangeItems, Zenon
    <3>3. FunctionOf("FUNCTION").op = "function"
      BY Fields
    <3>4. QED
      BY <1>2, <3>1, <3>2, <3>3 DEF Item
  <2>2. QED
    BY <1>2, <2>1 DEF Doomed
<1>5. Held
  BY <1>1, <1>3, <1>4 DEF Structure
<1>6. QED
  BY <1>1, <1>5, RestoredWhenHeld

\* Whatever the source, and whichever errors the rules have left half-way: when the next
\* declaration is read, the functions under compilation are those whose bodies are being
\* read, each as deep in scopes as there are blocks and loops around, and with every local
\* initialised; only the end of the source leaves a scope open.
THEOREM ScopesStayRestored == Spec => []ScopesRestored
<1>1. QED
  BY InitScopes, NextScopes, ScopesWhenStructured, PTL DEF Spec
================================================================================
