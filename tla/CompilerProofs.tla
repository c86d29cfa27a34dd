----------------------------- MODULE CompilerProofs -----------------------------
(***************************************************************************)
(* What the compiler keeps of scopes, captured variables, types and this,  *)
(* for every grammar: nesting, length and names without bound.             *)
(*                                                                         *)
(* The argument is about the stack of rules.  What a rule may rely on when *)
(* its turn comes (which function it compiles, how deep in scopes, whether *)
(* a variable is without its value) follows from the rules below it: each  *)
(* rule expects a situation and leads to the one the next rule expects.    *)
(***************************************************************************)
EXTENDS CompiledCode, InductionLemmas

(***************************************************************************)
(* The invariant.                                                          *)
(***************************************************************************)
LevelName == {Precedence[i] : i \in DOMAIN Precedence}
RuleType ==
  [rule : {"script", "declaration", "statement", "block", "function", "class", "then", "for",
           "grouping"}]
    \cup [rule : {"emit"}, bytes : Seq(0..255)]
    \cup [rule : {"patch", "else"}, offset : Int]
    \cup [rule : {"define"}, index : Int]
    \cup [rule : {"while", "endWhile", "forIncrement", "forExit", "endFor"},
          loop_start : Int, exit : Int]
    \cup [rule : {"forLoop"}, loop_start : Int, body_jump : Int]
    \cup [rule : {"argument"}, count : Nat]
    \cup [rule : {"parsePrecedence", "infix"}, level : LevelName]

FunctionType ==
  [arity : Nat, upvalue_count : Nat, byte_code : Seq(0..255),
   constant_pool : Seq(ConstantValue), heights : SUBSET (Nat \X Nat)]

\* The rules of expressions, and all rules that end as they began.
ExpressionRule == {"parsePrecedence", "infix", "emit", "patch", "grouping", "argument"}
NeutralRule == ExpressionRule \cup
  {"declaration", "statement", "then", "else", "while", "endWhile", "forLoop"}
ScopedRule == {"block", "for", "forIncrement", "forExit", "endFor"}

\* Where a rule is reached: in which compiler, how deep in its scopes, and whether
\* among statements, in the definition of a variable, or in a class body.
Situation == [compiler : Nat, depth : Nat, at : {"statement", "definition", "class"}]

Accepts(r, l) ==
  /\ l.at = "definition" => r.rule \in ExpressionRule \cup {"define"}
  /\ l.at = "class" => r.rule \in {"class", "emit"}
  /\ r.rule = "define" => l.at = "definition"
  /\ r.rule = "class" => l.at = "class"
  /\ r.rule \in ScopedRule \cup {"function"} => l.depth > 0
  /\ r.rule = "script" => l.compiler = 1 /\ l.depth = 0

\* A method is compiled: its receiver is the first local of a function around.
InMethod(cs, k) == \E j \in 1..k : cs[j].locals[1].identifier_name = "this"

\* The compilers are as a rule expects them.
Settled(c) == Last(c.locals).local_scope_depth # Uninitialised
Fits(cs, l) == LET c == cs[l.compiler] IN
  /\ c.current_scope_depth = l.depth
  /\ IF l.at = "definition" /\ l.depth > 0 THEN Len(c.locals) > 1 ELSE Settled(c)
  /\ c.within_class => l.at = "class" \/ InMethod(cs, l.compiler)

\* Behind r, begun in l, the next rule is reached in m.
Leads(cs, r, l, m) ==
  CASE r.rule = "function"    -> m.compiler = l.compiler - 1 /\ Fits(cs, m)
    [] r.rule \in ScopedRule  -> m = [l EXCEPT !.depth = @ - 1]
    [] r.rule \in {"define", "class"} -> m = [l EXCEPT !.at = "statement"]
    [] r.rule \in NeutralRule -> m = l
    [] OTHER                  -> FALSE

\* The situations of all rules on the stack: of the first, l.
Situations(rs, cs, L) ==
  /\ L \in Seq(Situation) /\ Len(L) = Len(rs)
  /\ \A i \in 1..Len(L) : L[i].compiler \in 1..Len(cs) /\ Accepts(rs[i], L[i])
  /\ \A i, j \in 1..Len(L) : i <= j => L[j].compiler <= L[i].compiler
  /\ \A i \in 1..(Len(L) - 1) : Leads(cs, rs[i], L[i], L[i + 1])
  /\ Last(rs).rule = "script"
Expects(rs, cs, l) == \E L \in Seq(Situation) : L # <<>> /\ Situations(rs, cs, L) /\ L[1] = l

Nested(rs, cs) == \E l \in Situation :
  Expects(rs, cs, l) /\ l.compiler = Len(cs) /\ Fits(cs, l)
RulesNest == rules # <<>> => Nested(rules, compilers)

\* Only the function under compilation has a variable without its value.
EnclosingSettled == \A k \in 1..(Len(compilers) - 1) : Settled(compilers[k])

CompilerInv ==
  /\ TypeOK /\ rules \in Seq(RuleType) /\ functions \in Seq(FunctionType)
  /\ LocalsScoped /\ UpvaluesResolve
  /\ RulesNest /\ EnclosingSettled

-------------------------------------------------------------------------------
(***************************************************************************)
(* The stack of rules: what it expects when a rule ends or one is entered, *)
(* and when the compilers change below it.                                 *)
(***************************************************************************)
LEMMA EndRule ==
  ASSUME NEW rs \in Seq(RuleType), NEW cs, NEW l, Expects(rs, cs, l), Head(rs).rule # "script"
  PROVE  \E m \in Situation :
           /\ Expects(Tail(rs), cs, m) /\ Leads(cs, Head(rs), l, m)
           /\ m.compiler \in 1..l.compiler
<1>1. PICK L \in Seq(Situation) : L # <<>> /\ Situations(rs, cs, L) /\ L[1] = l
  BY DEF Expects
<1>2. Len(L) = Len(rs) /\ Len(L) \in Nat \ {0} /\ Last(rs).rule = "script"
  BY <1>1 DEF Situations
<1>3. Len(L) > 1
  BY <1>2 DEF Last
<1>4. /\ Tail(L) \in Seq(Situation) /\ Len(Tail(L)) = Len(L) - 1
      /\ \A i \in 1..(Len(L) - 1) : Tail(L)[i] = L[i + 1]
  BY <1>3
<1>5. /\ Tail(rs) \in Seq(RuleType) /\ Len(Tail(rs)) = Len(rs) - 1
      /\ \A i \in 1..(Len(rs) - 1) : Tail(rs)[i] = rs[i + 1]
  BY <1>2, <1>3
<1>6. Situations(Tail(rs), cs, Tail(L))
  <2>1. Last(Tail(rs)) = Last(rs)
    BY <1>2, <1>3, <1>5 DEF Last
  <2>2. \A i \in 1..(Len(L) - 1) : i + 1 \in 1..Len(L)
    BY <1>2
  <2>3. \A i \in 1..(Len(L) - 2) : i + 1 \in 1..(Len(L) - 1)
    BY <1>2
  <2>4. \A i \in 1..Len(Tail(L)) : Tail(L)[i].compiler \in 1..Len(cs) /\ Accepts(Tail(rs)[i], Tail(L)[i])
    BY <1>1, <1>2, <1>4, <1>5, <2>2 DEF Situations
  <2>5. \A i, j \in 1..Len(Tail(L)) : i <= j => Tail(L)[j].compiler <= Tail(L)[i].compiler
    BY <1>1, <1>2, <1>4, <2>2 DEF Situations
  <2>6. \A i \in 1..(Len(Tail(L)) - 1) : Leads(cs, Tail(rs)[i], Tail(L)[i], Tail(L)[i + 1])
    BY <1>1, <1>2, <1>4, <1>5, <2>2, <2>3 DEF Situations
  <2>7. QED
    BY <1>1, <1>2, <1>4, <1>5, <2>1, <2>4, <2>5, <2>6 DEF Situations
<1>7. Tail(L)[1] = L[2] /\ Tail(L) # <<>> /\ L[1] \in Situation /\ L[2] \in Situation
  <2>1. \A i \in 1..Len(L) : L[i] \in Situation
    OBVIOUS
  <2>2. 1 \in 1..Len(L) /\ 2 \in 1..Len(L)
    BY <1>3
  <2>3. Tail(L) # <<>>
    <3>1. \A t \in Seq(Situation) : Len(t) # 0 => t # <<>>
      OBVIOUS
    <3>2. Len(Tail(L)) # 0
      <4>1. \A n \in Nat : n > 1 => n - 1 # 0
        OBVIOUS
      <4>2. QED
        BY <1>2, <1>3, <1>4, <4>1, Zenon
    <3>3. QED
      BY <1>4, <3>1, <3>2
  <2>4. QED
    BY <1>3, <1>4, <2>1, <2>2, <2>3
<1>8. Leads(cs, Head(rs), l, L[2])
  BY <1>1, <1>2, <1>3 DEF Situations
<1>9. L[2].compiler \in 1..l.compiler
  <2>1. 1 \in 1..Len(L) /\ 2 \in 1..Len(L)
    BY <1>3
  <2>2. L[2].compiler <= L[1].compiler /\ L[2].compiler \in 1..Len(cs)
    BY <1>1, <2>1 DEF Situations
  <2>3. L[1].compiler \in Nat
    BY <1>7, <2>1 DEF Situation
  <2>4. QED
    BY <1>1, <2>2, <2>3
<1>10. QED
  BY <1>4, <1>6, <1>7, <1>8, <1>9 DEF Expects

LEMMA EnterRule ==
  ASSUME NEW rs \in Seq(RuleType), NEW cs, NEW l \in Situation, NEW m, NEW r \in RuleType,
         Len(cs) \in Nat, Expects(rs, cs, m), Accepts(r, l), Leads(cs, r, l, m),
         l.compiler \in 1..Len(cs), m.compiler <= l.compiler
  PROVE  Expects(<<r>> \o rs, cs, l)
<1>1. PICK L \in Seq(Situation) : L # <<>> /\ Situations(rs, cs, L) /\ L[1] = m
  BY DEF Expects
<1>2. Len(L) = Len(rs) /\ Len(L) \in Nat \ {0}
  BY <1>1 DEF Situations
<1> DEFINE K == <<l>> \o L
           qs == <<r>> \o rs
<1>3. /\ K \in Seq(Situation) /\ Len(K) = Len(L) + 1 /\ K[1] = l /\ K # <<>>
      /\ \A i \in 1..Len(L) : K[i + 1] = L[i]
  BY <1>2
<1>4. /\ qs \in Seq(RuleType) /\ Len(qs) = Len(L) + 1 /\ qs[1] = r
      /\ \A i \in 1..Len(L) : qs[i + 1] = rs[i]
  BY <1>2
<1> HIDE DEF K, qs
<1>5. Last(qs) = Last(rs)
  BY <1>2, <1>4 DEF Last
<1>6. \A i \in 2..Len(K) : i - 1 \in 1..Len(L) /\ K[i] = L[i - 1] /\ qs[i] = rs[i - 1]
  <2>1. \A i \in 2..Len(K) : i - 1 \in 1..Len(L) /\ (i - 1) + 1 = i
    BY <1>2, <1>3
  <2>2. QED
    BY <1>3, <1>4, <2>1
<1>7. \A i \in 1..Len(L) : L[i].compiler \in 1..Len(cs) /\ Accepts(rs[i], L[i])
  BY <1>1 DEF Situations
<1>8. \A i \in 1..Len(L) : L[i].compiler <= m.compiler
  <2>1. 1 \in 1..Len(L)
    BY <1>2
  <2>2. QED
    BY <1>1, <2>1 DEF Situations
<1>9. \A i \in 1..Len(K) : K[i].compiler \in 1..Len(cs) /\ Accepts(qs[i], K[i])
  <2>1. \A i \in 1..Len(K) : i = 1 \/ i \in 2..Len(K)
    BY <1>2, <1>3
  <2>2. QED
    BY <1>3, <1>4, <1>6, <1>7, <2>1
<1>10. ASSUME NEW i \in 1..Len(K), NEW j \in 1..Len(K), i <= j
       PROVE  K[j].compiler <= K[i].compiler
  <2>1. CASE i = 1 /\ j = 1
    BY <1>3, <2>1
  <2>2. CASE i = 1 /\ j # 1
    <3>1. j \in 2..Len(K)
      BY <2>2
    <3>2. K[j].compiler <= m.compiler /\ K[j].compiler \in Int
      BY <1>6, <1>7, <1>8, <3>1
    <3>3. m.compiler \in Int
      <4>1. 1 \in 1..Len(L)
        BY <1>2
      <4>2. QED
        BY <1>1, <1>7, <4>1
    <3>4. QED
      BY <1>3, <2>2, <3>2, <3>3
  <2>3. CASE i # 1
    <3>1. i \in 2..Len(K) /\ j \in 2..Len(K) /\ i - 1 <= j - 1
      BY <1>2, <1>3, <1>10, <2>3
    <3>2. L[j - 1].compiler <= L[i - 1].compiler
      BY <1>1, <1>6, <3>1 DEF Situations
    <3>3. QED
      BY <1>6, <3>1, <3>2
  <2>4. QED
    BY <2>1, <2>2, <2>3
<1>11. ASSUME NEW i \in 1..(Len(K) - 1)
       PROVE  Leads(cs, qs[i], K[i], K[i + 1])
  <2>1. CASE i = 1
    <3>1. 2 \in 2..Len(K)
      BY <1>2, <1>3
    <3>2. QED
      BY <1>1, <1>3, <1>4, <1>6, <2>1, <3>1
  <2>2. CASE i # 1
    <3>1. i \in 2..Len(K) /\ i + 1 \in 2..Len(K) /\ i - 1 \in 1..(Len(L) - 1)
      BY <1>2, <1>3, <2>2
    <3>2. Leads(cs, rs[i - 1], L[i - 1], L[(i - 1) + 1])
      BY <1>1, <3>1 DEF Situations
    <3>3. (i - 1) + 1 = (i + 1) - 1
      BY <3>1
    <3>4. QED
      BY <1>6, <3>1, <3>2, <3>3
  <2>3. QED
    BY <2>1, <2>2
<1>12. Situations(qs, cs, K)
  BY <1>1, <1>3, <1>4, <1>5, <1>9, <1>10, <1>11 DEF Situations
<1>13. QED
  BY <1>3, <1>12 DEF Expects, qs

LEMMA EnterNeutral ==
  ASSUME NEW rs \in Seq(RuleType), NEW cs, NEW l \in Situation, NEW next \in Seq(RuleType),
         Len(cs) \in Nat, Expects(rs, cs, l), l.compiler \in 1..Len(cs),
         \A i \in 1..Len(next) : next[i].rule \in NeutralRule /\ Accepts(next[i], l)
  PROVE  Expects(next \o rs, cs, l)
<1> DEFINE Neutral(s) == \A i \in 1..Len(s) : s[i].rule \in NeutralRule /\ Accepts(s[i], l)
           Entered == {n \in Nat : \A s \in Seq(RuleType) :
                         Len(s) = n /\ Neutral(s) => Expects(s \o rs, cs, l)}
<1>1. 0 \in Entered
  <2>1. \A s \in Seq(RuleType) : Len(s) = 0 => s \o rs = rs
    OBVIOUS
  <2>2. QED
    BY <2>1
<1>2. ASSUME NEW n \in Nat, n \in Entered
      PROVE  n + 1 \in Entered
  <2> SUFFICES ASSUME NEW s \in Seq(RuleType), Len(s) = n + 1, Neutral(s)
               PROVE  Expects(s \o rs, cs, l)
    OBVIOUS
  <2>1. /\ Tail(s) \in Seq(RuleType) /\ Len(Tail(s)) = n
        /\ \A i \in 1..n : Tail(s)[i] = s[i + 1]
    OBVIOUS
  <2>2. Neutral(Tail(s))
    <3>1. \A i \in 1..n : i + 1 \in 1..Len(s)
      OBVIOUS
    <3>2. QED
      BY <2>1, <3>1
  <2>3. Expects(Tail(s) \o rs, cs, l)
    BY <1>2, <2>1, <2>2
  <2>4. s[1] \in RuleType /\ s[1].rule \in NeutralRule /\ Accepts(s[1], l)
    OBVIOUS
  <2>5. Leads(cs, s[1], l, l)
    BY <2>4 DEF Leads, NeutralRule, ExpressionRule, ScopedRule
  <2>6. Tail(s) \o rs \in Seq(RuleType)
    BY <2>1
  <2>7. s \o rs = <<s[1]>> \o (Tail(s) \o rs)
    <3>1. s = <<s[1]>> \o Tail(s)
      OBVIOUS
    <3>2. <<s[1]>> \in Seq(RuleType)
      BY <2>4
    <3>3. QED
      BY <2>1, <3>1, <3>2, ConcatAssociative, SMTT(60)
  <2> HIDE DEF Neutral, Entered
  <2>8. l.compiler <= l.compiler
    OBVIOUS
  <2>9. QED
    BY <2>3, <2>4, <2>5, <2>6, <2>7, <2>8, EnterRule
<1>3. Len(next) \in Entered
  <2> HIDE DEF Entered
  <2>1. Nat \subseteq Entered
    BY <1>1, <1>2, Induction
  <2>2. QED
    BY <2>1
<1>4. QED
  BY <1>3

\* The compilers may change, if those that functions end in still fit.
LEMMA Recompile ==
  ASSUME NEW rs \in Seq(RuleType), NEW cs, NEW ds, NEW l \in Situation, Len(ds) \in Nat,
         Expects(rs, cs, l), l.compiler <= Len(ds),
         \A m \in Situation :
           m.compiler \in 1..(l.compiler - 1) /\ Fits(cs, m) => Fits(ds, m)
  PROVE  Expects(rs, ds, l)
<1>1. PICK L \in Seq(Situation) : L # <<>> /\ Situations(rs, cs, L) /\ L[1] = l
  BY DEF Expects
<1>2. \A i \in 1..Len(L) : L[i] \in Situation /\ L[i].compiler \in Nat
  <2>1. \A m \in Situation : m.compiler \in Nat
    BY DEF Situation
  <2>2. \A i \in 1..Len(L) : L[i] \in Situation
    OBVIOUS
  <2>3. QED
    BY <2>1, <2>2
<1>3. \A i \in 1..Len(L) : L[i].compiler <= l.compiler /\ L[i].compiler \in 1..Len(cs)
  <2>1. 1 \in 1..Len(L)
    BY <1>1
  <2>2. \A i \in 1..Len(L) : 1 <= i
    OBVIOUS
  <2>3. QED
    BY <1>1, <2>1, <2>2 DEF Situations
<1>4. l.compiler \in Nat
  BY DEF Situation
<1>5. \A i \in 1..Len(L) : L[i].compiler \in 1..Len(ds)
  BY <1>2, <1>3, <1>4
<1>6. ASSUME NEW i \in 1..(Len(L) - 1)
      PROVE  Leads(ds, rs[i], L[i], L[i + 1])
  <2>1. i \in 1..Len(L) /\ i + 1 \in 1..Len(L)
    OBVIOUS
  <2>2. Leads(cs, rs[i], L[i], L[i + 1])
    BY <1>1 DEF Situations
  <2>3. CASE rs[i].rule = "function"
    <3>1. L[i + 1].compiler = L[i].compiler - 1 /\ Fits(cs, L[i + 1])
      BY <2>2, <2>3 DEF Leads, ScopedRule, NeutralRule, ExpressionRule
    <3>2. L[i + 1].compiler \in 1..(l.compiler - 1)
      BY <1>2, <1>3, <1>4, <2>1, <3>1, SMTT(60)
    <3>3. Fits(ds, L[i + 1])
      BY <1>2, <2>1, <3>1, <3>2
    <3>4. QED
      BY <2>3, <3>1, <3>3 DEF Leads, ScopedRule, NeutralRule, ExpressionRule
  <2>4. CASE rs[i].rule # "function"
    BY <2>2, <2>4 DEF Leads
  <2>5. QED
    BY <2>3, <2>4
<1>7. Situations(rs, ds, L)
  BY <1>1, <1>5, <1>6 DEF Situations
<1>8. QED
  BY <1>1, <1>7 DEF Expects

-------------------------------------------------------------------------------
(***************************************************************************)
(* The helpers that emit code and add constants leave scopes, locals and   *)
(* upvalues alone and give a well-typed compiler.                          *)
(***************************************************************************)
Keeps(c, d) ==
  /\ d \in CompilerType
  /\ d.locals = c.locals /\ d.current_scope_depth = c.current_scope_depth
  /\ d.upvalues = c.upvalues /\ d.within_class = c.within_class

LEMMA KeepsTransitive ==
  ASSUME NEW c, NEW d, NEW e, Keeps(c, d), Keeps(d, e)
  PROVE  Keeps(c, e)
BY DEF Keeps

LEMMA KeepsSame ==
  ASSUME NEW c \in CompilerType
  PROVE  Keeps(c, c)
BY DEF Keeps

LEMMA ByteOfOpCode == Byte \in [OpCodeName -> 0..255]
<1>1. DOMAIN OpCode = 1..36
  BY DEF OpCode
<1>2. \A op \in OpCodeName : \E i \in DOMAIN OpCode : OpCode[i] = op
  BY DEF OpCodeName
<1>3. \A op \in OpCodeName : (CHOOSE i \in DOMAIN OpCode : OpCode[i] = op) \in 1..36
  BY <1>1, <1>2
<1>4. QED
  BY <1>1, <1>3 DEF Byte

LEMMA OpCodeNames ==
  OpCodeName = {"OP_RETURN", "OP_CONSTANT", "OP_NEGATE", "OP_ADD", "OP_SUBTRACT",
    "OP_MULTIPLY", "OP_DIVIDE", "OP_NIL", "OP_TRUE", "OP_FALSE", "OP_NOT", "OP_EQUAL",
    "OP_GREATER", "OP_LESS", "OP_LESS_EQUAL", "OP_GREATER_EQUAL", "OP_NOT_EQUAL",
    "OP_PRINT", "OP_POP", "OP_DEFINE_GLOBAL", "OP_GET_GLOBAL", "OP_SET_GLOBAL",
    "OP_GET_LOCAL", "OP_SET_LOCAL", "OP_GET_UPVALUE", "OP_SET_UPVALUE",
    "OP_JUMP_IF_FALSE", "OP_JUMP", "OP_LOOP", "OP_CALL", "OP_CLOSURE",
    "OP_CLOSE_UPVALUE", "OP_CLASS", "OP_GET_PROPERTY", "OP_SET_PROPERTY", "OP_METHOD"}
BY DEF OpCodeName, OpCode

LEMMA IndexBytesType ==
  ASSUME NEW index \in Int
  PROVE  /\ IndexBytes(index) \in Seq(0..255) /\ Len(IndexBytes(index)) = 2
         /\ IndexBytes(index)[1] \in 0..255 /\ IndexBytes(index)[2] \in 0..255
<1>1. index % 256 \in 0..255 /\ (index \div 256) % 256 \in 0..255
  OBVIOUS
<1>2. QED
  BY <1>1 DEF IndexBytes

LEMMA OpType ==
  ASSUME NEW op \in OpCodeName
  PROVE  /\ Op(op) \in Seq(0..255)
         /\ \A index \in Int : OpIndex(op, index) \in Seq(0..255)
<1>1. Op(op) \in Seq(0..255)
  <2>1. Byte[op] \in 0..255
    BY ByteOfOpCode
  <2>2. QED
    BY <2>1 DEF Op
<1>2. ASSUME NEW index \in Int
      PROVE  OpIndex(op, index) \in Seq(0..255)
  <2>1. OpIndex(op, index) = Op(op) \o IndexBytes(index)
    BY DEF OpIndex, Op
  <2>2. IndexBytes(index) \in Seq(0..255)
    BY IndexBytesType
  <2>3. \A s, t \in Seq(0..255) : s \o t \in Seq(0..255)
    OBVIOUS
  <2>4. QED
    BY <1>1, <2>1, <2>2, <2>3
<1>3. QED
  BY <1>1, <1>2

LEMMA WithCode ==
  ASSUME NEW c \in CompilerType, NEW code \in Seq(0..255)
  PROVE  LET d == [c EXCEPT !.byte_code = code] IN Keeps(c, d) /\ d.byte_code = code
<1>1. [c EXCEPT !.byte_code = code] \in CompilerType
  BY ZenonT(60) DEF CompilerType
<1>2. \A new : LET d == [c EXCEPT !.byte_code = new] IN
        /\ d.byte_code = new
        /\ d.locals = c.locals /\ d.current_scope_depth = c.current_scope_depth
        /\ d.upvalues = c.upvalues /\ d.within_class = c.within_class
  BY DEF CompilerType
<1>3. QED
  BY <1>1, <1>2 DEF Keeps

LEMMA WithPool ==
  ASSUME NEW c \in CompilerType, NEW pool \in Seq(ConstantValue)
  PROVE  LET d == [c EXCEPT !.constant_pool = pool] IN Keeps(c, d) /\ d.constant_pool = pool
<1>1. [c EXCEPT !.constant_pool = pool] \in CompilerType
  BY ZenonT(60) DEF CompilerType
<1>2. \A new : LET d == [c EXCEPT !.constant_pool = new] IN
        /\ d.constant_pool = new
        /\ d.locals = c.locals /\ d.current_scope_depth = c.current_scope_depth
        /\ d.upvalues = c.upvalues /\ d.within_class = c.within_class
  BY DEF CompilerType
<1>3. QED
  BY <1>1, <1>2 DEF Keeps

LEMMA EmitKeeps ==
  ASSUME NEW c \in CompilerType, NEW bytes \in Seq(0..255)
  PROVE  /\ Keeps(c, Emit(c, bytes))
         /\ Emit(c, bytes).byte_code = c.byte_code \o bytes
         /\ Len(Emit(c, bytes).byte_code) = Len(c.byte_code) + Len(bytes)
<1>1. c.byte_code \in Seq(0..255)
  BY DEF CompilerType
<1>2. /\ c.byte_code \o bytes \in Seq(0..255)
      /\ Len(c.byte_code \o bytes) = Len(c.byte_code) + Len(bytes)
  BY <1>1
<1>3. Emit(c, bytes) = [c EXCEPT !.byte_code = c.byte_code \o bytes]
  BY DEF Emit
<1>4. \A code \in Seq(0..255) :
        LET d == [c EXCEPT !.byte_code = code] IN Keeps(c, d) /\ d.byte_code = code
  BY WithCode
<1>5. QED
  BY <1>2, <1>3, <1>4

LEMMA PoolKeeps ==
  ASSUME NEW c \in CompilerType, NEW constant \in ConstantValue
  PROVE  Keeps(c, Pool(c, constant)) /\ LastConstant(Pool(c, constant)) \in Nat
<1>1. c.constant_pool \in Seq(ConstantValue)
  BY DEF CompilerType
<1>2. /\ Append(c.constant_pool, constant) \in Seq(ConstantValue)
      /\ Len(Append(c.constant_pool, constant)) - 1 \in Nat
  BY <1>1
<1>3. Pool(c, constant) = [c EXCEPT !.constant_pool = Append(c.constant_pool, constant)]
  BY DEF Pool
<1>4. \A pool \in Seq(ConstantValue) :
        LET d == [c EXCEPT !.constant_pool = pool] IN Keeps(c, d) /\ d.constant_pool = pool
  BY WithPool
<1>5. QED
  BY <1>2, <1>3, <1>4 DEF LastConstant

LEMMA ConstantTypes ==
  /\ \A n \in Numbers : Number(n) \in ConstantValue
  /\ \A name \in Names \cup Members : Name(name) \in ConstantValue
  /\ \A id \in Nat : Function(id) \in ConstantValue
BY DEF ConstantValue, Number, Name, Function

LEMMA ExceptAnywhere ==
  ASSUME NEW S, NEW s \in Seq(S), NEW i, NEW e \in S
  PROVE  [s EXCEPT ![i] = e] \in Seq(S)
<1>1. s \in [1..Len(s) -> S]
  OBVIOUS
<1>2. [s EXCEPT ![i] = e] \in [1..Len(s) -> S]
  BY <1>1, ZenonT(60)
<1>3. QED
  BY <1>2

LEMMA PatchJumpKeeps ==
  ASSUME NEW c \in CompilerType, NEW offset \in Int
  PROVE  Keeps(c, PatchJump(c, offset))
<1> DEFINE jump == IndexBytes(Len(c.byte_code) - offset - 2)
           half == [c.byte_code EXCEPT ![offset + 1] = jump[1]]
           code == [half EXCEPT ![offset + 2] = jump[2]]
<1>1. c.byte_code \in Seq(0..255)
  BY DEF CompilerType
<1>2. jump[1] \in 0..255 /\ jump[2] \in 0..255
  BY <1>1, IndexBytesType, SMTT(60)
<1>3. PatchJump(c, offset) = [c EXCEPT !.byte_code = code]
  BY DEF PatchJump, CompilerType
<1> HIDE DEF jump
<1>4. half \in Seq(0..255)
  BY <1>1, <1>2, ExceptAnywhere, ZenonT(60)
<1> HIDE DEF half
<1>5. code \in Seq(0..255)
  BY <1>2, <1>4, ExceptAnywhere, ZenonT(60)
<1> HIDE DEF code
<1>6. QED
  BY <1>3, <1>5, WithCode

LEMMA EmitJumpKeeps ==
  ASSUME NEW c \in CompilerType, NEW op \in {"OP_JUMP", "OP_JUMP_IF_FALSE"}
  PROVE  Keeps(c, EmitJump(c, op)) /\ JumpOffset(EmitJump(c, op)) \in Int
<1>1. OpIndex(op, 65535) \in Seq(0..255)
  <2>1. op \in OpCodeName
    BY OpCodeNames
  <2>2. QED
    BY <2>1, OpType
<1>2. Keeps(c, EmitJump(c, op))
  BY <1>1, EmitKeeps DEF EmitJump
<1>3. QED
  BY <1>2 DEF JumpOffset, Keeps, CompilerType

LEMMA EmitLoopKeeps ==
  ASSUME NEW c \in CompilerType, NEW loop_start \in Int
  PROVE  Keeps(c, EmitLoop(c, loop_start))
<1> DEFINE looped == Emit(c, Op("OP_LOOP"))
<1>1. Op("OP_LOOP") \in Seq(0..255)
  BY OpType, OpCodeNames
<1>2. Keeps(c, looped)
  BY <1>1, EmitKeeps
<1>3. looped \in CompilerType /\ Len(looped.byte_code) \in Int
  BY <1>2 DEF Keeps, CompilerType
<1> HIDE DEF looped
<1>4. IndexBytes(Len(looped.byte_code) - loop_start + 2) \in Seq(0..255)
  BY <1>3, IndexBytesType
<1>5. Keeps(looped, Emit(looped, IndexBytes(Len(looped.byte_code) - loop_start + 2)))
  BY <1>3, <1>4, EmitKeeps
<1>6. QED
  BY <1>2, <1>5, KeepsTransitive DEF EmitLoop, looped

-------------------------------------------------------------------------------
(***************************************************************************)
(* Scopes: what beginScope, endScope and the declarations do to the locals *)
(* of the function under compilation.                                      *)
(***************************************************************************)

\* LocalsScoped, of one compiler.
Scoped(c) ==
  /\ c.locals # <<>> /\ c.locals[1].local_scope_depth = 0
  /\ \A i \in DOMAIN c.locals :
       /\ c.locals[i].local_scope_depth = Uninitialised => i = Len(c.locals)
       /\ c.locals[i].local_scope_depth <= c.current_scope_depth
       /\ \A j \in 1..(i - 1) :
            \/ c.locals[i].local_scope_depth = Uninitialised
            \/ c.locals[j].local_scope_depth <= c.locals[i].local_scope_depth

LEMMA ScopedEverywhere == LocalsScoped <=> \A k \in DOMAIN compilers : Scoped(compilers[k])
BY DEF LocalsScoped, Scoped

\* The same function, its locals aside.
Continues(c, d) ==
  /\ d \in CompilerType /\ Scoped(d)
  /\ d.upvalues = c.upvalues /\ d.within_class = c.within_class
  /\ d.locals[1].identifier_name = c.locals[1].identifier_name

LEMMA KeepsContinues ==
  ASSUME NEW c, NEW d, Scoped(c), Keeps(c, d)
  PROVE  Continues(c, d)
BY DEF Keeps, Continues, Scoped

LEMMA ContinuesTransitive ==
  ASSUME NEW c, NEW d, NEW e, Continues(c, d), Continues(d, e)
  PROVE  Continues(c, e)
BY DEF Continues

LEMMA LocalsOf ==
  ASSUME NEW c \in CompilerType, Scoped(c)
  PROVE  /\ c.locals \in Seq(LocalType) /\ Len(c.locals) \in Nat \ {0}
         /\ DOMAIN c.locals = 1..Len(c.locals)
         /\ c.current_scope_depth \in Nat
         /\ \A i \in 1..Len(c.locals) :
              c.locals[i] \in LocalType /\ c.locals[i].local_scope_depth \in Nat \cup {Uninitialised}
<1>1. c.locals \in Seq(LocalType) /\ c.current_scope_depth \in Nat
  BY DEF CompilerType
<1>2. Len(c.locals) \in Nat \ {0}
  BY <1>1 DEF Scoped
<1>3. \A i \in 1..Len(c.locals) : c.locals[i] \in LocalType
  BY <1>1
<1>4. \A local \in LocalType : local.local_scope_depth \in Nat \cup {Uninitialised}
  BY DEF LocalType
<1>5. QED
  BY <1>1, <1>2, <1>3, <1>4

\* Locals and depth replaced.
Relocated(c, depth, locals) == [c EXCEPT !.current_scope_depth = depth, !.locals = locals]

LEMMA WithLocals ==
  ASSUME NEW c \in CompilerType, NEW locals \in Seq(LocalType), NEW depth \in Nat
  PROVE  LET d == Relocated(c, depth, locals) IN
         /\ d \in CompilerType
         /\ d.locals = locals /\ d.current_scope_depth = depth
         /\ d.upvalues = c.upvalues /\ d.within_class = c.within_class
<1>1. Relocated(c, depth, locals) \in CompilerType
  BY ZenonT(60) DEF CompilerType, Relocated
<1>2. \A n, new : LET d == Relocated(c, n, new) IN
        /\ d.locals = new /\ d.current_scope_depth = n
        /\ d.upvalues = c.upvalues /\ d.within_class = c.within_class
  BY DEF CompilerType, Relocated
<1>3. QED
  BY <1>1, <1>2

LEMMA JustLocals ==
  ASSUME NEW c \in CompilerType
  PROVE  /\ \A locals : [c EXCEPT !.locals = locals] = Relocated(c, c.current_scope_depth, locals)
         /\ \A depth : [c EXCEPT !.current_scope_depth = depth] = Relocated(c, depth, c.locals)
BY DEF CompilerType, Relocated

LEMMA BeginScopeScoped ==
  ASSUME NEW c \in CompilerType, Scoped(c)
  PROVE  LET d == BeginScope(c) IN
         /\ Continues(c, d)
         /\ d.current_scope_depth = c.current_scope_depth + 1 /\ d.locals = c.locals
<1>1. LET d == BeginScope(c) IN
      /\ d \in CompilerType /\ d.locals = c.locals
      /\ d.current_scope_depth = c.current_scope_depth + 1
      /\ d.upvalues = c.upvalues /\ d.within_class = c.within_class
  <2>1. BeginScope(c) = Relocated(c, c.current_scope_depth + 1, c.locals)
    BY JustLocals DEF BeginScope
  <2>2. c.locals \in Seq(LocalType) /\ c.current_scope_depth + 1 \in Nat
    BY LocalsOf
  <2>3. QED
    BY <2>1, <2>2, WithLocals
<1>2. Scoped(BeginScope(c))
  <2> DEFINE d == BeginScope(c)
  <2>1. d.locals = c.locals /\ d.current_scope_depth = c.current_scope_depth + 1
    BY <1>1
  <2> HIDE DEF d
  <2>2. \A i \in 1..Len(c.locals) : c.locals[i].local_scope_depth <= c.current_scope_depth + 1
    BY LocalsOf DEF Scoped, Uninitialised
  <2>3. Scoped(d)
    BY <2>1, <2>2, LocalsOf DEF Scoped
  <2>4. QED
    BY <2>3 DEF d
<1>3. QED
  BY <1>1, <1>2 DEF Continues

\* A compiler without a variable in the making has none among its locals.
LEMMA SettledThroughout ==
  ASSUME NEW c \in CompilerType, Scoped(c), Settled(c)
  PROVE  \A i \in 1..Len(c.locals) : c.locals[i].local_scope_depth \in Nat
BY LocalsOf DEF Scoped, Settled, Last

LEMMA DeclareScoped ==
  ASSUME NEW c \in CompilerType, Scoped(c), Settled(c), NEW name \in Names
  PROVE  LET d == DeclareVariable(c, name) IN
         /\ Continues(c, d)
         /\ d.current_scope_depth = c.current_scope_depth
         /\ IF c.current_scope_depth > 0 THEN Len(d.locals) > 1 ELSE d.locals = c.locals
<1>1. CASE c.current_scope_depth = 0
  BY <1>1 DEF DeclareVariable, Continues
<1>2. CASE c.current_scope_depth # 0
  <2> DEFINE new    == Local(name, Uninitialised)
             locals == Append(c.locals, new)
             d      == DeclareVariable(c, name)
  <2>1. new \in LocalType
    BY DEF LocalType, Local
  <2>2. /\ locals \in Seq(LocalType) /\ Len(locals) = Len(c.locals) + 1
        /\ \A i \in 1..Len(c.locals) : locals[i] = c.locals[i]
        /\ locals[Len(c.locals) + 1] = new
    BY <2>1, LocalsOf
  <2>3. d = Relocated(c, c.current_scope_depth, locals)
    BY <1>2, JustLocals DEF DeclareVariable
  <2>4. /\ d \in CompilerType /\ d.locals = locals
        /\ d.current_scope_depth = c.current_scope_depth
        /\ d.upvalues = c.upvalues /\ d.within_class = c.within_class
    <3>1. c.current_scope_depth \in Nat
      BY LocalsOf
    <3> HIDE DEF locals, d
    <3>2. QED
      BY <2>2, <2>3, <3>1, WithLocals, ZenonT(60)
  <2>5. new.local_scope_depth = Uninitialised
    BY DEF Local
  <2> HIDE DEF locals, d, new
  <2>6. \A i \in 1..Len(locals) : i \in 1..Len(c.locals) \/ i = Len(locals)
    BY <2>2, LocalsOf
  <2>7. Scoped(d)
    <3>1. locals # <<>> /\ locals[1].local_scope_depth = 0
      BY <2>2, LocalsOf DEF Scoped
    <3>2. DOMAIN locals = 1..Len(locals)
      BY <2>2
    <3>3. ASSUME NEW i \in 1..Len(locals)
          PROVE  /\ locals[i].local_scope_depth = Uninitialised => i = Len(locals)
                 /\ locals[i].local_scope_depth <= c.current_scope_depth
                 /\ \A j \in 1..(i - 1) :
                      \/ locals[i].local_scope_depth = Uninitialised
                      \/ locals[j].local_scope_depth <= locals[i].local_scope_depth
      <4>1. CASE i = Len(locals)
        BY <2>2, <2>5, <4>1, LocalsOf DEF Uninitialised
      <4>2. CASE i \in 1..Len(c.locals)
        <5>1. locals[i] = c.locals[i] /\ c.locals[i].local_scope_depth # Uninitialised
          BY <2>2, <4>2, SettledThroughout DEF Uninitialised
        <5>2. \A j \in 1..(i - 1) : locals[j] = c.locals[j]
          <6>1. \A j \in 1..(i - 1) : j \in 1..Len(c.locals)
            BY <4>2, LocalsOf
          <6>2. QED
            BY <2>2, <6>1
        <5>3. QED
          BY <4>2, <5>1, <5>2, LocalsOf DEF Scoped
      <4>3. QED
        BY <2>6, <4>1, <4>2
    <3>4. QED
      BY <2>4, <3>1, <3>2, <3>3 DEF Scoped
  <2>8. d.locals[1] = c.locals[1] /\ Len(d.locals) > 1
    BY <2>2, <2>4, LocalsOf
  <2>9. QED
    BY <1>2, <2>4, <2>7, <2>8, LocalsOf DEF Continues, d
<1>3. QED
  BY <1>1, <1>2

LEMMA LocalUpdates ==
  ASSUME NEW local \in LocalType
  PROVE  /\ \A depth \in Nat : LET marked == [local EXCEPT !.local_scope_depth = depth] IN
              /\ marked \in LocalType /\ marked.local_scope_depth = depth
              /\ marked.identifier_name = local.identifier_name
         /\ LET marked == [local EXCEPT !.is_captured = TRUE] IN
              /\ marked \in LocalType /\ marked.is_captured
              /\ marked.local_scope_depth = local.local_scope_depth
              /\ marked.identifier_name = local.identifier_name
BY DEF LocalType

LEMMA MarkScoped ==
  ASSUME NEW c \in CompilerType, Scoped(c), c.current_scope_depth > 0 => Len(c.locals) > 1
  PROVE  LET d == MarkInitialized(c) IN
         /\ Continues(c, d) /\ Len(d.locals) = Len(c.locals)
         /\ d.current_scope_depth = c.current_scope_depth
         /\ c.current_scope_depth > 0 \/ Settled(c) => Settled(d)
<1>1. CASE c.current_scope_depth = 0
  BY <1>1 DEF MarkInitialized, Continues
<1>2. CASE c.current_scope_depth # 0
  <2> DEFINE n      == Len(c.locals)
             depth  == c.current_scope_depth
             new    == [c.locals[n] EXCEPT !.local_scope_depth = depth]
             locals == [c.locals EXCEPT ![n] = new]
             d      == MarkInitialized(c)
  <2>1. n \in Nat /\ n > 1 /\ depth \in Nat /\ depth > 0 /\ c.locals[n] \in LocalType
    BY <1>2, LocalsOf
  <2>2. new \in LocalType /\ new.local_scope_depth = depth
    BY <2>1, LocalUpdates
  <2>3. d = Relocated(c, c.current_scope_depth, locals)
    <3>1. MarkInitialized(c) = [c EXCEPT !.locals = locals]
      BY <1>2 DEF MarkInitialized
    <3>2. QED
      BY <3>1, JustLocals
  <2> HIDE DEF new
  <2>4. /\ locals \in Seq(LocalType) /\ Len(locals) = n /\ locals[n] = new
        /\ \A i \in 1..(n - 1) : locals[i] = c.locals[i]
    BY <2>1, <2>2, LocalsOf
  <2> HIDE DEF locals, d
  <2>5. /\ d \in CompilerType /\ d.locals = locals /\ d.current_scope_depth = depth
        /\ d.upvalues = c.upvalues /\ d.within_class = c.within_class
    BY <2>1, <2>3, <2>4, WithLocals
  <2>6. Scoped(d)
    <3>1. locals # <<>> /\ locals[1].local_scope_depth = 0
      BY <2>1, <2>4 DEF Scoped
    <3>2. DOMAIN locals = 1..n
      BY <2>4
    <3>3. \A i \in 1..(n - 1) : /\ locals[i].local_scope_depth # Uninitialised
                               /\ locals[i].local_scope_depth <= depth
      BY <2>1, <2>4, LocalsOf DEF Scoped
    <3>4. ASSUME NEW i \in 1..n
          PROVE  /\ locals[i].local_scope_depth = Uninitialised => i = Len(locals)
                 /\ locals[i].local_scope_depth <= depth
                 /\ \A j \in 1..(i - 1) :
                      \/ locals[i].local_scope_depth = Uninitialised
                      \/ locals[j].local_scope_depth <= locals[i].local_scope_depth
      <4>1. CASE i = n
        BY <2>1, <2>2, <2>4, <3>3, <4>1
      <4>2. CASE i # n
        <5>1. i \in 1..(n - 1) /\ \A j \in 1..(i - 1) : j \in 1..(n - 1)
          BY <2>1, <4>2
        <5>2. QED
          BY <2>1, <2>4, <3>3, <5>1, LocalsOf DEF Scoped
      <4>3. QED
        BY <4>1, <4>2
    <3>5. QED
      BY <2>4, <2>5, <3>1, <3>2, <3>4 DEF Scoped
  <2>7. d.locals[1] = c.locals[1]
    BY <2>1, <2>4, <2>5
  <2>8. Settled(d)
    BY <2>1, <2>2, <2>4, <2>5 DEF Settled, Last, Uninitialised
  <2>9. QED
    BY <2>4, <2>5, <2>6, <2>7, <2>8 DEF Continues, d
<1>3. QED
  BY <1>1, <1>2, LocalsOf

\* parseVariable and defineVariable: a local waits for its value in between.
LEMMA ParseVariableScoped ==
  ASSUME NEW c \in CompilerType, Scoped(c), Settled(c), NEW name \in Names
  PROVE  LET d == ParseVariable(c, name) IN
         /\ Continues(c, d) /\ VariableIndex(d) \in Int
         /\ d.current_scope_depth = c.current_scope_depth
         /\ IF c.current_scope_depth > 0 THEN Len(d.locals) > 1 ELSE Settled(d)
<1> DEFINE declared == DeclareVariable(c, name)
           d == ParseVariable(c, name)
<1>1. /\ Continues(c, declared)
      /\ declared.current_scope_depth = c.current_scope_depth
      /\ IF c.current_scope_depth > 0 THEN Len(declared.locals) > 1 ELSE declared.locals = c.locals
  BY DeclareScoped
<1>2. declared \in CompilerType /\ Scoped(declared)
  BY <1>1 DEF Continues
<1> HIDE DEF declared
<1>3. CASE c.current_scope_depth > 0
  <2>1. d = declared
    BY <1>3 DEF ParseVariable, declared
  <2>2. QED
    BY <1>1, <1>3, <2>1 DEF VariableIndex
<1>4. CASE ~(c.current_scope_depth > 0)
  <2>1. d = Pool(declared, Name(name))
    BY <1>4 DEF ParseVariable, declared
  <2>2. Keeps(declared, d) /\ LastConstant(d) \in Nat
    BY <1>2, <2>1, ConstantTypes, PoolKeeps
  <2>3. Continues(c, d)
    BY <1>1, <1>2, <2>2, KeepsContinues, ContinuesTransitive
  <2>4. d.current_scope_depth = c.current_scope_depth /\ d.locals = c.locals
    BY <1>1, <1>4, <2>2 DEF Keeps
  <2>5. QED
    BY <1>4, <2>2, <2>3, <2>4 DEF VariableIndex, Settled
<1>5. QED
  BY <1>3, <1>4

LEMMA DefineVariableScoped ==
  ASSUME NEW c \in CompilerType, Scoped(c), NEW index \in Int,
         IF c.current_scope_depth > 0 THEN Len(c.locals) > 1 ELSE Settled(c)
  PROVE  LET d == DefineVariable(c, index) IN
         /\ Continues(c, d) /\ Settled(d) /\ Len(d.locals) = Len(c.locals)
         /\ d.current_scope_depth = c.current_scope_depth
<1>1. CASE c.current_scope_depth > 0
  BY <1>1, MarkScoped DEF DefineVariable
<1>2. CASE ~(c.current_scope_depth > 0)
  <2>1. OpIndex("OP_DEFINE_GLOBAL", index) \in Seq(0..255)
    BY OpType, OpCodeNames
  <2>2. Keeps(c, DefineVariable(c, index))
    BY <1>2, <2>1, EmitKeeps DEF DefineVariable
  <2>3. Continues(c, DefineVariable(c, index))
    BY <2>2, KeepsContinues
  <2>4. QED
    BY <1>2, <2>2, <2>3 DEF Keeps, Settled
<1>3. QED
  BY <1>1, <1>2

LEMMA EndScopeCode ==
  ASSUME NEW c \in CompilerType, NEW leaving \in Seq(LocalType)
  PROVE  FlattenSeq([i \in DOMAIN leaving |-> LeaveScope(leaving[i])]) \in Seq(0..255)
<1>1. \A local \in LocalType : LeaveScope(local) \in Seq(0..255)
  BY OpType, OpCodeNames, ZenonT(60) DEF LeaveScope
<1>2. DOMAIN leaving = 1..Len(leaving) /\ \A i \in 1..Len(leaving) : leaving[i] \in LocalType
  OBVIOUS
<1>3. [i \in DOMAIN leaving |-> LeaveScope(leaving[i])] \in Seq(Seq(0..255))
  BY <1>1, <1>2
<1>4. QED
  BY <1>3, FlattenSeqType

LEMMA EndScopeScoped ==
  ASSUME NEW c \in CompilerType, Scoped(c), Settled(c), c.current_scope_depth > 0
  PROVE  LET d == EndScope(c) IN
         /\ Continues(c, d) /\ Settled(d)
         /\ d.current_scope_depth = c.current_scope_depth - 1
<1> DEFINE kept    == LocalsKept(c)
           depth   == c.current_scope_depth - 1
           locals  == SubSeq(c.locals, 1, kept)
           leaving == Reverse(SubSeq(c.locals, kept + 1, Len(c.locals)))
           popped  == PopScope(c)
           code    == FlattenSeq([i \in DOMAIN leaving |-> LeaveScope(leaving[i])])
<1>1. c.current_scope_depth \in Nat /\ depth \in Nat /\ Len(c.locals) \in Nat \ {0}
  BY LocalsOf
<1>2. kept \in 1..Len(c.locals) /\ c.locals[kept].local_scope_depth <= depth
  <2> DEFINE T == {0} \cup {i \in DOMAIN c.locals : c.locals[i].local_scope_depth < c.current_scope_depth}
  <2>1. T \subseteq 0..Len(c.locals) /\ T # {}
    BY <1>1, LocalsOf
  <2>2. 1 \in T
    BY <1>1, LocalsOf DEF Scoped
  <2>3. kept \in T /\ \A t \in T : t <= kept
    <3>1. kept = Max(T)
      BY DEF LocalsKept
    <3> HIDE DEF T, kept
    <3>2. QED
      BY <1>1, <2>1, <3>1, MaxIsGreatest
  <2>4. kept # 0
    BY <2>2, <2>3
  <2>5. kept \in 1..Len(c.locals)
    BY <1>1, <2>1, <2>3, <2>4
  <2>6. c.locals[kept].local_scope_depth < c.current_scope_depth
    <3> HIDE DEF kept
    <3>1. QED
      BY <2>3, <2>4
  <2>7. c.locals[kept].local_scope_depth \in Int
    BY <2>5, LocalsOf DEF Uninitialised
  <2>8. QED
    BY <1>1, <2>5, <2>6, <2>7
<1> HIDE DEF kept
<1>3. /\ locals \in Seq(LocalType) /\ Len(locals) = kept
      /\ \A i \in 1..kept : locals[i] = c.locals[i]
  BY <1>1, <1>2, LocalsOf
<1>4. popped = Relocated(c, depth, locals)
  BY DEF PopScope, Relocated, kept
<1> HIDE DEF locals, popped
<1>5. /\ popped \in CompilerType /\ popped.locals = locals
      /\ popped.current_scope_depth = depth
      /\ popped.upvalues = c.upvalues /\ popped.within_class = c.within_class
  BY <1>1, <1>3, <1>4, WithLocals, ZenonT(60)
<1>6. \A i \in 1..kept : locals[i].local_scope_depth \in Nat /\ locals[i].local_scope_depth <= depth
  <2> SUFFICES ASSUME NEW i \in 1..kept
               PROVE  c.locals[i].local_scope_depth \in Nat /\ c.locals[i].local_scope_depth <= depth
    BY <1>3
  <2>1. i \in 1..Len(c.locals) /\ c.locals[i].local_scope_depth \in Nat
        /\ c.locals[kept].local_scope_depth \in Nat
    BY <1>1, <1>2, SettledThroughout
  <2>2. c.locals[i].local_scope_depth <= c.locals[kept].local_scope_depth
    <3>1. CASE i = kept
      BY <2>1, <3>1
    <3>2. CASE i # kept
      <4>1. i \in 1..(kept - 1)
        BY <1>2, <3>2
      <4>2. QED
        BY <1>2, <2>1, <4>1, LocalsOf, SMTT(60) DEF Scoped, Uninitialised
    <3>3. QED
      BY <3>1, <3>2
  <2>3. QED
    BY <1>1, <1>2, <2>1, <2>2, SMTT(60)
<1>7. Scoped(popped)
  <2>1. locals # <<>> /\ locals[1].local_scope_depth = 0 /\ DOMAIN locals = 1..kept
    BY <1>2, <1>3 DEF Scoped
  <2>2. ASSUME NEW i \in 1..kept, NEW j \in 1..(i - 1)
        PROVE  locals[j].local_scope_depth <= locals[i].local_scope_depth
    <3>1. i \in 1..Len(c.locals) /\ j \in 1..kept
      BY <1>1, <1>2
    <3>2. c.locals[i].local_scope_depth # Uninitialised
      BY <3>1, SettledThroughout DEF Uninitialised
    <3>3. QED
      BY <1>3, <3>1, <3>2, LocalsOf DEF Scoped
  <2>3. QED
    BY <1>3, <1>5, <1>6, <2>1, <2>2 DEF Scoped, Uninitialised
<1>8. Continues(c, popped) /\ Settled(popped)
  <2>1. locals[1] = c.locals[1] /\ locals[kept].local_scope_depth # Uninitialised
    BY <1>2, <1>3, <1>6 DEF Uninitialised
  <2>2. QED
    BY <1>3, <1>5, <1>7, <2>1 DEF Continues, Settled, Last
<1>9. Keeps(popped, Emit(popped, code))
  <2>1. leaving \in Seq(LocalType)
    <3>1. SubSeq(c.locals, kept + 1, Len(c.locals)) \in Seq(LocalType)
      BY <1>1, <1>2, LocalsOf
    <3>2. \A s \in Seq(LocalType) : Reverse(s) \in Seq(LocalType)
      <4> SUFFICES ASSUME NEW s \in Seq(LocalType)
                   PROVE  Reverse(s) \in Seq(LocalType)
        OBVIOUS
      <4>1. \A i \in 1..Len(s) : (Len(s) - i) + 1 \in 1..Len(s)
        OBVIOUS
      <4>2. \A i \in 1..Len(s) : s[(Len(s) - i) + 1] \in LocalType
        BY <4>1
      <4>3. QED
        BY <4>2 DEF Reverse
    <3>3. QED
      BY <3>1, <3>2
  <2> HIDE DEF leaving
  <2>2. QED
    BY <1>5, <2>1, EndScopeCode, EmitKeeps
<1>10. EndScope(c) = Emit(popped, code)
  BY DEF EndScope, popped, kept
<1> HIDE DEF code
<1>11. Continues(c, Emit(popped, code))
  BY <1>7, <1>8, <1>9, KeepsContinues, ContinuesTransitive
<1>12. QED
  BY <1>5, <1>8, <1>9, <1>10, <1>11 DEF Keeps, Settled

-------------------------------------------------------------------------------
(***************************************************************************)
(* Names: where a variable is found, and what resolving it adds to the     *)
(* compilers between its function and the current one.                     *)
(***************************************************************************)
LEMMA ResolveVariableType ==
  ASSUME NEW c \in CompilerType, Scoped(c), NEW name, Declares(c, name)
  PROVE  /\ ResolveVariable(c, name) \in 0..(Len(c.locals) - 1)
         /\ c.locals[ResolveVariable(c, name) + 1].identifier_name = name
<1> DEFINE T == {i \in DOMAIN c.locals : c.locals[i].identifier_name = name}
<1>1. T \subseteq 0..Len(c.locals) /\ T # {} /\ Len(c.locals) \in Nat
  BY LocalsOf DEF Declares
<1>2. Max(T) \in T
  <2> HIDE DEF T
  <2>1. QED
    BY <1>1, MaxIsGreatest
<1>3. ResolveVariable(c, name) = Max(T) - 1
  BY DEF ResolveVariable
<1>4. Max(T) \in 1..Len(c.locals) /\ c.locals[Max(T)].identifier_name = name
  BY <1>2, LocalsOf
<1> HIDE DEF T
<1>5. (Max(T) - 1) + 1 = Max(T) /\ Max(T) - 1 \in 0..(Len(c.locals) - 1)
  BY <1>1, <1>4
<1>6. QED
  BY <1>3, <1>4, <1>5

LEMMA OwnerDeclares ==
  ASSUME compilers \in Seq(CompilerType), NEW name
  PROVE  /\ Owner(name) \in 0..Len(compilers)
         /\ Owner(name) # 0 => Declares(compilers[Owner(name)], name)
         /\ \A k \in 1..Len(compilers) : Declares(compilers[k], name) => k <= Owner(name)
<1> DEFINE T == {0} \cup {k \in DOMAIN compilers : Declares(compilers[k], name)}
<1>1. T \subseteq 0..Len(compilers) /\ T # {} /\ Len(compilers) \in Nat
  OBVIOUS
<1>2. Owner(name) = Max(T)
  BY DEF Owner
<1>3. Max(T) \in T /\ \A t \in T : t <= Max(T)
  <2> HIDE DEF T
  <2>1. QED
    BY <1>1, MaxIsGreatest
<1>4. Owner(name) \in T /\ \A t \in T : t <= Owner(name)
  BY <1>2, <1>3
<1>5. QED
  BY <1>1, <1>4

\* Resolving a name marks locals captured and adds upvalues, and nothing else.
Extends(c, d) ==
  /\ d \in CompilerType
  /\ d.current_scope_depth = c.current_scope_depth /\ d.within_class = c.within_class
  /\ Len(d.locals) = Len(c.locals)
  /\ \A i \in 1..Len(c.locals) :
       /\ d.locals[i].identifier_name = c.locals[i].identifier_name
       /\ d.locals[i].local_scope_depth = c.locals[i].local_scope_depth
       /\ c.locals[i].is_captured => d.locals[i].is_captured
  /\ Len(c.upvalues) <= Len(d.upvalues)

LEMMA ExtendsScoped ==
  ASSUME NEW c \in CompilerType, NEW d, Scoped(c), Extends(c, d)
  PROVE  /\ Scoped(d) /\ (Settled(c) <=> Settled(d))
         /\ d.locals[1].identifier_name = c.locals[1].identifier_name
<1>1. Len(c.locals) \in Nat \ {0} /\ DOMAIN c.locals = 1..Len(c.locals)
  BY LocalsOf
<1>2. d.locals \in Seq(LocalType)
  BY DEF Extends, CompilerType
<1>3. DOMAIN d.locals = 1..Len(c.locals) /\ d.locals # <<>>
  BY <1>1, <1>2 DEF Extends
<1>4. 1 \in 1..Len(c.locals) /\ Len(c.locals) \in 1..Len(c.locals)
  BY <1>1
<1>5. \A i \in 1..Len(c.locals) : \A j \in 1..(i - 1) : j \in 1..Len(c.locals)
  BY <1>1
<1>6. Scoped(d)
  BY <1>1, <1>3, <1>4, <1>5 DEF Extends, Scoped
<1>7. QED
  BY <1>4, <1>6 DEF Extends, Settled, Last

LEMMA CapturedStays ==
  ASSUME NEW c \in CompilerType, NEW d, Extends(c, d), NEW upvalue \in UpvalueType,
         Captured(c, upvalue)
  PROVE  Captured(d, upvalue)
<1>1. upvalue.index \in Nat
  BY DEF UpvalueType
<1>2. c.locals \in Seq(LocalType) /\ c.upvalues \in Seq(UpvalueType)
      /\ d.upvalues \in Seq(UpvalueType)
  BY DEF Extends, CompilerType
<1>3. upvalue.index < Len(c.locals) => upvalue.index + 1 \in 1..Len(c.locals)
  BY <1>1, <1>2
<1>4. QED
  BY <1>1, <1>2, <1>3 DEF Captured, Extends

LEMMA WithUpvalues ==
  ASSUME NEW c \in CompilerType, NEW upvalues \in Seq(UpvalueType)
  PROVE  LET d == [c EXCEPT !.upvalues = upvalues] IN
         /\ d \in CompilerType /\ d.upvalues = upvalues /\ d.locals = c.locals
         /\ d.current_scope_depth = c.current_scope_depth /\ d.within_class = c.within_class
<1>1. [c EXCEPT !.upvalues = upvalues] \in CompilerType
  BY ZenonT(60) DEF CompilerType
<1>2. \A new : LET d == [c EXCEPT !.upvalues = new] IN
        /\ d.upvalues = new /\ d.locals = c.locals
        /\ d.current_scope_depth = c.current_scope_depth /\ d.within_class = c.within_class
  BY DEF CompilerType
<1>3. QED
  BY <1>1, <1>2

LEMMA AddUpvalueExtends ==
  ASSUME NEW c \in CompilerType, NEW upvalue \in UpvalueType
  PROVE  LET d == AddUpvalue(c, upvalue) IN
         /\ Extends(c, d)
         /\ \A i \in DOMAIN d.upvalues :
              d.upvalues[i] = upvalue \/ \E j \in DOMAIN c.upvalues : d.upvalues[i] = c.upvalues[j]
         /\ IsInjective(c.upvalues) => IsInjective(d.upvalues)
         /\ UpvalueIndex(d, upvalue) \in 0..(Len(d.upvalues) - 1)
<1> DEFINE d == AddUpvalue(c, upvalue)
           upvalues == Append(c.upvalues, upvalue)
<1>1. c.upvalues \in Seq(UpvalueType) /\ c.locals \in Seq(LocalType)
  BY DEF CompilerType
<1>2. /\ upvalues \in Seq(UpvalueType) /\ Len(upvalues) = Len(c.upvalues) + 1
      /\ \A i \in 1..Len(c.upvalues) : upvalues[i] = c.upvalues[i]
      /\ upvalues[Len(c.upvalues) + 1] = upvalue
  BY <1>1
<1>3. /\ Extends(c, d)
      /\ IF Contains(c.upvalues, upvalue) THEN d.upvalues = c.upvalues ELSE d.upvalues = upvalues
  <2>1. CASE Contains(c.upvalues, upvalue)
    BY <1>1, <2>1 DEF AddUpvalue, Extends
  <2>2. CASE ~Contains(c.upvalues, upvalue)
    <3>1. d = [c EXCEPT !.upvalues = upvalues]
      BY <2>2 DEF AddUpvalue
    <3> HIDE DEF d, upvalues
    <3>2. \A new \in Seq(UpvalueType) : LET e == [c EXCEPT !.upvalues = new] IN
           /\ e \in CompilerType /\ e.upvalues = new /\ e.locals = c.locals
           /\ e.current_scope_depth = c.current_scope_depth /\ e.within_class = c.within_class
      BY WithUpvalues
    <3>3. /\ d \in CompilerType /\ d.upvalues = upvalues /\ d.locals = c.locals
          /\ d.current_scope_depth = c.current_scope_depth /\ d.within_class = c.within_class
      BY <1>2, <3>1, <3>2
    <3>4. QED
      BY <1>1, <1>2, <2>2, <3>3 DEF Extends
  <2>3. QED
    BY <2>1, <2>2
<1> HIDE DEF upvalues, d
<1>4. d.upvalues \in Seq(UpvalueType)
  BY <1>1, <1>2, <1>3
<1>5. \A i \in DOMAIN d.upvalues :
        d.upvalues[i] = upvalue \/ \E j \in DOMAIN c.upvalues : d.upvalues[i] = c.upvalues[j]
  BY <1>1, <1>2, <1>3, SMTT(60)
<1>6. IsInjective(c.upvalues) => IsInjective(d.upvalues)
  <2> SUFFICES ASSUME IsInjective(c.upvalues), ~Contains(c.upvalues, upvalue),
                      NEW i \in 1..Len(upvalues), NEW j \in 1..Len(upvalues),
                      upvalues[i] = upvalues[j]
               PROVE  i = j
    BY <1>2, <1>3 DEF IsInjective
  <2>1. \A n \in 1..Len(c.upvalues) : upvalues[n] # upvalue
    BY <1>2 DEF Contains
  <2>2. \A n \in 1..Len(upvalues) : n \in 1..Len(c.upvalues) \/ n = Len(c.upvalues) + 1
    BY <1>1, <1>2
  <2>3. CASE i \in 1..Len(c.upvalues) /\ j \in 1..Len(c.upvalues)
    BY <1>1, <1>2, <2>3, SMTT(60) DEF IsInjective
  <2>4. CASE i \notin 1..Len(c.upvalues) \/ j \notin 1..Len(c.upvalues)
    <3>1. i = Len(c.upvalues) + 1 \/ j = Len(c.upvalues) + 1
      BY <2>2, <2>4
    <3>2. i = Len(c.upvalues) + 1 /\ j = Len(c.upvalues) + 1
      BY <1>2, <2>1, <2>2, <3>1
    <3>3. QED
      BY <3>2
  <2>5. QED
    BY <2>3, <2>4
<1>7. \E i \in DOMAIN d.upvalues : d.upvalues[i] = upvalue
  BY <1>1, <1>2, <1>3 DEF Contains
<1>8. UpvalueIndex(d, upvalue) \in 0..(Len(d.upvalues) - 1)
  <2> DEFINE i == CHOOSE i \in DOMAIN d.upvalues : d.upvalues[i] = upvalue
  <2>1. i \in DOMAIN d.upvalues
    BY <1>7
  <2>2. UpvalueIndex(d, upvalue) = i - 1
    BY DEF UpvalueIndex
  <2> HIDE DEF i
  <2>3. QED
    BY <1>4, <2>1, <2>2
<1>9. QED
  BY <1>3, <1>5, <1>6, <1>8 DEF d

\* The links of the chain that resolveUpvalue makes, from the owner inwards.
Capturing(c, slot) == [c EXCEPT !.locals[slot + 1].is_captured = TRUE]
UpvalueTo(owner, k, index) == [type |-> IF k = owner + 1 THEN 1 ELSE 0, index |-> index]
Link(owner, k, index) ==
  LET added == AddUpvalue(compilers[k], UpvalueTo(owner, k, index))
  IN  [compiler |-> added, index |-> UpvalueIndex(added, UpvalueTo(owner, k, index))]

LEMMA ChainLinks ==
  ASSUME NEW name, Len(compilers) \in Nat, Owner(name) \in 1..Len(compilers)
  PROVE  LET owner == Owner(name)
             slot  == ResolveVariable(compilers[owner], name)
             chain == ResolveUpvalue(name)
         IN  /\ chain[owner] = [compiler |-> Capturing(compilers[owner], slot), index |-> slot]
             /\ \A k \in (owner + 1)..Len(compilers) :
                  chain[k] = Link(owner, k, chain[k - 1].index)
<1> DEFINE owner == Owner(name)
           slot  == ResolveVariable(compilers[owner], name)
           last  == Len(compilers)
           first == [compiler |-> Capturing(compilers[owner], slot), index |-> slot]
           Step(f, k) == IF k = owner THEN first ELSE Link(owner, k, f[k - 1].index)
           Chains(f, n) == f = [k \in owner..n |-> Step(f, k)]
           Done == {n \in Nat : \E f : Chains(f, owner + n)}
<1>1. owner \in Nat /\ last \in Nat /\ owner <= last
  OBVIOUS
<1> HIDE DEF owner, slot, first
<1>2. 0 \in Done
  <2> DEFINE f == [k \in owner..(owner + 0) |-> first]
  <2>1. \A k \in owner..(owner + 0) : k = owner
    BY <1>1
  <2>2. f = [k \in owner..(owner + 0) |-> Step(f, k)]
    BY <2>1
  <2> HIDE DEF f
  <2>3. QED
    BY <2>2
<1>3. ASSUME NEW n \in Nat, n \in Done
      PROVE  n + 1 \in Done
  <2>1. PICK f : Chains(f, owner + n)
    BY <1>3
  <2> DEFINE g == [k \in owner..(owner + (n + 1)) |-> Step(f, k)]
  <2>2. \A k \in owner..(owner + n) : f[k] = Step(f, k)
    <3> HIDE DEF Step
    <3>1. QED
      BY <2>1
  <2>3. \A k \in owner..(owner + (n + 1)) : Step(g, k) = Step(f, k)
    <3>1. \A k \in owner..(owner + (n + 1)) : k # owner => k - 1 \in owner..(owner + n)
      BY <1>1
    <3>2. \A k \in owner..(owner + n) : g[k] = f[k]
      <4>1. \A k \in owner..(owner + n) : k \in owner..(owner + (n + 1))
        BY <1>1
      <4>2. \A k \in owner..(owner + n) : g[k] = Step(f, k)
        <5> HIDE DEF Step
        <5>1. QED
          BY <4>1
      <4> HIDE DEF g, Step
      <4>3. QED
        BY <2>2, <4>2
    <3> HIDE DEF g
    <3>3. QED
      BY <3>1, <3>2
  <2>4. Chains(g, owner + (n + 1))
    <3>1. g = [k \in owner..(owner + (n + 1)) |-> Step(f, k)]
      OBVIOUS
    <3> HIDE DEF g, Step
    <3>2. QED
      BY <2>3, <3>1
  <2> HIDE DEF g, Chains
  <2>5. QED
    BY <2>4
<1>4. \E f : Chains(f, last)
  <2>1. last - owner \in Done
    <3> HIDE DEF Done
    <3>1. Nat \subseteq Done
      BY <1>2, <1>3, Induction
    <3>2. QED
      BY <1>1, <3>1
  <2>2. owner + (last - owner) = last
    BY <1>1
  <2>3. QED
    BY <2>1, <2>2
<1> DEFINE chain == CHOOSE f : Chains(f, last)
<1>5. Chains(chain, last)
  BY <1>4, ZenonT(60)
<1>6. ResolveUpvalue(name) = chain
  BY ZenonT(60) DEF ResolveUpvalue, Link, UpvalueTo, Capturing, owner, slot, first
<1> HIDE DEF chain
<1>7. \A k \in owner..last : chain[k] = Step(chain, k)
  <2> HIDE DEF Step
  <2>1. QED
    BY <1>5
<1>8. chain[owner] = first
  BY <1>1, <1>7
<1>9. \A k \in (owner + 1)..last : chain[k] = Link(owner, k, chain[k - 1].index)
  <2>1. \A k \in (owner + 1)..last : k \in owner..last /\ k # owner
    BY <1>1
  <2>2. QED
    BY <1>7, <2>1
<1>10. QED
  BY <1>6, <1>8, <1>9 DEF owner, slot, first

\* UpvaluesResolve, of any compilers.
Resolves(cs) ==
  \A k \in 1..Len(cs) :
    /\ cs[k].upvalues # <<>> => k > 1
    /\ \A i \in DOMAIN cs[k].upvalues : Captured(cs[k - 1], cs[k].upvalues[i])
    /\ IsInjective(cs[k].upvalues)

LEMMA ResolvesHere ==
  ASSUME compilers \in Seq(CompilerType)
  PROVE  UpvaluesResolve <=> Resolves(compilers)
BY DEF UpvaluesResolve, Resolves

LEMMA ExtendsSame ==
  ASSUME NEW c \in CompilerType
  PROVE  Extends(c, c)
<1>1. c.locals \in Seq(LocalType) /\ c.upvalues \in Seq(UpvalueType)
  BY DEF CompilerType
<1>2. Len(c.upvalues) <= Len(c.upvalues)
  BY <1>1
<1>3. QED
  BY <1>2 DEF Extends

LEMMA CapturingExtends ==
  ASSUME NEW c \in CompilerType, Scoped(c), NEW slot \in 0..(Len(c.locals) - 1)
  PROVE  LET d == Capturing(c, slot) IN
         /\ Extends(c, d) /\ d.upvalues = c.upvalues /\ d.locals[slot + 1].is_captured
<1> DEFINE n      == slot + 1
           new    == [c.locals[n] EXCEPT !.is_captured = TRUE]
           locals == [c.locals EXCEPT ![n] = new]
           d      == Capturing(c, slot)
<1>1. n \in 1..Len(c.locals) /\ c.locals[n] \in LocalType
  BY LocalsOf
<1>2. /\ new \in LocalType /\ new.is_captured
      /\ new.local_scope_depth = c.locals[n].local_scope_depth
      /\ new.identifier_name = c.locals[n].identifier_name
  BY <1>1, LocalUpdates
<1>3. d = Relocated(c, c.current_scope_depth, locals)
  <2>1. d = [c EXCEPT !.locals = locals]
    BY DEF Capturing
  <2>2. QED
    BY <2>1, JustLocals
<1> HIDE DEF new, d
<1>4. /\ locals \in Seq(LocalType) /\ Len(locals) = Len(c.locals) /\ locals[n] = new
      /\ \A i \in 1..Len(c.locals) : i # n => locals[i] = c.locals[i]
  BY <1>1, <1>2, LocalsOf
<1> HIDE DEF locals, n
<1>5. /\ d \in CompilerType /\ d.locals = locals
      /\ d.current_scope_depth = c.current_scope_depth
      /\ d.upvalues = c.upvalues /\ d.within_class = c.within_class
  <2>1. c.current_scope_depth \in Nat
    BY LocalsOf
  <2>2. QED
    BY <1>3, <1>4, <2>1, WithLocals, ZenonT(60)
<1>6. Len(c.upvalues) <= Len(c.upvalues)
  BY DEF CompilerType
<1>7. QED
  BY <1>1, <1>2, <1>4, <1>5, <1>6 DEF Extends, d, n

LEMMA ChainExtends ==
  ASSUME NEW name, compilers \in Seq(CompilerType),
         \A k \in 1..Len(compilers) : Scoped(compilers[k]),
         EnclosingSettled, UpvaluesResolve, Owner(name) \in 1..(Len(compilers) - 1)
  PROVE  LET owner == Owner(name)
             chain == ResolveUpvalue(name)
         IN  /\ chain[owner].compiler.upvalues = compilers[owner].upvalues
             /\ \A k \in owner..Len(compilers) :
                  /\ Extends(compilers[k], chain[k].compiler)
                  /\ chain[k].index \in Nat
                  /\ IsInjective(chain[k].compiler.upvalues)
                  /\ k # owner => \A i \in DOMAIN chain[k].compiler.upvalues :
                       Captured(chain[k - 1].compiler, chain[k].compiler.upvalues[i])
<1> DEFINE owner == Owner(name)
           slot  == ResolveVariable(compilers[owner], name)
           chain == ResolveUpvalue(name)
           last  == Len(compilers)
           Good(k) == /\ Extends(compilers[k], chain[k].compiler) /\ chain[k].index \in Nat
                      /\ IsInjective(chain[k].compiler.upvalues)
                      /\ Captured(chain[k].compiler, UpvalueTo(owner, k + 1, chain[k].index))
                      /\ k # owner => \A i \in DOMAIN chain[k].compiler.upvalues :
                           Captured(chain[k - 1].compiler, chain[k].compiler.upvalues[i])
           Reached == {n \in Nat : n <= last - owner => Good(owner + n)}
<1>1. last \in Nat /\ owner \in 1..last /\ owner # last
      /\ compilers[owner] \in CompilerType /\ Scoped(compilers[owner])
      /\ Declares(compilers[owner], name)
  BY OwnerDeclares
<1>2. slot \in 0..(Len(compilers[owner].locals) - 1)
  BY <1>1, ResolveVariableType
<1>3. /\ chain[owner] = [compiler |-> Capturing(compilers[owner], slot), index |-> slot]
      /\ \A k \in (owner + 1)..last : chain[k] = Link(owner, k, chain[k - 1].index)
  BY <1>1, ChainLinks
<1>4. \A k \in 1..last : compilers[k] \in CompilerType /\ IsInjective(compilers[k].upvalues)
  BY ResolvesHere DEF Resolves
<1> HIDE DEF owner, slot, chain
<1>5. 0 \in Reached
  <2> DEFINE c == compilers[owner]
             d == chain[owner].compiler
  <2>1. Extends(c, d) /\ d.upvalues = c.upvalues /\ d.locals[slot + 1].is_captured
    BY <1>1, <1>2, <1>3, CapturingExtends
  <2>2. chain[owner].index = slot /\ slot \in Nat
    BY <1>2, <1>3
  <2>3. slot < Len(d.locals) /\ d.locals[slot + 1].local_scope_depth # Uninitialised
    <3>1. Len(c.locals) \in Nat /\ slot + 1 \in 1..Len(c.locals) /\ slot < Len(c.locals)
      BY <1>1, <1>2, LocalsOf
    <3>2. Settled(c)
      BY <1>1 DEF EnclosingSettled
    <3>3. c.locals[slot + 1].local_scope_depth # Uninitialised
      BY <1>1, <3>1, <3>2, SettledThroughout DEF Uninitialised
    <3>4. QED
      BY <2>1, <3>1, <3>3 DEF Extends
  <2>4. Captured(d, UpvalueTo(owner, owner + 1, slot))
    <3>1. UpvalueTo(owner, owner + 1, slot) = [type |-> 1, index |-> slot]
      BY DEF UpvalueTo
    <3>2. QED
      BY <2>1, <2>3, <3>1 DEF Captured
  <2>5. IsInjective(d.upvalues)
    BY <1>1, <1>4, <2>1
  <2>6. Good(owner)
    BY <2>1, <2>2, <2>4, <2>5
  <2> HIDE DEF Good
  <2>7. owner + 0 = owner
    BY <1>1
  <2>8. QED
    BY <2>6, <2>7
<1>6. ASSUME NEW n \in Nat, n \in Reached
      PROVE  n + 1 \in Reached
  <2> DEFINE k == owner + (n + 1)
  <2>1. ASSUME n + 1 <= last - owner
        PROVE  Good(k)
    <3>1. /\ k \in (owner + 1)..last /\ k \in 1..last /\ k # owner /\ k # owner + 1 - 1
          /\ k + 1 # owner + 1 /\ n <= last - owner /\ k - 1 = owner + n
      BY <1>1, <2>1
    <3> HIDE DEF k
    <3>2. Good(k - 1)
      <4> HIDE DEF Good
      <4>1. QED
        BY <1>6, <3>1
    <3> DEFINE previous == chain[k - 1]
               upvalue  == UpvalueTo(owner, k, previous.index)
               c == compilers[k]
               d == chain[k].compiler
    <3>3. upvalue \in UpvalueType
      BY <3>2 DEF UpvalueTo, UpvalueType
    <3>4. d = AddUpvalue(c, upvalue) /\ chain[k].index = UpvalueIndex(d, upvalue)
      <4>1. chain[k] = Link(owner, k, previous.index)
        BY <1>3, <3>1
      <4>2. QED
        BY <4>1 DEF Link
    <3>5. Captured(previous.compiler, upvalue)
      <4>1. (k - 1) + 1 = k
        BY <3>1
      <4>2. QED
        BY <3>2, <4>1
    <3>6. c \in CompilerType /\ IsInjective(c.upvalues)
      BY <1>4, <3>1
    <3> HIDE DEF upvalue
    <3>7. /\ Extends(c, d)
          /\ \A i \in DOMAIN d.upvalues :
               d.upvalues[i] = upvalue \/ \E j \in DOMAIN c.upvalues : d.upvalues[i] = c.upvalues[j]
          /\ IsInjective(d.upvalues)
          /\ chain[k].index \in 0..(Len(d.upvalues) - 1)
      BY <3>3, <3>4, <3>6, AddUpvalueExtends
    <3>8. chain[k].index \in Nat /\ chain[k].index < Len(d.upvalues)
      <4>1. Len(d.upvalues) \in Nat
        <5>1. d \in CompilerType
          BY <3>7 DEF Extends
        <5>2. d.upvalues \in Seq(UpvalueType)
          BY <5>1 DEF CompilerType
        <5>3. QED
          BY <5>2
      <4>2. QED
        BY <3>7, <4>1, SMTT(60)
    <3>9. Captured(d, UpvalueTo(owner, k + 1, chain[k].index))
      <4>1. UpvalueTo(owner, k + 1, chain[k].index) = [type |-> 0, index |-> chain[k].index]
        BY <3>1 DEF UpvalueTo
      <4>2. QED
        BY <3>8, <4>1 DEF Captured
    <3>10. \A i \in DOMAIN c.upvalues : Captured(previous.compiler, c.upvalues[i])
      <4>1. \A i \in DOMAIN c.upvalues : Captured(compilers[k - 1], c.upvalues[i])
        BY <3>1, ResolvesHere DEF Resolves
      <4>2. \A i \in DOMAIN c.upvalues : c.upvalues[i] \in UpvalueType
        <5>1. c.upvalues \in Seq(UpvalueType)
          BY <3>6 DEF CompilerType
        <5>2. QED
          BY <5>1
      <4>3. compilers[k - 1] \in CompilerType /\ Extends(compilers[k - 1], previous.compiler)
        <5>1. k - 1 \in 1..last
          BY <1>1, <3>1
        <5>2. QED
          BY <1>4, <3>2, <5>1
      <4>4. QED
        BY <4>1, <4>2, <4>3, CapturedStays
    <3>11. \A i \in DOMAIN d.upvalues : Captured(previous.compiler, d.upvalues[i])
      BY <3>5, <3>7, <3>10
    <3>12. QED
      BY <3>7, <3>8, <3>9, <3>11
  <2> HIDE DEF Good
  <2>2. QED
    BY <2>1
<1>7. \A k \in owner..last : Good(k)
  <2> HIDE DEF Good
  <2>1. \A n \in Nat : n \in Reached
    <3> HIDE DEF Reached
    <3>1. QED
      BY <1>5, <1>6, Induction
  <2>2. \A k \in owner..last : k - owner \in Nat /\ k - owner <= last - owner /\ owner + (k - owner) = k
    BY <1>1
  <2>3. \A n \in Nat : n <= last - owner => Good(owner + n)
    BY <2>1
  <2>4. QED
    BY <2>2, <2>3
<1>8. chain[owner].compiler.upvalues = compilers[owner].upvalues
  BY <1>1, <1>2, <1>3, CapturingExtends
<1>9. QED
  BY <1>7, <1>8 DEF owner, chain

\* The compilers ds are cs once a name is resolved or code is emitted.
Resolved(cs, ds) ==
  /\ ds \in Seq(CompilerType) /\ Len(ds) = Len(cs)
  /\ \A k \in 1..Len(cs) : Extends(cs[k], ds[k])
  /\ Resolves(ds)

LEMMA KeepsExtends ==
  ASSUME NEW c \in CompilerType, NEW d, Keeps(c, d)
  PROVE  Extends(c, d)
<1>1. Len(c.upvalues) <= Len(c.upvalues)
  BY DEF CompilerType
<1>2. QED
  BY <1>1 DEF Keeps, Extends

\* A new current compiler, with the upvalues it had.
LEMMA WithLastResolves ==
  ASSUME NEW cs \in Seq(CompilerType), cs # <<>>, Resolves(cs), NEW d \in CompilerType,
         d.upvalues = Last(cs).upvalues
  PROVE  LET ds == [cs EXCEPT ![Len(cs)] = d] IN
         /\ ds \in Seq(CompilerType) /\ Len(ds) = Len(cs)
         /\ \A k \in 1..(Len(cs) - 1) : ds[k] = cs[k]
         /\ ds[Len(cs)] = d
         /\ Resolves(ds)
<1> DEFINE ds == [cs EXCEPT ![Len(cs)] = d]
<1>1. /\ Len(cs) \in Nat \ {0} /\ ds \in Seq(CompilerType) /\ Len(ds) = Len(cs)
      /\ \A k \in 1..(Len(cs) - 1) : ds[k] = cs[k]
      /\ ds[Len(cs)] = d
  OBVIOUS
<1> HIDE DEF ds
<1>2. \A k \in 1..Len(cs) : ds[k].upvalues = cs[k].upvalues
  BY <1>1 DEF Last
<1>3. \A k \in 2..Len(cs) : ds[k - 1] = cs[k - 1]
  BY <1>1
<1>4. Resolves(ds)
  <2> SUFFICES ASSUME NEW k \in 1..Len(cs)
               PROVE  /\ ds[k].upvalues # <<>> => k > 1
                      /\ \A i \in DOMAIN ds[k].upvalues : Captured(ds[k - 1], ds[k].upvalues[i])
                      /\ IsInjective(ds[k].upvalues)
    BY <1>1 DEF Resolves
  <2>1. cs[k].upvalues # <<>> => k > 1
    BY DEF Resolves
  <2>2. IsInjective(cs[k].upvalues)
    BY DEF Resolves
  <2>3. \A i \in DOMAIN cs[k].upvalues : Captured(ds[k - 1], cs[k].upvalues[i])
    <3>1. cs[k].upvalues \in Seq(UpvalueType)
      <4>1. cs[k] \in CompilerType
        OBVIOUS
      <4>2. QED
        BY <4>1, ZenonT(60) DEF CompilerType
    <3>2. CASE cs[k].upvalues = <<>>
      BY <3>1, <3>2
    <3>3. CASE cs[k].upvalues # <<>>
      <4>1. k \in 2..Len(cs)
        BY <2>1, <3>3
      <4>2. QED
        BY <1>3, <4>1 DEF Resolves
    <3>4. QED
      BY <3>2, <3>3
  <2>4. QED
    BY <1>2, <2>1, <2>2, <2>3
<1>5. QED
  BY <1>1, <1>4 DEF ds

LEMMA WithLastResolved ==
  ASSUME NEW cs \in Seq(CompilerType), cs # <<>>, Resolves(cs), NEW d, Keeps(Last(cs), d)
  PROVE  Resolved(cs, [cs EXCEPT ![Len(cs)] = d])
<1> DEFINE ds == [cs EXCEPT ![Len(cs)] = d]
<1>1. d \in CompilerType /\ d.upvalues = Last(cs).upvalues
  BY DEF Keeps
<1>2. /\ ds \in Seq(CompilerType) /\ Len(ds) = Len(cs)
      /\ \A k \in 1..(Len(cs) - 1) : ds[k] = cs[k]
      /\ ds[Len(cs)] = d
      /\ Resolves(ds)
  BY <1>1, WithLastResolves
<1>3. Len(cs) \in Nat \ {0} /\ \A k \in 1..Len(cs) : cs[k] \in CompilerType
  OBVIOUS
<1> HIDE DEF ds
<1>4. ASSUME NEW k \in 1..Len(cs)
      PROVE  Extends(cs[k], ds[k])
  <2>1. CASE k = Len(cs)
    BY <1>2, <1>3, <2>1, KeepsExtends DEF Last
  <2>2. CASE k # Len(cs)
    BY <1>2, <1>3, <2>2, ExtendsSame
  <2>3. QED
    BY <2>1, <2>2
<1>5. QED
  BY <1>2, <1>4 DEF Resolved, ds

LEMMA NamedVariableResolved ==
  ASSUME compilers \in Seq(CompilerType), compilers # <<>>,
         \A k \in 1..Len(compilers) : Scoped(compilers[k]),
         EnclosingSettled, UpvaluesResolve,
         NEW name, name \in Names \/ Owner(name) # 0
  PROVE  LET named == NamedVariable(name) IN
         /\ Resolved(compilers, named.compilers)
         /\ named.get \in Seq(0..255) /\ named.set \in Seq(0..255)
<1> DEFINE owner == Owner(name)
           last  == Len(compilers)
           named == NamedVariable(name)
<1>1. /\ last \in Nat \ {0} /\ owner \in 0..last /\ Resolves(compilers)
      /\ owner # 0 => Declares(compilers[owner], name)
      /\ \A k \in 1..last : compilers[k] \in CompilerType
  BY OwnerDeclares, ResolvesHere
<1>a. Cur = compilers[last] /\ last \in 1..last /\ Scoped(Cur) /\ Cur \in CompilerType
  <2>1. last \in 1..last
    BY <1>1
  <2>2. QED
    BY <1>1, <2>1 DEF Cur, Last
<1>b. Resolved(compilers, compilers)
  BY <1>1, ExtendsSame DEF Resolved
<1>2. CASE owner = last
  <2>1. ResolveVariable(Cur, name) \in Int
    <3>1. Declares(Cur, name)
      <4>1. owner # 0
        BY <1>1, <1>2
      <4>2. QED
        BY <1>1, <1>2, <1>a, <4>1
    <3>2. ResolveVariable(Cur, name) \in 0..(Len(Cur.locals) - 1)
      BY <1>a, <3>1, ResolveVariableType
    <3>3. QED
      BY <3>2
  <2>2. /\ named.compilers = compilers
        /\ named.get = OpIndex("OP_GET_LOCAL", ResolveVariable(Cur, name))
        /\ named.set = OpIndex("OP_SET_LOCAL", ResolveVariable(Cur, name))
    BY <1>2 DEF NamedVariable
  <2>3. Resolved(compilers, compilers)
    BY <1>b
  <2>4. "OP_GET_LOCAL" \in OpCodeName /\ "OP_SET_LOCAL" \in OpCodeName
    BY OpCodeNames
  <2>5. QED
    BY <2>1, <2>2, <2>3, <2>4, OpType
<1>3. CASE owner # last /\ owner > 0
  <2> DEFINE chain == ResolveUpvalue(name)
             index == chain[last].index
             ds    == [k \in DOMAIN compilers |-> IF k < owner THEN compilers[k] ELSE chain[k].compiler]
  <2>1. owner \in 1..(last - 1)
    <3>1. \A o, n \in Int : o \in 0..n /\ o # n /\ o > 0 => o \in 1..(n - 1)
      OBVIOUS
    <3>2. owner \in Int /\ last \in Int
      BY <1>1
    <3> HIDE DEF owner, last
    <3>3. QED
      BY <1>1, <1>3, <3>1, <3>2
  <2>2. /\ chain[owner].compiler.upvalues = compilers[owner].upvalues
        /\ \A k \in owner..last :
             /\ Extends(compilers[k], chain[k].compiler)
             /\ chain[k].index \in Nat
             /\ IsInjective(chain[k].compiler.upvalues)
             /\ k # owner => \A i \in DOMAIN chain[k].compiler.upvalues :
                  Captured(chain[k - 1].compiler, chain[k].compiler.upvalues[i])
    BY <2>1, ChainExtends
  <2>3. /\ named.compilers = ds
        /\ named.get = OpIndex("OP_GET_UPVALUE", index)
        /\ named.set = OpIndex("OP_SET_UPVALUE", index)
    BY <1>3 DEF NamedVariable
  <2>4. DOMAIN compilers = 1..last
    OBVIOUS
  <2> HIDE DEF chain, owner
  <2>5. /\ \A k \in 1..last : k < owner => ds[k] = compilers[k]
        /\ \A k \in 1..last : ~(k < owner) => k \in owner..last /\ ds[k] = chain[k].compiler
    BY <1>1, <2>1, <2>4
  <2> HIDE DEF last, ds
  <2>6. ASSUME NEW k \in 1..last
        PROVE  Extends(compilers[k], ds[k])
    <3>1. CASE k < owner
      BY <1>1, <2>5, <3>1, ExtendsSame
    <3>2. CASE ~(k < owner)
      <4>1. k \in owner..last /\ ds[k] = chain[k].compiler
        BY <2>5, <3>2
      <4>2. Extends(compilers[k], chain[k].compiler)
        BY <2>2, <4>1
      <4>3. QED
        BY <4>1, <4>2
    <3>3. QED
      BY <3>1, <3>2
  <2>7. \A k \in 1..last : ds[k] \in CompilerType
    BY <2>6 DEF Extends
  <2>8. ds \in Seq(CompilerType) /\ Len(ds) = last
    BY <1>1, <2>4, <2>7 DEF ds
  <2>9. ASSUME NEW k \in 1..last
        PROVE  /\ ds[k].upvalues # <<>> => k > 1
               /\ \A i \in DOMAIN ds[k].upvalues : Captured(ds[k - 1], ds[k].upvalues[i])
               /\ IsInjective(ds[k].upvalues)
    <3>1. CASE k > owner
      <4>1. /\ k > 1 /\ k \in owner..last /\ k # owner /\ ~(k < owner)
            /\ k - 1 \in 1..last /\ ~(k - 1 < owner)
        BY <1>1, <2>1, <3>1
      <4>2. ds[k] = chain[k].compiler /\ ds[k - 1] = chain[k - 1].compiler
        BY <2>5, <4>1
      <4>3. QED
        BY <2>2, <4>1, <4>2
    <3>2. CASE ~(k > owner)
      <4>1. ds[k].upvalues = compilers[k].upvalues
        BY <1>1, <2>1, <2>2, <2>5, <3>2
      <4>2. /\ compilers[k].upvalues # <<>> => k > 1
            /\ \A i \in DOMAIN compilers[k].upvalues : Captured(compilers[k - 1], compilers[k].upvalues[i])
            /\ IsInjective(compilers[k].upvalues)
        BY <1>1 DEF Resolves, last
      <4>3. \A i \in DOMAIN compilers[k].upvalues : Captured(ds[k - 1], compilers[k].upvalues[i])
        <5>1. compilers[k].upvalues \in Seq(UpvalueType)
          <6>1. compilers[k] \in CompilerType
            BY <1>1
          <6>2. QED
            BY <6>1 DEF CompilerType
        <5>2. CASE compilers[k].upvalues = <<>>
          BY <5>1, <5>2
        <5>3. CASE compilers[k].upvalues # <<>>
          <6>1. k - 1 \in 1..last /\ k - 1 < owner
            BY <1>1, <2>1, <3>2, <4>2, <5>3
          <6>2. QED
            BY <2>5, <4>2, <6>1
        <5>4. QED
          BY <5>2, <5>3
      <4>4. QED
        BY <4>1, <4>2, <4>3
    <3>3. QED
      BY <3>1, <3>2
  <2>10. Resolves(ds)
    BY <2>8, <2>9 DEF Resolves
  <2>11. index \in Int
    <3>1. last \in owner..last
      BY <1>1, <2>1
    <3>2. QED
      BY <2>2, <3>1
  <2>12. "OP_GET_UPVALUE" \in OpCodeName /\ "OP_SET_UPVALUE" \in OpCodeName
    BY OpCodeNames
  <2>13. Resolved(compilers, ds)
    BY <2>6, <2>8, <2>10 DEF Resolved, last
  <2> HIDE DEF index
  <2>14. QED
    BY <2>3, <2>11, <2>12, <2>13, OpType, ZenonT(60)
<1>4. CASE owner = 0
  <2> DEFINE pooled == Pool(Cur, Name(name))
             index  == LastConstant(pooled)
  <2>1. /\ named.compilers = [compilers EXCEPT ![last] = pooled]
        /\ named.get = OpIndex("OP_GET_GLOBAL", index)
        /\ named.set = OpIndex("OP_SET_GLOBAL", index)
    BY <1>1, <1>4 DEF NamedVariable
  <2>2. Cur \in CompilerType /\ Cur = Last(compilers)
    BY <1>1 DEF Cur, Last
  <2>3. Keeps(Cur, pooled) /\ index \in Nat
    BY <1>4, <2>2, ConstantTypes, PoolKeeps
  <2> HIDE DEF pooled, index
  <2>4. Resolved(compilers, [compilers EXCEPT ![last] = pooled])
    <3>1. compilers # <<>> /\ Resolves(compilers)
      BY <1>1
    <3>2. \A d : Keeps(Last(compilers), d) => Resolved(compilers, [compilers EXCEPT ![Len(compilers)] = d])
      BY <3>1, WithLastResolved
    <3>3. QED
      BY <2>2, <2>3, <3>2
  <2>5. "OP_GET_GLOBAL" \in OpCodeName /\ "OP_SET_GLOBAL" \in OpCodeName
    BY OpCodeNames
  <2>6. index \in Int
    BY <2>3
  <2>7. QED
    BY <2>1, <2>4, <2>5, <2>6, OpType, ZenonT(60)
<1>5. owner = last \/ (owner # last /\ owner > 0) \/ owner = 0
  <2> HIDE DEF owner, last
  <2>1. QED
    BY <1>1
<1>6. QED
  BY <1>2, <1>3, <1>4, <1>5

-------------------------------------------------------------------------------
(***************************************************************************)
(* Steps of the parser.                                                    *)
(***************************************************************************)
Sound(cs) ==
  /\ cs \in Seq(CompilerType) /\ cs # <<>> /\ Resolves(cs)
  /\ \A k \in 1..Len(cs) : Scoped(cs[k])
  /\ \A k \in 1..(Len(cs) - 1) : Settled(cs[k])

\* What the invariant says of the compilers, and of the current one.
LEMMA InvariantHere ==
  ASSUME CompilerInv
  PROVE  /\ Sound(compilers) /\ Len(compilers) \in Nat \ {0}
         /\ Cur = Last(compilers) /\ Cur = compilers[Len(compilers)]
         /\ Cur \in CompilerType /\ Scoped(Cur)
         /\ rules # <<>> => Nested(rules, compilers)
         /\ Source \in Seq(SUBSET STRING) /\ Len(Source) \in Nat
         /\ MaxParameters \in Nat
         /\ length \in 0..Len(Source)
<1>1. compilers \in Seq(CompilerType) /\ compilers # <<>>
  BY DEF CompilerInv, TypeOK
<1>2. Len(compilers) \in Nat \ {0} /\ \A k \in 1..Len(compilers) : compilers[k] \in CompilerType
  BY <1>1
<1>3. /\ Cur = Last(compilers) /\ Cur = compilers[Len(compilers)]
      /\ Len(compilers) \in 1..Len(compilers)
  BY <1>2 DEF Cur, Last
<1>4. \A k \in 1..Len(compilers) : Scoped(compilers[k])
  BY <1>1, ScopedEverywhere DEF CompilerInv
<1>5. Resolves(compilers)
  BY <1>1, ResolvesHere DEF CompilerInv
<1>6. Sound(compilers)
  BY <1>1, <1>4, <1>5 DEF Sound, CompilerInv, EnclosingSettled
<1>7. grammar \in Grammars
  BY DEF CompilerInv, TypeOK
<1>8. Source \in Seq(SUBSET STRING) /\ MaxParameters \in Nat
  BY <1>7, CompilerConstants DEF Source, MaxParameters
<1>9. length \in 0..Len(Source)
  BY DEF CompilerInv, TypeOK
<1>10. rules # <<>> => Nested(rules, compilers)
  BY DEF CompilerInv, RulesNest
<1>11. QED
  BY <1>2, <1>3, <1>4, <1>6, <1>8, <1>9, <1>10

\* Enough for a step to preserve the invariant.
LEMMA Step ==
  ASSUME UNCHANGED grammar, CompilerInv, Sound(compilers'),
         rules' \in Seq(RuleType), rules' # <<>> => Nested(rules', compilers'),
         functions' \in Seq(FunctionType),
         current' \in InfixToken \cup {"other"}, length' \in 0..Len(Source),
         compilation' \in {"compiling", "compiled", "error"},
         (compilation' = "compiling") <=> (rules' # <<>>)
  PROVE  CompilerInv'
<1>1. ConstantValue' = ConstantValue /\ LocalType' = LocalType
  BY DEF ConstantValue, LocalType, Names, Members
<1>2. CompilerType' = CompilerType /\ FunctionType' = FunctionType
  BY <1>1 DEF CompilerType, FunctionType
<1>3. Source' = Source
  BY DEF Source
<1>4. TypeOK'
  BY <1>2, <1>3 DEF CompilerInv, TypeOK, Sound
<1>5. LocalsScoped'
  <2>1. DOMAIN compilers' = 1..Len(compilers')
    BY DEF Sound
  <2>2. QED
    BY <2>1 DEF Sound, LocalsScoped, Scoped
<1>6. UpvaluesResolve'
  <2>1. DOMAIN compilers' = 1..Len(compilers')
    BY DEF Sound
  <2>2. QED
    BY <2>1 DEF Sound, UpvaluesResolve, Resolves
<1>7. EnclosingSettled'
  BY DEF Sound, EnclosingSettled
<1>8. RulesNest'
  BY DEF RulesNest
<1>9. QED
  BY <1>2, <1>4, <1>5, <1>6, <1>7, <1>8 DEF CompilerInv

\* Resolving names and emitting code leaves every situation as it is.
LEMMA ResolvedSound ==
  ASSUME NEW cs, Sound(cs), NEW ds, Resolved(cs, ds)
  PROVE  /\ Sound(ds) /\ Len(ds) = Len(cs) /\ Len(ds) \in Nat \ {0}
         /\ \A m \in Situation : m.compiler \in 1..Len(cs) /\ Fits(cs, m) => Fits(ds, m)
<1>1. /\ cs \in Seq(CompilerType) /\ cs # <<>> /\ Len(cs) \in Nat \ {0}
      /\ ds \in Seq(CompilerType) /\ Len(ds) = Len(cs) /\ Resolves(ds)
      /\ ds # <<>>
  BY DEF Sound, Resolved
<1>2. ASSUME NEW k \in 1..Len(cs)
      PROVE  /\ Extends(cs[k], ds[k]) /\ Scoped(ds[k]) /\ (Settled(cs[k]) <=> Settled(ds[k]))
             /\ ds[k].locals[1].identifier_name = cs[k].locals[1].identifier_name
  <2>1. cs[k] \in CompilerType /\ Scoped(cs[k]) /\ Extends(cs[k], ds[k])
    BY <1>1 DEF Sound, Resolved
  <2>2. QED
    BY <2>1, ExtendsScoped
<1>3. Sound(ds)
  <2>1. \A k \in 1..(Len(cs) - 1) : k \in 1..Len(cs)
    BY <1>1
  <2>2. QED
    BY <1>1, <1>2, <2>1 DEF Sound
<1>4. ASSUME NEW m \in Situation, m.compiler \in 1..Len(cs), Fits(cs, m)
      PROVE  Fits(ds, m)
  <2>1. InMethod(cs, m.compiler) => InMethod(ds, m.compiler)
    <3>1. \A j \in 1..m.compiler : j \in 1..Len(cs)
      BY <1>1, <1>4
    <3>2. QED
      BY <1>2, <3>1 DEF InMethod
  <2>2. Extends(cs[m.compiler], ds[m.compiler])
         /\ (Settled(cs[m.compiler]) <=> Settled(ds[m.compiler]))
    BY <1>2, <1>4
  <2>3. QED
    BY <1>4, <2>1, <2>2 DEF Fits, Extends
<1>5. QED
  BY <1>1, <1>3, <1>4

\* Rules that end as they began are entered and ended where the innermost is.
LEMMA NeutralNested ==
  ASSUME NEW cs, Sound(cs), NEW ds, Resolved(cs, ds), NEW rest \in Seq(RuleType),
         NEW l \in Situation, l.compiler = Len(cs), Fits(cs, l), Expects(rest, cs, l),
         NEW next \in Seq(RuleType),
         \A i \in 1..Len(next) : next[i].rule \in NeutralRule /\ Accepts(next[i], l)
  PROVE  /\ next \o rest \in Seq(RuleType) /\ next \o rest # <<>>
         /\ Sound(ds) /\ Nested(next \o rest, ds)
<1>1. /\ Sound(ds) /\ Len(ds) = Len(cs) /\ Len(ds) \in Nat \ {0}
      /\ \A m \in Situation : m.compiler \in 1..Len(cs) /\ Fits(cs, m) => Fits(ds, m)
  BY ResolvedSound
<1>2. l.compiler \in 1..Len(cs)
  BY <1>1
<1>3. Fits(ds, l)
  BY <1>1, <1>2
<1>4. Expects(rest, ds, l)
  <2>1. \A m \in Situation :
          m.compiler \in 1..(l.compiler - 1) /\ Fits(cs, m) => Fits(ds, m)
    <3>1. \A k \in 1..(l.compiler - 1) : k \in 1..Len(cs)
      BY <1>1, <1>2
    <3>2. QED
      BY <1>1, <3>1
  <2>2. Len(ds) \in Nat /\ l.compiler <= Len(ds)
    BY <1>1, <1>2
  <2>3. QED
    BY <2>1, <2>2, Recompile
<1>5. Expects(next \o rest, ds, l)
  <2>1. Len(ds) \in Nat /\ l.compiler \in 1..Len(ds)
    BY <1>1, <1>2
  <2>2. QED
    BY <1>4, <2>1, EnterNeutral
<1>6. rest # <<>>
  <2>1. PICK L \in Seq(Situation) : L # <<>> /\ Situations(rest, cs, L)
    BY DEF Expects
  <2>2. Len(L) = Len(rest) /\ Len(L) # 0
    BY <2>1 DEF Situations
  <2>3. QED
    BY <2>2
<1>7. next \o rest \in Seq(RuleType) /\ next \o rest # <<>>
  BY <1>6
<1>8. QED
  BY <1>1, <1>3, <1>5, <1>7 DEF Nested

\* The rule on top has its situation, and if it is neutral, so has what is below.
LEMMA Below ==
  ASSUME CompilerInv, rules # <<>>
  PROVE  \E l \in Situation :
           /\ Expects(rules, compilers, l) /\ l.compiler = Len(compilers) /\ Fits(compilers, l)
           /\ Accepts(Head(rules), l) /\ l.depth = Cur.current_scope_depth
           /\ Head(rules).rule \in NeutralRule => Expects(Tail(rules), compilers, l)
<1>1. PICK l \in Situation :
        Expects(rules, compilers, l) /\ l.compiler = Len(compilers) /\ Fits(compilers, l)
  BY InvariantHere DEF Nested
<1>2. Accepts(Head(rules), l)
  <2>1. PICK L \in Seq(Situation) : L # <<>> /\ Situations(rules, compilers, L) /\ L[1] = l
    BY <1>1 DEF Expects
  <2>2. 1 \in 1..Len(L)
    BY <2>1
  <2>3. QED
    BY <2>1, <2>2 DEF Situations
<1>3. l.depth = Cur.current_scope_depth
  BY <1>1, InvariantHere DEF Fits
<1>4. ASSUME Head(rules).rule \in NeutralRule
      PROVE  Expects(Tail(rules), compilers, l)
  <2>1. rules \in Seq(RuleType) /\ Head(rules).rule # "script"
    BY <1>4 DEF CompilerInv, NeutralRule, ExpressionRule
  <2>2. PICK m \in Situation :
          Expects(Tail(rules), compilers, m) /\ Leads(compilers, Head(rules), l, m)
    BY <1>1, <2>1, EndRule
  <2>3. m = l
    BY <1>4, <2>2 DEF Leads, NeutralRule, ExpressionRule, ScopedRule
  <2>4. QED
    BY <2>2, <2>3
<1>5. QED
  BY <1>1, <1>2, <1>3, <1>4

Expressions(next) == \A i \in 1..Len(next) : next[i].rule \in ExpressionRule
Neutral(next) == \A i \in 1..Len(next) : next[i].rule \in NeutralRule

\* A neutral rule ends, with others to go on with.
LEMMA ContinueNeutral ==
  ASSUME CompilerInv, rules # <<>>, Head(rules).rule \in NeutralRule, UNCHANGED grammar,
         NEW ds, Resolved(compilers, ds), NEW next \in Seq(RuleType), Continue(ds, next),
         IF Head(rules).rule \in ExpressionRule THEN Expressions(next) ELSE Neutral(next),
         Head(rules).rule = "emit" => next = <<>>,
         current' \in InfixToken \cup {"other"}, length' \in 0..Len(Source)
  PROVE  CompilerInv'
<1>1. PICK l \in Situation :
        /\ l.compiler = Len(compilers) /\ Fits(compilers, l)
        /\ Accepts(Head(rules), l) /\ Expects(Tail(rules), compilers, l)
  BY Below
<1>2. rules \in Seq(RuleType) /\ Tail(rules) \in Seq(RuleType)
  BY DEF CompilerInv
<1>3. ASSUME NEW i \in 1..Len(next)
      PROVE  next[i].rule \in NeutralRule /\ Accepts(next[i], l)
  <2>1. next # <<>>
    OBVIOUS
  <2>2. l.at # "class"
    BY <1>1, <2>1 DEF Accepts, NeutralRule, ExpressionRule
  <2>3. l.at = "definition" => Head(rules).rule \in ExpressionRule
    BY <1>1 DEF Accepts, NeutralRule, ExpressionRule
  <2>4. next[i].rule \in NeutralRule
        /\ (Head(rules).rule \in ExpressionRule => next[i].rule \in ExpressionRule)
    BY DEF Expressions, Neutral, NeutralRule
  <2>5. QED
    BY <2>2, <2>3, <2>4 DEF Accepts, NeutralRule, ExpressionRule, ScopedRule
<1>4. /\ next \o Tail(rules) \in Seq(RuleType) /\ next \o Tail(rules) # <<>>
      /\ Sound(ds) /\ Nested(next \o Tail(rules), ds)
  <2>1. Sound(compilers)
    BY InvariantHere
  <2>2. QED
    BY <1>1, <1>2, <1>3, <2>1, NeutralNested
<1>5. compilation = "compiling" /\ functions \in Seq(FunctionType)
  BY DEF CompilerInv, TypeOK
<1>6. QED
  BY <1>4, <1>5, Step DEF Continue

\* Where a declaration or a statement may stand.
Place(at) == [compiler |-> Len(compilers), depth |-> Cur.current_scope_depth, at |-> at]
Rest == IF InLoop THEN rules ELSE Tail(rules)

LEMMA Beginning ==
  ASSUME CompilerInv, StatementExpected
  PROVE  /\ Place("statement") \in Situation /\ Fits(compilers, Place("statement"))
         /\ Rest \in Seq(RuleType) /\ Expects(Rest, compilers, Place("statement"))
         /\ Settled(Cur) /\ rules # <<>>
<1>1. rules # <<>> /\ Head(rules).rule \in {"script", "block", "declaration", "statement"}
  BY DEF StatementExpected, InLoop, At
<1>2. rules \in Seq(RuleType) /\ Tail(rules) \in Seq(RuleType)
  BY <1>1 DEF CompilerInv
<1>3. PICK l \in Situation :
        /\ Expects(rules, compilers, l) /\ l.compiler = Len(compilers) /\ Fits(compilers, l)
        /\ Accepts(Head(rules), l) /\ l.depth = Cur.current_scope_depth
        /\ Head(rules).rule \in NeutralRule => Expects(Tail(rules), compilers, l)
  BY <1>1, Below
<1>4. l.at = "statement"
  <2>1. l.at # "definition" /\ l.at # "class"
    BY <1>1, <1>3 DEF Accepts, ExpressionRule
  <2>2. QED
    BY <2>1 DEF Situation
<1>5. l = Place("statement")
  BY <1>3, <1>4 DEF Situation, Place
<1>6. Expects(Rest, compilers, l)
  <2>1. CASE InLoop
    BY <1>3, <2>1 DEF Rest
  <2>2. CASE ~InLoop
    <3>1. Head(rules).rule \in NeutralRule
      BY <1>1, <2>2 DEF InLoop, At, NeutralRule
    <3>2. QED
      BY <1>3, <2>2, <3>1 DEF Rest
  <2>3. QED
    BY <2>1, <2>2
<1>7. Settled(Cur)
  BY <1>3, <1>4, InvariantHere DEF Fits
<1>8. QED
  BY <1>1, <1>2, <1>3, <1>5, <1>6, <1>7 DEF Rest

LEMMA Reading ==
  ASSUME CompilerInv, UNCHANGED grammar
  PROVE  /\ Read => length' \in 0..Len(Source)
         /\ Advance => current' \in InfixToken \cup {"other"}
         /\ current \in InfixToken \cup {"other"}
<1>1. length \in 0..Len(Source) /\ Len(Source) \in Nat
  BY InvariantHere
<1>2. Read => length' \in 0..Len(Source)
  BY <1>1 DEF Read, MayRead
<1>3. QED
  BY <1>2 DEF Advance, CompilerInv, TypeOK

LEMMA Expected ==
  (DeclarationExpected => StatementExpected) /\ (ReturnExpected => StatementExpected)
BY DEF DeclarationExpected, ReturnExpected, StatementExpected

\* A statement whose rules end as they began.
LEMMA BeginNeutral ==
  ASSUME CompilerInv, StatementExpected, UNCHANGED grammar,
         NEW ds, Resolved(compilers, ds), NEW next \in Seq(RuleType), Neutral(next),
         Begin(ds, next)
  PROVE  CompilerInv'
<1>1. /\ Place("statement") \in Situation /\ Fits(compilers, Place("statement"))
      /\ Rest \in Seq(RuleType) /\ Expects(Rest, compilers, Place("statement"))
      /\ rules # <<>>
  BY Beginning
<1>2. ASSUME NEW i \in 1..Len(next)
      PROVE  next[i].rule \in NeutralRule /\ Accepts(next[i], Place("statement"))
  <2>1. next[i].rule \in NeutralRule
    BY DEF Neutral
  <2>2. QED
    BY <2>1 DEF Accepts, NeutralRule, ExpressionRule, ScopedRule, Place
<1>3. /\ next \o Rest \in Seq(RuleType) /\ next \o Rest # <<>>
      /\ Sound(ds) /\ Nested(next \o Rest, ds)
  <2>1. Sound(compilers) /\ Place("statement").compiler = Len(compilers)
    BY InvariantHere DEF Place
  <2>2. QED
    BY <1>1, <1>2, <2>1, NeutralNested
<1>4. compilation = "compiling" /\ functions \in Seq(FunctionType)
  BY <1>1 DEF CompilerInv, TypeOK
<1>5. length' \in 0..Len(Source) /\ current \in InfixToken \cup {"other"}
  BY Reading DEF Begin
<1>6. QED
  BY <1>3, <1>4, <1>5, Step DEF Begin, Rest

LEMMA LevelNames ==
  LevelName = {"ASSIGNMENT", "OR", "AND", "EQUALITY", "COMPARISON", "TERM", "FACTOR", "UNARY",
               "CALL", "PRIMARY"}
BY DEF LevelName, Precedence

LEMMA RuleTypes ==
  /\ \A r \in {"script", "declaration", "statement", "block", "function", "class", "then",
               "for", "grouping"} : Rule(r) \in RuleType /\ Rule(r).rule = r
  /\ \A bytes \in Seq(0..255) : Emits(bytes) \in RuleType /\ Emits(bytes).rule = "emit"
  /\ \A i \in Int : Patches(i) \in RuleType /\ Patches(i).rule = "patch"
  /\ \A i \in Int : [rule |-> "else", offset |-> i] \in RuleType
  /\ \A i \in Int : Defines(i) \in RuleType /\ Defines(i).rule = "define"
  /\ \A r \in {"while", "endWhile", "forIncrement", "forExit", "endFor"}, i, j \in Int :
       Loop(r, i, j) \in RuleType /\ Loop(r, i, j).rule = r
  /\ \A i, j \in Int : [rule |-> "forLoop", loop_start |-> i, body_jump |-> j] \in RuleType
  /\ \A i \in Nat : [rule |-> "argument", count |-> i] \in RuleType
  /\ \A r \in {"parsePrecedence", "infix"}, level \in LevelName :
       [rule |-> r, level |-> level] \in RuleType
  /\ Expression \in RuleType /\ Expression.rule = "parsePrecedence"
<1>1. \A r \in {"script", "declaration", "statement", "block", "function", "class", "then",
                "for", "grouping"} : Rule(r) \in RuleType /\ Rule(r).rule = r
  BY DEF RuleType, Rule
<1>2. \A bytes \in Seq(0..255) : Emits(bytes) \in RuleType /\ Emits(bytes).rule = "emit"
  BY DEF RuleType, Emits
<1>3. \A i \in Int : Patches(i) \in RuleType /\ Patches(i).rule = "patch"
  BY DEF RuleType, Patches
<1>4. \A i \in Int : [rule |-> "else", offset |-> i] \in RuleType
  BY DEF RuleType
<1>5. \A i \in Int : Defines(i) \in RuleType /\ Defines(i).rule = "define"
  BY DEF RuleType, Defines
<1>6. \A r \in {"while", "endWhile", "forIncrement", "forExit", "endFor"}, i, j \in Int :
        Loop(r, i, j) \in RuleType /\ Loop(r, i, j).rule = r
  BY DEF RuleType, Loop
<1>7. \A i, j \in Int : [rule |-> "forLoop", loop_start |-> i, body_jump |-> j] \in RuleType
  BY DEF RuleType
<1>8. \A i \in Nat : [rule |-> "argument", count |-> i] \in RuleType
  BY DEF RuleType
<1>9. \A r \in {"parsePrecedence", "infix"}, level \in LevelName : [rule |-> r, level |-> level] \in RuleType
  BY DEF RuleType
<1>10. Expression \in RuleType /\ Expression.rule = "parsePrecedence"
  <2>1. "ASSIGNMENT" \in LevelName
    BY LevelNames
  <2>2. "parsePrecedence" \in {"parsePrecedence", "infix"}
    OBVIOUS
  <2>3. QED
    BY <1>9, <2>1, <2>2 DEF Expression
<1>11. QED
  BY <1>1, <1>2, <1>3, <1>4, <1>5, <1>6, <1>7, <1>8, <1>9, <1>10

LEMMA RuleSequences ==
  /\ \A r \in RuleType :
       /\ <<r>> \in Seq(RuleType)
       /\ r.rule \in ExpressionRule => Expressions(<<r>>)
       /\ r.rule \in NeutralRule => Neutral(<<r>>)
  /\ \A r, s \in RuleType :
       /\ <<r, s>> \in Seq(RuleType)
       /\ r.rule \in ExpressionRule /\ s.rule \in ExpressionRule => Expressions(<<r, s>>)
       /\ r.rule \in NeutralRule /\ s.rule \in NeutralRule => Neutral(<<r, s>>)
  /\ \A r, s, t \in RuleType :
       /\ <<r, s, t>> \in Seq(RuleType)
       /\ r.rule \in ExpressionRule /\ s.rule \in ExpressionRule /\ t.rule \in ExpressionRule
            => Expressions(<<r, s, t>>)
       /\ r.rule \in NeutralRule /\ s.rule \in NeutralRule /\ t.rule \in NeutralRule
            => Neutral(<<r, s, t>>)
  /\ <<>> \in Seq(RuleType) /\ Expressions(<<>>) /\ Neutral(<<>>)
BY DEF Expressions, Neutral

LEMMA HereKeeps ==
  ASSUME NEW c \in CompilerType
  PROVE  Keeps(c, [c EXCEPT !.heights = @ \cup {<<Len(c.byte_code), Len(c.locals)>>}])
<1>1. <<Len(c.byte_code), Len(c.locals)>> \in Nat \X Nat /\ c.heights \subseteq Nat \X Nat
  BY DEF CompilerType
<1>2. \A new \in SUBSET (Nat \X Nat) : Keeps(c, [c EXCEPT !.heights = new])
  BY ZenonT(60) DEF CompilerType, Keeps
<1>3. c.heights \cup {<<Len(c.byte_code), Len(c.locals)>>} \in SUBSET (Nat \X Nat)
  BY <1>1
<1>4. QED
  BY <1>2, <1>3

\* The current compiler when it only emits code and adds constants.
LEMMA Emitting ==
  ASSUME CompilerInv
  PROVE  /\ \A d : Keeps(Cur, d) => Resolved(compilers, WithLast(d))
         /\ Keeps(Cur, Here) /\ Keeps(Cur, Cur)
         /\ Resolved(compilers, compilers)
<1>1. /\ Sound(compilers) /\ Cur = Last(compilers) /\ Cur \in CompilerType
      /\ compilers \in Seq(CompilerType) /\ compilers # <<>> /\ Resolves(compilers)
  BY InvariantHere DEF Sound
<1>2. \A d : Keeps(Last(compilers), d) => Resolved(compilers, [compilers EXCEPT ![Len(compilers)] = d])
  BY <1>1, WithLastResolved
<1>3. Keeps(Cur, Here)
  BY <1>1, HereKeeps DEF Here
<1>4. Resolved(compilers, compilers)
  <2>1. \A k \in 1..Len(compilers) : compilers[k] \in CompilerType
    BY <1>1
  <2>2. QED
    BY <1>1, <2>1, ExtendsSame DEF Resolved
<1>5. QED
  BY <1>1, <1>2, <1>3, <1>4, KeepsSame DEF WithLast

LEMMA ErrorStep ==
  ASSUME CompilerInv, ReportError, UNCHANGED grammar
  PROVE  CompilerInv'
<1>1. Sound(compilers) /\ length \in 0..Len(Source) /\ current \in InfixToken \cup {"other"}
  BY InvariantHere DEF CompilerInv, TypeOK
<1>2. <<>> \in Seq(RuleType) /\ functions \in Seq(FunctionType)
  BY DEF CompilerInv
<1>3. QED
  BY <1>1, <1>2, Step DEF ReportError

\* What the current compiler emits: bytes, and code for which a jump is patched.
LEMMA EmittedHere ==
  ASSUME NEW c, NEW d, Keeps(c, d)
  PROVE  /\ \A bytes \in Seq(0..255) : Keeps(c, Emit(d, bytes))
         /\ \A op \in OpCodeName : Keeps(c, Emit(d, Op(op)))
         /\ \A op \in OpCodeName, index \in Int : Keeps(c, Emit(d, OpIndex(op, index)))
         /\ \A op \in {"OP_JUMP", "OP_JUMP_IF_FALSE"} :
              Keeps(c, EmitJump(d, op)) /\ JumpOffset(EmitJump(d, op)) \in Int
         /\ \A offset \in Int : Keeps(c, PatchJump(d, offset)) /\ Keeps(c, EmitLoop(d, offset))
         /\ \A constant \in ConstantValue :
              Keeps(c, Pool(d, constant)) /\ LastConstant(Pool(d, constant)) \in Int
         /\ Len(d.byte_code) \in Int /\ Len(d.constant_pool) \in Int
<1>1. d \in CompilerType
  BY DEF Keeps
<1>2. \A bytes \in Seq(0..255) : Keeps(c, Emit(d, bytes))
  BY <1>1, EmitKeeps, KeepsTransitive
<1>3. \A op \in OpCodeName : Op(op) \in Seq(0..255)
                             /\ \A index \in Int : OpIndex(op, index) \in Seq(0..255)
  BY OpType
<1>4. \A op \in {"OP_JUMP", "OP_JUMP_IF_FALSE"} :
        Keeps(c, EmitJump(d, op)) /\ JumpOffset(EmitJump(d, op)) \in Int
  BY <1>1, EmitJumpKeeps, KeepsTransitive
<1>5. \A offset \in Int : Keeps(c, PatchJump(d, offset)) /\ Keeps(c, EmitLoop(d, offset))
  BY <1>1, PatchJumpKeeps, EmitLoopKeeps, KeepsTransitive
<1>6. \A constant \in ConstantValue :
        Keeps(c, Pool(d, constant)) /\ LastConstant(Pool(d, constant)) \in Int
  BY <1>1, PoolKeeps, KeepsTransitive
<1>7. Len(d.byte_code) \in Int /\ Len(d.constant_pool) \in Int
  BY <1>1 DEF CompilerType
<1>8. QED
  BY <1>2, <1>3, <1>4, <1>5, <1>6, <1>7

LEMMA SimpleStatementSteps ==
  ASSUME CompilerInv, UNCHANGED grammar, PrintStatement \/ ExpressionStatement
  PROVE  CompilerInv'
<1>1. ASSUME NEW op \in {"OP_PRINT", "OP_POP"}, StatementExpected,
             Begin(WithLast(Here), <<Expression, Emits(Op(op))>>)
      PROVE  CompilerInv'
  <2>1. Op(op) \in Seq(0..255)
    <3>1. op \in OpCodeName
      BY OpCodeNames
    <3>2. QED
      BY <3>1, OpType
  <2>2. /\ <<Expression, Emits(Op(op))>> \in Seq(RuleType)
        /\ Neutral(<<Expression, Emits(Op(op))>>)
    BY <2>1, RuleTypes, RuleSequences DEF NeutralRule, ExpressionRule
  <2>3. Resolved(compilers, WithLast(Here))
    BY Emitting
  <2>4. QED
    BY <1>1, <2>2, <2>3, BeginNeutral
<1>2. QED
  BY <1>1 DEF PrintStatement, ExpressionStatement

LEMMA ReturnStatementStep ==
  ASSUME CompilerInv, UNCHANGED grammar, ReturnStatement
  PROVE  CompilerInv'
<1>1. StatementExpected
  BY Expected DEF ReturnStatement
<1>2. "OP_NIL" \in OpCodeName /\ "OP_RETURN" \in OpCodeName
  BY OpCodeNames
<1>3. Op("OP_RETURN") \in Seq(0..255) /\ Op("OP_NIL") \o Op("OP_RETURN") \in Seq(0..255)
  <2>1. \A s, t \in Seq(0..255) : s \o t \in Seq(0..255)
    OBVIOUS
  <2>2. QED
    BY <1>2, <2>1, OpType
<1>4. CASE ReportError
  BY <1>4, ErrorStep
<1>5. CASE Begin(WithLast(Emit(Here, Op("OP_NIL") \o Op("OP_RETURN"))), <<>>)
  <2>1. Keeps(Cur, Emit(Here, Op("OP_NIL") \o Op("OP_RETURN")))
    BY <1>3, Emitting, EmittedHere
  <2>2. Resolved(compilers, WithLast(Emit(Here, Op("OP_NIL") \o Op("OP_RETURN"))))
    BY <2>1, Emitting
  <2>3. QED
    BY <1>1, <1>5, <2>2, BeginNeutral, RuleSequences
<1>6. CASE Begin(WithLast(Here), <<Expression, Emits(Op("OP_RETURN"))>>)
  <2>1. /\ <<Expression, Emits(Op("OP_RETURN"))>> \in Seq(RuleType)
        /\ Neutral(<<Expression, Emits(Op("OP_RETURN"))>>)
    BY <1>3, RuleTypes, RuleSequences DEF NeutralRule, ExpressionRule
  <2>2. Resolved(compilers, WithLast(Here))
    BY Emitting
  <2>3. QED
    BY <1>1, <1>6, <2>1, <2>2, BeginNeutral
<1>7. QED
  BY <1>4, <1>5, <1>6 DEF ReturnStatement

LEMMA IfWhileSteps ==
  ASSUME CompilerInv, UNCHANGED grammar, IfStatement \/ WhileStatement
  PROVE  CompilerInv'
<1>1. StatementExpected
  BY DEF IfStatement, WhileStatement
<1>2. Resolved(compilers, WithLast(Here))
  BY Emitting
<1>3. CASE Begin(WithLast(Here), <<Expression, Rule("then")>>)
  <2>1. /\ <<Expression, Rule("then")>> \in Seq(RuleType)
        /\ Neutral(<<Expression, Rule("then")>>)
    BY RuleTypes, RuleSequences DEF NeutralRule, ExpressionRule
  <2>2. QED
    BY <1>1, <1>2, <1>3, <2>1, BeginNeutral
<1>4. CASE Begin(WithLast(Here), <<Expression, Loop("while", Len(Cur.byte_code), NoExit)>>)
  <2>1. Len(Cur.byte_code) \in Int /\ NoExit \in Int
    BY Emitting, EmittedHere DEF NoExit
  <2>2. /\ Loop("while", Len(Cur.byte_code), NoExit) \in RuleType
        /\ Loop("while", Len(Cur.byte_code), NoExit).rule = "while"
    BY <2>1, RuleTypes
  <2>3. /\ <<Expression, Loop("while", Len(Cur.byte_code), NoExit)>> \in Seq(RuleType)
        /\ Neutral(<<Expression, Loop("while", Len(Cur.byte_code), NoExit)>>)
    BY <2>2, RuleTypes, RuleSequences DEF NeutralRule, ExpressionRule
  <2>4. QED
    BY <1>1, <1>2, <1>4, <2>3, BeginNeutral
<1>5. QED
  BY <1>3, <1>4 DEF IfStatement, WhileStatement

LEMMA RuleFields ==
  ASSUME NEW r \in RuleType
  PROVE  /\ r.rule = "emit" => r.bytes \in Seq(0..255)
         /\ r.rule \in {"patch", "else"} => r.offset \in Int
         /\ r.rule = "define" => r.index \in Int
         /\ r.rule \in {"while", "endWhile", "forIncrement", "forExit", "endFor"} =>
              /\ r.loop_start \in Int /\ r.exit \in Int /\ r = Loop(r.rule, r.loop_start, r.exit)
         /\ r.rule = "forLoop" => r.loop_start \in Int /\ r.body_jump \in Int
         /\ r.rule = "argument" => r.count \in Nat /\ r = [rule |-> "argument", count |-> r.count]
         /\ r.rule \in {"parsePrecedence", "infix"} =>
              r.level \in LevelName /\ r = [rule |-> r.rule, level |-> r.level]
<1>1. r.rule = "emit" => r.bytes \in Seq(0..255)
  BY DEF RuleType
<1>2. r.rule \in {"patch", "else"} => r.offset \in Int
  BY DEF RuleType
<1>3. r.rule = "define" => r.index \in Int
  BY DEF RuleType
<1>4. r.rule \in {"while", "endWhile", "forIncrement", "forExit", "endFor"} =>
        r.loop_start \in Int /\ r.exit \in Int /\ r = Loop(r.rule, r.loop_start, r.exit)
  BY DEF RuleType, Loop
<1>5. r.rule = "forLoop" => r.loop_start \in Int /\ r.body_jump \in Int
  BY DEF RuleType
<1>6. r.rule = "argument" => r.count \in Nat /\ r = [rule |-> "argument", count |-> r.count]
  BY DEF RuleType
<1>7. r.rule \in {"parsePrecedence", "infix"} =>
        r.level \in LevelName /\ r = [rule |-> r.rule, level |-> r.level]
  BY DEF RuleType
<1>8. QED
  BY <1>1, <1>2, <1>3, <1>4, <1>5, <1>6, <1>7

LEMMA HeadType ==
  ASSUME CompilerInv, rules # <<>>
  PROVE  Head(rules) \in RuleType
BY DEF CompilerInv

\* The rules a loop goes on with: the same start and exit, or another.
LEMMA LoopUpdates ==
  ASSUME NEW r \in RuleType,
         r.rule \in {"while", "endWhile", "forIncrement", "forExit", "endFor"},
         NEW new \in {"while", "endWhile", "forIncrement", "forExit", "endFor"}
  PROVE  /\ [r EXCEPT !.rule = new] = Loop(new, r.loop_start, r.exit)
         /\ \A i \in Int : [r EXCEPT !.rule = new, !.exit = i] = Loop(new, r.loop_start, i)
         /\ \A i \in Int : [Loop(new, r.loop_start, r.exit) EXCEPT !.loop_start = i]
                             = Loop(new, i, r.exit)
<1>1. /\ r = [rule |-> r.rule, loop_start |-> r.loop_start, exit |-> r.exit]
      /\ r.loop_start \in Int /\ r.exit \in Int
  BY RuleFields DEF Loop
<1>2. [r EXCEPT !.rule = new] = Loop(new, r.loop_start, r.exit)
  BY <1>1 DEF Loop
<1>3. ASSUME NEW i \in Int
      PROVE  [r EXCEPT !.rule = new, !.exit = i] = Loop(new, r.loop_start, i)
  <2> DEFINE once == [r EXCEPT !.rule = new]
             both == [r EXCEPT !.rule = new, !.exit = i]
  <2>1. both = [once EXCEPT !.exit = i]
    BY <1>1
  <2>2. once = Loop(new, r.loop_start, r.exit)
    BY <1>2
  <2> HIDE DEF once, both
  <2>3. both = Loop(new, r.loop_start, i)
    BY <2>1, <2>2 DEF Loop
  <2>4. QED
    BY <2>3 DEF both
<1>4. ASSUME NEW i \in Int
      PROVE  [Loop(new, r.loop_start, r.exit) EXCEPT !.loop_start = i] = Loop(new, i, r.exit)
  BY <1>1 DEF Loop
<1>5. QED
  BY <1>2, <1>3, <1>4

\* What the emitters of loops leave.
LEMMA LoopEmitters ==
  ASSUME NEW c, NEW d, Keeps(c, d)
  PROVE  /\ Keeps(c, ExitJump(d)) /\ ExitOffset(d) \in Int
         /\ \A r \in {"while", "endWhile", "forIncrement", "forExit", "endFor"}, i, j \in Int :
              Keeps(c, CloseLoop(d, Loop(r, i, j)))
<1>1. "OP_POP" \in OpCodeName
  BY OpCodeNames
<1>2. Keeps(c, EmitJump(d, "OP_JUMP_IF_FALSE")) /\ ExitOffset(d) \in Int
  BY EmittedHere DEF ExitOffset
<1>3. Keeps(c, ExitJump(d))
  BY <1>1, <1>2, EmittedHere DEF ExitJump
<1>4. ASSUME NEW r, NEW i \in Int, NEW j \in Int
      PROVE  Keeps(c, CloseLoop(d, Loop(r, i, j)))
  <2>1. Keeps(c, EmitLoop(d, i))
    BY EmittedHere
  <2>2. Keeps(c, PatchJump(EmitLoop(d, i), j))
    BY <2>1, EmittedHere
  <2>3. Keeps(c, Emit(PatchJump(EmitLoop(d, i), j), Op("OP_POP")))
    BY <1>1, <2>2, EmittedHere
  <2>4. Loop(r, i, j).loop_start = i /\ Loop(r, i, j).exit = j
    BY DEF Loop
  <2>5. QED
    BY <2>1, <2>3, <2>4 DEF CloseLoop
<1>5. QED
  BY <1>2, <1>3, <1>4

\* ContinueNeutral for a rule that reads nothing and only emits.
LEMMA EmitNeutral ==
  ASSUME CompilerInv, rules # <<>>, Head(rules).rule \in NeutralRule, UNCHANGED grammar,
         NEW d, Keeps(Cur, d), NEW next \in Seq(RuleType), Continue(WithLast(d), next),
         IF Head(rules).rule \in ExpressionRule THEN Expressions(next) ELSE Neutral(next),
         Head(rules).rule = "emit" => next = <<>>,
         UNCHANGED <<current, length>>
  PROVE  CompilerInv'
<1>1. Resolved(compilers, WithLast(d))
  BY Emitting
<1>2. current' \in InfixToken \cup {"other"} /\ length' \in 0..Len(Source)
  BY Reading, InvariantHere
<1>3. QED
  BY <1>1, <1>2, ContinueNeutral

LEMMA ThenStep ==
  ASSUME CompilerInv, UNCHANGED grammar, Then
  PROVE  CompilerInv'
<1> DEFINE jumping == EmitJump(Cur, "OP_JUMP_IF_FALSE")
           next == <<Rule("declaration"), [rule |-> "else", offset |-> JumpOffset(jumping)]>>
<1>1. Keeps(Cur, jumping) /\ JumpOffset(jumping) \in Int
  BY Emitting, EmittedHere
<1>2. Keeps(Cur, Emit(jumping, Op("OP_POP")))
  BY <1>1, EmittedHere, OpCodeNames
<1>3. next \in Seq(RuleType) /\ Neutral(next)
  <2>1. [rule |-> "else", offset |-> JumpOffset(jumping)] \in RuleType
    BY <1>1, RuleTypes
  <2>2. Rule("declaration") \in RuleType /\ Rule("declaration").rule \in NeutralRule
    BY RuleTypes DEF NeutralRule
  <2>3. QED
    BY <2>1, <2>2, RuleSequences DEF NeutralRule
<1>4. Continue(WithLast(Emit(jumping, Op("OP_POP"))), next) /\ UNCHANGED <<current, length>>
  BY DEF Then
<1>5. rules # <<>> /\ Head(rules).rule = "then"
  BY DEF Then, At
<1> HIDE DEF next
<1>6. QED
  BY <1>2, <1>3, <1>4, <1>5, EmitNeutral DEF NeutralRule, ExpressionRule

LEMMA ElseStep ==
  ASSUME CompilerInv, UNCHANGED grammar, Else
  PROVE  CompilerInv'
<1> DEFINE jumping   == EmitJump(Cur, "OP_JUMP")
           otherwise == Emit(PatchJump(jumping, Head(rules).offset), Op("OP_POP"))
           offset    == JumpOffset(jumping)
           next      == <<Rule("statement"), Patches(offset)>>
<1>1. rules # <<>> /\ Head(rules).rule = "else" /\ Head(rules).offset \in Int
  BY HeadType, RuleFields DEF Else, At
<1>2. Keeps(Cur, jumping) /\ offset \in Int
  BY Emitting, EmittedHere
<1>3. Keeps(Cur, otherwise) /\ Keeps(Cur, PatchJump(otherwise, offset))
  <2>1. Keeps(Cur, PatchJump(jumping, Head(rules).offset))
    BY <1>1, <1>2, EmittedHere
  <2>2. Keeps(Cur, otherwise)
    BY <2>1, EmittedHere, OpCodeNames
  <2> HIDE DEF otherwise, offset
  <2>3. QED
    BY <1>2, <2>2, EmittedHere
<1>4. next \in Seq(RuleType) /\ Neutral(next)
  BY <1>2, RuleTypes, RuleSequences DEF NeutralRule, ExpressionRule
<1>5. /\ UNCHANGED <<current, length>>
      /\ Continue(WithLast(PatchJump(otherwise, offset)), <<>>) \/ Continue(WithLast(otherwise), next)
  BY DEF Else
<1> HIDE DEF otherwise, offset, next
<1>6. QED
  BY <1>1, <1>3, <1>4, <1>5, EmitNeutral, RuleSequences DEF NeutralRule, ExpressionRule

LEMMA WhileBodyStep ==
  ASSUME CompilerInv, UNCHANGED grammar, WhileBody
  PROVE  CompilerInv'
<1> DEFINE loop == [Head(rules) EXCEPT !.rule = "endWhile", !.exit = ExitOffset(Cur)]
<1>1. rules # <<>> /\ Head(rules).rule = "while" /\ Head(rules) \in RuleType
  BY HeadType DEF WhileBody, At
<1>2. Keeps(Cur, ExitJump(Cur)) /\ ExitOffset(Cur) \in Int
  BY Emitting, LoopEmitters
<1>3. loop \in RuleType /\ loop.rule = "endWhile"
  <2>1. Head(rules).loop_start \in Int
    BY <1>1, RuleFields
  <2>2. loop = Loop("endWhile", Head(rules).loop_start, ExitOffset(Cur))
    BY <1>1, <1>2, LoopUpdates, ZenonT(60)
  <2>3. QED
    BY <1>2, <2>1, <2>2, RuleTypes
<1>4. Continue(WithLast(ExitJump(Cur)), <<Rule("statement"), loop>>) /\ UNCHANGED <<current, length>>
  BY DEF WhileBody
<1> HIDE DEF loop
<1>5. <<Rule("statement"), loop>> \in Seq(RuleType) /\ Neutral(<<Rule("statement"), loop>>)
  BY <1>3, RuleTypes, RuleSequences DEF NeutralRule
<1>6. QED
  BY <1>1, <1>2, <1>4, <1>5, EmitNeutral DEF NeutralRule, ExpressionRule

LEMMA EndWhileStep ==
  ASSUME CompilerInv, UNCHANGED grammar, EndWhile
  PROVE  CompilerInv'
<1>1. rules # <<>> /\ Head(rules).rule = "endWhile" /\ Head(rules) \in RuleType
  BY HeadType DEF EndWhile, At
<1>2. Keeps(Cur, CloseLoop(Cur, Head(rules)))
  <2>1. \E i, j \in Int : Head(rules) = Loop("endWhile", i, j)
    BY <1>1, RuleFields
  <2>2. QED
    BY <2>1, Emitting, LoopEmitters
<1>3. QED
  BY <1>1, <1>2, EmitNeutral, RuleSequences DEF EndWhile, NeutralRule, ExpressionRule

LEMMA ForLoopStep ==
  ASSUME CompilerInv, UNCHANGED grammar, ForLoop
  PROVE  CompilerInv'
<1> DEFINE looped == EmitLoop(Emit(Cur, Op("OP_POP")), Head(rules).loop_start)
<1>1. /\ rules # <<>> /\ Head(rules).rule = "forLoop"
      /\ Head(rules).loop_start \in Int /\ Head(rules).body_jump \in Int
  BY HeadType, RuleFields DEF ForLoop, At
<1>2. Keeps(Cur, Emit(Cur, Op("OP_POP")))
  BY Emitting, EmittedHere, OpCodeNames
<1>3. Keeps(Cur, looped)
  BY <1>1, <1>2, EmittedHere
<1>4. Continue(WithLast(PatchJump(looped, Head(rules).body_jump)), <<>>)
      /\ UNCHANGED <<current, length>>
  BY DEF ForLoop
<1> HIDE DEF looped
<1>5. Keeps(Cur, PatchJump(looped, Head(rules).body_jump))
  BY <1>1, <1>3, EmittedHere
<1>6. QED
  BY <1>1, <1>4, <1>5, EmitNeutral, RuleSequences DEF NeutralRule, ExpressionRule

LEMMA ExtendsTransitive ==
  ASSUME NEW c \in CompilerType, NEW d, NEW e, Extends(c, d), Extends(d, e)
  PROVE  Extends(c, e)
<1>1. d \in CompilerType /\ e \in CompilerType
  BY DEF Extends
<1>2. Len(c.upvalues) \in Nat /\ Len(d.upvalues) \in Nat /\ Len(e.upvalues) \in Nat
  <2>1. \A x \in CompilerType : x.upvalues \in Seq(UpvalueType)
    BY DEF CompilerType
  <2>2. QED
    BY <1>1, <2>1
<1>3. Len(c.upvalues) <= Len(e.upvalues)
  BY <1>2 DEF Extends
<1>4. ASSUME NEW i \in 1..Len(c.locals)
      PROVE  /\ e.locals[i].identifier_name = c.locals[i].identifier_name
             /\ e.locals[i].local_scope_depth = c.locals[i].local_scope_depth
             /\ c.locals[i].is_captured => e.locals[i].is_captured
  <2>1. i \in 1..Len(d.locals)
    BY DEF Extends
  <2>2. QED
    BY <2>1 DEF Extends
<1>5. QED
  BY <1>1, <1>3, <1>4 DEF Extends

LEMMA ResolvedThenEmit ==
  ASSUME NEW cs, NEW ds, Resolved(cs, ds), cs # <<>>, cs \in Seq(CompilerType),
         NEW bytes \in Seq(0..255)
  PROVE  Resolved(cs, EmitLast(ds, bytes))
<1> DEFINE d  == Emit(ds[Len(ds)], bytes)
           es == [ds EXCEPT ![Len(ds)] = d]
<1>1. /\ ds \in Seq(CompilerType) /\ Len(ds) = Len(cs) /\ Resolves(ds)
      /\ Len(ds) \in Nat \ {0} /\ ds # <<>> /\ Len(ds) \in 1..Len(ds)
      /\ Last(ds) = ds[Len(ds)] /\ ds[Len(ds)] \in CompilerType
  <2>1. ds \in Seq(CompilerType) /\ Len(ds) = Len(cs) /\ Resolves(ds) /\ Len(cs) \in Nat \ {0}
    BY DEF Resolved
  <2>2. ds # <<>> /\ Len(ds) \in 1..Len(ds)
    BY <2>1
  <2>3. QED
    BY <2>1, <2>2 DEF Last
<1>2. Keeps(Last(ds), d)
  BY <1>1, EmitKeeps
<1>3. EmitLast(ds, bytes) = es
  BY <1>1 DEF EmitLast
<1> HIDE DEF d
<1>4. Resolved(ds, es)
  <2>1. \A x : Keeps(Last(ds), x) => Resolved(ds, [ds EXCEPT ![Len(ds)] = x])
    BY <1>1, WithLastResolved
  <2>2. QED
    BY <1>2, <2>1
<1> HIDE DEF es
<1>5. ASSUME NEW k \in 1..Len(cs)
      PROVE  Extends(cs[k], es[k])
  <2>1. Extends(cs[k], ds[k]) /\ Extends(ds[k], es[k]) /\ cs[k] \in CompilerType
    BY <1>1, <1>4 DEF Resolved
  <2>2. QED
    BY <2>1, ExtendsTransitive
<1>6. QED
  BY <1>1, <1>3, <1>4, <1>5 DEF Resolved

\* What parsePrecedence and the infix operators go on with.
LEMMA InfixType ==
  ASSUME NEW r \in RuleType, r.rule \in {"parsePrecedence", "infix"}
  PROVE  LET infix == [r EXCEPT !.rule = "infix"]
             unary == [r EXCEPT !.level = "UNARY"]
         IN  /\ infix \in RuleType /\ infix.rule = "infix"
             /\ unary \in RuleType /\ unary.rule = r.rule
<1>1. r = [rule |-> r.rule, level |-> r.level] /\ r.level \in LevelName
  BY RuleFields
<1>2. [r EXCEPT !.rule = "infix"] = [rule |-> "infix", level |-> r.level]
  BY <1>1
<1>3. [r EXCEPT !.level = "UNARY"] = [rule |-> r.rule, level |-> "UNARY"]
  BY <1>1
<1>4. "UNARY" \in LevelName
  BY LevelNames
<1>5. /\ [rule |-> "infix", level |-> r.level] \in RuleType
      /\ [rule |-> r.rule, level |-> "UNARY"] \in RuleType
  BY <1>1, <1>4, RuleTypes
<1>6. QED
  BY <1>2, <1>3, <1>5

\* A step within an expression.
LEMMA ExpressionStep ==
  ASSUME CompilerInv, UNCHANGED grammar, rules # <<>>,
         Head(rules).rule \in ExpressionRule \ {"emit"},
         NEW ds, Resolved(compilers, ds), NEW next \in Seq(RuleType), Expressions(next),
         Continue(ds, next), current' = current \/ Advance, length' = length \/ Read
  PROVE  CompilerInv'
<1>1. current' \in InfixToken \cup {"other"} /\ length' \in 0..Len(Source)
  BY Reading, InvariantHere
<1>2. Head(rules).rule \in NeutralRule
  BY DEF NeutralRule
<1>3. QED
  BY <1>1, <1>2, ContinueNeutral

\* The step that reads an operand in full.
LEMMA TerminalStep ==
  ASSUME CompilerInv, UNCHANGED grammar, OperandExpected,
         NEW ds, Resolved(compilers, ds), Terminal(ds)
  PROVE  CompilerInv'
<1>1. rules # <<>> /\ Head(rules).rule = "parsePrecedence" /\ Head(rules) \in RuleType
  BY HeadType DEF OperandExpected, At
<1>2. Infix \in RuleType /\ Infix.rule = "infix"
  BY <1>1, InfixType DEF Infix
<1>3. <<Infix>> \in Seq(RuleType) /\ Expressions(<<Infix>>)
  BY <1>2, RuleSequences DEF ExpressionRule
<1>4. QED
  BY <1>1, <1>3, ExpressionStep DEF Terminal, ExpressionRule

LEMMA LiteralSteps ==
  ASSUME CompilerInv, UNCHANGED grammar,
         \/ \E op \in {"OP_NIL", "OP_TRUE", "OP_FALSE"} : Literal(op)
         \/ \E n \in Numbers : NumberLiteral(n)
  PROVE  CompilerInv'
<1>1. CASE \E op \in {"OP_NIL", "OP_TRUE", "OP_FALSE"} : Literal(op)
  <2>1. PICK op \in {"OP_NIL", "OP_TRUE", "OP_FALSE"} : Literal(op)
    BY <1>1
  <2>2. Keeps(Cur, Emit(Cur, Op(op)))
    BY Emitting, EmittedHere, OpCodeNames
  <2>3. Resolved(compilers, WithLast(Emit(Cur, Op(op))))
    BY <2>2, Emitting
  <2>4. QED
    BY <2>1, <2>3, TerminalStep DEF Literal
<1>2. CASE \E n \in Numbers : NumberLiteral(n)
  <2>1. PICK n \in Numbers : NumberLiteral(n)
    BY <1>2
  <2>2. Keeps(Cur, AddConstant(Cur, Number(n)))
    <3>1. Number(n) \in ConstantValue /\ "OP_CONSTANT" \in OpCodeName
      BY ConstantTypes, OpCodeNames
    <3>2. Keeps(Cur, Pool(Cur, Number(n))) /\ Len(Cur.constant_pool) \in Int
      BY <3>1, Emitting, EmittedHere
    <3>3. QED
      BY <3>1, <3>2, EmittedHere DEF AddConstant
  <2>3. Resolved(compilers, WithLast(AddConstant(Cur, Number(n))))
    BY <2>2, Emitting
  <2>4. QED
    BY <2>1, <2>3, TerminalStep DEF NumberLiteral
<1>3. QED
  BY <1>1, <1>2

LEMMA NamedHere ==
  ASSUME CompilerInv, NEW name, name \in Names \/ Owner(name) # 0
  PROVE  LET named == NamedVariable(name) IN
         /\ Resolved(compilers, named.compilers)
         /\ named.get \in Seq(0..255) /\ named.set \in Seq(0..255)
         /\ Resolved(compilers, EmitLast(named.compilers, named.get))
<1> DEFINE named == NamedVariable(name)
<1>1. /\ compilers \in Seq(CompilerType) /\ compilers # <<>>
      /\ \A k \in 1..Len(compilers) : Scoped(compilers[k])
      /\ EnclosingSettled /\ UpvaluesResolve
  BY InvariantHere DEF Sound, CompilerInv
<1>2. Resolved(compilers, named.compilers) /\ named.get \in Seq(0..255) /\ named.set \in Seq(0..255)
  BY <1>1, NamedVariableResolved
<1> HIDE DEF named
<1>3. Resolved(compilers, EmitLast(named.compilers, named.get))
  BY <1>1, <1>2, ResolvedThenEmit
<1>4. QED
  BY <1>2, <1>3 DEF named

LEMMA VariableStep ==
  ASSUME CompilerInv, UNCHANGED grammar, NEW name \in Names, Variable(name)
  PROVE  CompilerInv'
<1> DEFINE named == NamedVariable(name)
<1>1. OperandExpected
  BY DEF Variable
<1>2. rules # <<>> /\ Head(rules).rule = "parsePrecedence" /\ Head(rules) \in RuleType
  BY <1>1, HeadType DEF OperandExpected, At
<1>3. Infix \in RuleType /\ Infix.rule = "infix"
  BY <1>2, InfixType DEF Infix
<1>4. /\ Resolved(compilers, named.compilers) /\ named.set \in Seq(0..255)
      /\ Resolved(compilers, EmitLast(named.compilers, named.get))
  BY NamedHere
<1>5. \/ ReportError
      \/ Terminal(EmitLast(named.compilers, named.get))
      \/ Continue(named.compilers, <<Expression, Emits(named.set), Infix>>) /\ Read /\ UNCHANGED current
  BY DEF Variable
<1> HIDE DEF named
<1>6. /\ <<Expression, Emits(named.set), Infix>> \in Seq(RuleType)
      /\ Expressions(<<Expression, Emits(named.set), Infix>>)
  BY <1>3, <1>4, RuleTypes, RuleSequences DEF ExpressionRule
<1>7. CASE Continue(named.compilers, <<Expression, Emits(named.set), Infix>>)
           /\ Read /\ UNCHANGED current
  BY <1>2, <1>4, <1>6, <1>7, ExpressionStep DEF ExpressionRule
<1>8. QED
  BY <1>1, <1>4, <1>5, <1>7, ErrorStep, TerminalStep

\* Where this is accepted there is a method around, whose first local it is.
LEMMA ThisIsDeclared ==
  ASSUME CompilerInv, OperandExpected, Cur.within_class
  PROVE  Owner("this") # 0
<1>1. rules # <<>> /\ Head(rules).rule = "parsePrecedence"
  BY DEF OperandExpected, At
<1>2. PICK l \in Situation :
        l.compiler = Len(compilers) /\ Fits(compilers, l) /\ Accepts(Head(rules), l)
  BY <1>1, Below
<1>3. l.at # "class"
  BY <1>1, <1>2 DEF Accepts
<1>4. InMethod(compilers, Len(compilers))
  BY <1>2, <1>3, InvariantHere DEF Fits
<1>5. PICK j \in 1..Len(compilers) : compilers[j].locals[1].identifier_name = "this"
  BY <1>4 DEF InMethod
<1>6. Declares(compilers[j], "this")
  <2>1. compilers[j] \in CompilerType /\ Scoped(compilers[j])
    BY InvariantHere DEF Sound
  <2>2. 1 \in DOMAIN compilers[j].locals
    BY <2>1, LocalsOf
  <2>3. QED
    BY <1>5, <2>2 DEF Declares
<1>7. QED
  BY <1>6, OwnerDeclares, InvariantHere DEF Sound

LEMMA ThisStep ==
  ASSUME CompilerInv, UNCHANGED grammar, This
  PROVE  CompilerInv'
<1>1. OperandExpected
  BY DEF This
<1>2. CASE Cur.within_class
  <2>1. Resolved(compilers, EmitLast(NamedVariable("this").compilers, NamedVariable("this").get))
    BY <1>1, <1>2, ThisIsDeclared, NamedHere
  <2>2. QED
    BY <1>1, <1>2, <2>1, TerminalStep DEF This
<1>3. CASE ~Cur.within_class
  BY <1>3, ErrorStep DEF This
<1>4. QED
  BY <1>2, <1>3

LEMMA GroupingSteps ==
  ASSUME CompilerInv, UNCHANGED grammar, Grouping \/ EndGrouping \/ EndExpression
  PROVE  CompilerInv'
<1>1. Resolved(compilers, compilers)
  BY Emitting
<1>2. CASE Grouping
  <2>1. rules # <<>> /\ Head(rules).rule = "parsePrecedence" /\ Head(rules) \in RuleType
    BY <1>2, HeadType DEF Grouping, OperandExpected, At
  <2>2. Infix \in RuleType /\ Infix.rule = "infix"
    BY <2>1, InfixType DEF Infix
  <2>3. /\ <<Expression, Rule("grouping"), Infix>> \in Seq(RuleType)
        /\ Expressions(<<Expression, Rule("grouping"), Infix>>)
    BY <2>2, RuleTypes, RuleSequences DEF ExpressionRule
  <2>4. QED
    BY <1>1, <1>2, <2>1, <2>3, ExpressionStep DEF Grouping, ExpressionRule
<1>3. CASE EndGrouping
  <2>1. rules # <<>> /\ Head(rules).rule = "grouping"
    BY <1>3 DEF EndGrouping, At
  <2>2. QED
    BY <1>1, <1>3, <2>1, RuleSequences, ExpressionStep DEF EndGrouping, ExpressionRule
<1>4. CASE EndExpression
  <2>1. rules # <<>> /\ Head(rules).rule = "infix"
    BY <1>4 DEF EndExpression, At
  <2>2. QED
    BY <1>1, <1>4, <2>1, RuleSequences, ExpressionStep DEF EndExpression, ExpressionRule
<1>5. QED
  BY <1>2, <1>3, <1>4

LEMMA UnaryStep ==
  ASSUME CompilerInv, UNCHANGED grammar, NEW op \in {"OP_NEGATE", "OP_NOT"}, Unary(op)
  PROVE  CompilerInv'
<1> DEFINE operand == [Head(rules) EXCEPT !.level = "UNARY"]
<1>1. rules # <<>> /\ Head(rules).rule = "parsePrecedence" /\ Head(rules) \in RuleType
  BY HeadType DEF Unary, OperandExpected, At
<1>2. /\ Infix \in RuleType /\ Infix.rule = "infix"
      /\ operand \in RuleType /\ operand.rule = "parsePrecedence"
  BY <1>1, InfixType DEF Infix
<1>3. Op(op) \in Seq(0..255)
  <2>1. op \in OpCodeName
    BY OpCodeNames
  <2>2. QED
    BY <2>1, OpType
<1>4. Continue(compilers, <<operand, Emits(Op(op)), Infix>>) /\ Read /\ UNCHANGED current
  BY DEF Unary
<1> HIDE DEF operand
<1>5. /\ <<operand, Emits(Op(op)), Infix>> \in Seq(RuleType)
      /\ Expressions(<<operand, Emits(Op(op)), Infix>>)
  BY <1>2, <1>3, RuleTypes, RuleSequences DEF ExpressionRule
<1>6. QED
  BY <1>1, <1>4, <1>5, Emitting, ExpressionStep DEF ExpressionRule

LEMMA LevelOf ==
  ASSUME NEW name \in LevelName
  PROVE  Level(name) \in 1..10 /\ Precedence[Level(name)] = name
<1>1. DOMAIN Precedence = 1..10
  BY DEF Precedence
<1>2. \E i \in DOMAIN Precedence : Precedence[i] = name
  BY DEF LevelName
<1>3. Level(name) \in DOMAIN Precedence /\ Precedence[Level(name)] = name
  BY <1>2 DEF Level
<1>4. QED
  BY <1>1, <1>3

\* The level of the right operand of a binary operator, and its instruction.
LEMMA BinaryTypes ==
  ASSUME NEW token \in DOMAIN BinaryOperator
  PROVE  /\ Precedence[Binding(token) + 1] \in LevelName
         /\ BinaryOperator[token].op \in OpCodeName
<1>1. /\ BinaryOperator[token].precedence \in {"EQUALITY", "COMPARISON", "TERM", "FACTOR"}
      /\ BinaryOperator[token].op \in
           {"OP_NOT_EQUAL", "OP_EQUAL", "OP_GREATER", "OP_GREATER_EQUAL", "OP_LESS",
            "OP_LESS_EQUAL", "OP_ADD", "OP_SUBTRACT", "OP_MULTIPLY", "OP_DIVIDE"}
  BY DEF BinaryOperator
<1>2. BinaryOperator[token].op \in OpCodeName
  BY <1>1, OpCodeNames
<1>3. /\ Level(BinaryOperator[token].precedence) \in 1..10
      /\ Precedence[Level(BinaryOperator[token].precedence)] = BinaryOperator[token].precedence
  BY <1>1, LevelOf, LevelNames
<1>4. Binding(token) = Level(BinaryOperator[token].precedence)
  BY DEF Binding
<1>5. Precedence[10] = "PRIMARY" /\ DOMAIN Precedence = 1..10
  BY DEF Precedence
<1>6. Binding(token) + 1 \in DOMAIN Precedence
  <2>1. Binding(token) \in 1..10 /\ Binding(token) # 10
    BY <1>1, <1>3, <1>4, <1>5
  <2>2. QED
    BY <1>5, <2>1
<1>7. QED
  BY <1>2, <1>6 DEF LevelName

\* An infix operator whose right operand is read next.
LEMMA OperandStep ==
  ASSUME CompilerInv, UNCHANGED grammar, NEW token, InfixFollows(token),
         NEW precedence \in LevelName, NEW c, Keeps(Cur, c), NEW after \in RuleType,
         after.rule \in ExpressionRule, Operand(precedence, c, after)
  PROVE  CompilerInv'
<1> DEFINE operand == [rule |-> "parsePrecedence", level |-> precedence]
<1>1. rules # <<>> /\ Head(rules).rule = "infix" /\ Head(rules) \in RuleType
  BY HeadType DEF InfixFollows, At
<1>2. operand \in RuleType /\ operand.rule = "parsePrecedence"
  BY RuleTypes
<1>3. Continue(WithLast(c), <<operand, after, Head(rules)>>) /\ Read /\ UNCHANGED current
  BY DEF Operand
<1> HIDE DEF operand
<1>4. /\ <<operand, after, Head(rules)>> \in Seq(RuleType)
      /\ Expressions(<<operand, after, Head(rules)>>)
  BY <1>1, <1>2, RuleSequences DEF ExpressionRule
<1>5. Resolved(compilers, WithLast(c))
  BY Emitting
<1>6. QED
  BY <1>1, <1>3, <1>4, <1>5, ExpressionStep DEF ExpressionRule

LEMMA BinaryStep ==
  ASSUME CompilerInv, UNCHANGED grammar, NEW token \in DOMAIN BinaryOperator, Binary(token)
  PROVE  CompilerInv'
<1>1. Precedence[Binding(token) + 1] \in LevelName /\ BinaryOperator[token].op \in OpCodeName
  BY BinaryTypes
<1>2. Op(BinaryOperator[token].op) \in Seq(0..255)
  BY <1>1, OpType
<1>3. /\ Emits(Op(BinaryOperator[token].op)) \in RuleType
      /\ Emits(Op(BinaryOperator[token].op)).rule \in ExpressionRule
  BY <1>2, RuleTypes DEF ExpressionRule
<1>4. InfixFollows(token)
      /\ Operand(Precedence[Binding(token) + 1], Cur, Emits(Op(BinaryOperator[token].op)))
  BY DEF Binary
<1>5. QED
  BY <1>1, <1>3, <1>4, Emitting, OperandStep

LEMMA AndStep ==
  ASSUME CompilerInv, UNCHANGED grammar, And
  PROVE  CompilerInv'
<1> DEFINE jumping == EmitJump(Cur, "OP_JUMP_IF_FALSE")
<1>1. Keeps(Cur, jumping) /\ JumpOffset(jumping) \in Int
  BY Emitting, EmittedHere
<1>2. /\ InfixFollows("and")
      /\ Operand("AND", Emit(jumping, Op("OP_POP")), Patches(JumpOffset(jumping)))
  BY DEF And
<1> HIDE DEF jumping
<1>3. Keeps(Cur, Emit(jumping, Op("OP_POP")))
  BY <1>1, EmittedHere, OpCodeNames
<1>4. Patches(JumpOffset(jumping)) \in RuleType /\ Patches(JumpOffset(jumping)).rule \in ExpressionRule
  BY <1>1, RuleTypes DEF ExpressionRule
<1>5. "AND" \in LevelName
  BY LevelNames
<1>6. QED
  BY <1>2, <1>3, <1>4, <1>5, OperandStep

LEMMA OrStep ==
  ASSUME CompilerInv, UNCHANGED grammar, Or
  PROVE  CompilerInv'
<1> DEFINE falsy     == EmitJump(Cur, "OP_JUMP_IF_FALSE")
           truthy    == EmitJump(falsy, "OP_JUMP")
           otherwise == Emit(PatchJump(truthy, JumpOffset(falsy)), Op("OP_POP"))
<1>1. Keeps(Cur, falsy) /\ JumpOffset(falsy) \in Int
  BY Emitting, EmittedHere
<1>2. InfixFollows("or") /\ Operand("OR", otherwise, Patches(JumpOffset(truthy)))
  BY DEF Or
<1>3. Keeps(Cur, truthy) /\ JumpOffset(truthy) \in Int
  <2> HIDE DEF falsy
  <2>1. QED
    BY <1>1, EmittedHere
<1> HIDE DEF falsy, truthy
<1>4. Keeps(Cur, PatchJump(truthy, JumpOffset(falsy)))
  BY <1>1, <1>3, EmittedHere
<1>5. Keeps(Cur, otherwise)
  BY <1>4, EmittedHere, OpCodeNames
<1> HIDE DEF otherwise
<1>6. Patches(JumpOffset(truthy)) \in RuleType /\ Patches(JumpOffset(truthy)).rule \in ExpressionRule
  BY <1>3, RuleTypes DEF ExpressionRule
<1>7. "OR" \in LevelName
  BY LevelNames
<1>8. QED
  BY <1>2, <1>5, <1>6, <1>7, OperandStep

LEMMA CallStep ==
  ASSUME CompilerInv, UNCHANGED grammar, Call
  PROVE  CompilerInv'
<1> DEFINE argument == [rule |-> "argument", count |-> 1]
<1>1. rules # <<>> /\ Head(rules).rule = "infix" /\ Head(rules) \in RuleType
  BY HeadType DEF Call, InfixFollows, At
<1>2. Resolved(compilers, WithLast(Emit(Cur, OpIndex("OP_CALL", 0))))
  <2>1. "OP_CALL" \in OpCodeName /\ 0 \in Int
    BY OpCodeNames
  <2>2. Keeps(Cur, Emit(Cur, OpIndex("OP_CALL", 0)))
    BY <2>1, Emitting, EmittedHere
  <2>3. QED
    BY <2>2, Emitting
<1>3. argument \in RuleType /\ argument.rule = "argument"
  BY RuleTypes
<1>4. /\ Read
      /\ \/ Continue(WithLast(Emit(Cur, OpIndex("OP_CALL", 0))), <<Head(rules)>>) /\ Advance
         \/ Continue(compilers, <<Expression, argument, Head(rules)>>) /\ UNCHANGED current
  BY DEF Call
<1> HIDE DEF argument
<1>5. /\ <<Head(rules)>> \in Seq(RuleType) /\ Expressions(<<Head(rules)>>)
      /\ <<Expression, argument, Head(rules)>> \in Seq(RuleType)
      /\ Expressions(<<Expression, argument, Head(rules)>>)
  BY <1>1, <1>3, RuleTypes, RuleSequences DEF ExpressionRule
<1>6. Head(rules).rule \in ExpressionRule \ {"emit"}
  BY <1>1 DEF ExpressionRule
<1>7. CASE Continue(WithLast(Emit(Cur, OpIndex("OP_CALL", 0))), <<Head(rules)>>) /\ Advance
  BY <1>1, <1>2, <1>4, <1>5, <1>6, <1>7, ExpressionStep
<1>8. CASE Continue(compilers, <<Expression, argument, Head(rules)>>) /\ UNCHANGED current
  BY <1>1, <1>4, <1>5, <1>6, <1>8, Emitting, ExpressionStep
<1>9. QED
  BY <1>4, <1>7, <1>8

LEMMA ArgumentStep ==
  ASSUME CompilerInv, UNCHANGED grammar, Argument
  PROVE  CompilerInv'
<1> DEFINE again == [Head(rules) EXCEPT !.count = @ + 1]
           call  == Emit(Cur, OpIndex("OP_CALL", Head(rules).count))
<1>1. /\ rules # <<>> /\ Head(rules).rule = "argument" /\ Head(rules) \in RuleType
      /\ Head(rules).count \in Nat
      /\ Head(rules) = [rule |-> "argument", count |-> Head(rules).count]
  BY HeadType, RuleFields DEF Argument, At
<1>2. Resolved(compilers, WithLast(call))
  <2>1. "OP_CALL" \in OpCodeName /\ Head(rules).count \in Int
    BY <1>1, OpCodeNames
  <2>2. Keeps(Cur, call)
    BY <1>1, <2>1, Emitting, EmittedHere
  <2> HIDE DEF call
  <2>3. QED
    BY <2>2, Emitting
<1>3. again \in RuleType /\ again.rule = "argument"
  <2>1. again = [rule |-> "argument", count |-> Head(rules).count + 1]
    BY <1>1
  <2>2. Head(rules).count + 1 \in Nat
    BY <1>1
  <2> HIDE DEF again
  <2>3. QED
    BY <2>1, <2>2, RuleTypes
<1>4. /\ UNCHANGED length
      /\ \/ Continue(compilers, <<Expression, again>>) /\ UNCHANGED current
         \/ Continue(WithLast(call), <<>>) /\ Advance
  BY DEF Argument
<1> HIDE DEF again, call
<1>5. <<Expression, again>> \in Seq(RuleType) /\ Expressions(<<Expression, again>>)
  BY <1>3, RuleTypes, RuleSequences DEF ExpressionRule
<1>6. Head(rules).rule \in ExpressionRule \ {"emit"}
  BY <1>1 DEF ExpressionRule
<1>7. CASE Continue(compilers, <<Expression, again>>) /\ UNCHANGED current
  BY <1>1, <1>4, <1>5, <1>6, <1>7, Emitting, ExpressionStep
<1>8. CASE Continue(WithLast(call), <<>>) /\ Advance
  BY <1>1, <1>2, <1>4, <1>6, <1>8, RuleSequences, ExpressionStep
<1>9. QED
  BY <1>4, <1>7, <1>8

LEMMA DotStep ==
  ASSUME CompilerInv, UNCHANGED grammar, NEW name \in Members, Dot(name)
  PROVE  CompilerInv'
<1> DEFINE pooled == Pool(Cur, Name(name))
           get    == Emit(pooled, OpIndex("OP_GET_PROPERTY", LastConstant(pooled)))
           set    == Emits(OpIndex("OP_SET_PROPERTY", LastConstant(pooled)))
<1>1. rules # <<>> /\ Head(rules).rule = "infix" /\ Head(rules) \in RuleType
  BY HeadType DEF Dot, InfixFollows, At
<1>2. Keeps(Cur, pooled) /\ LastConstant(pooled) \in Int
  BY ConstantTypes, Emitting, EmittedHere
<1>3. /\ Read
      /\ \/ Continue(WithLast(get), <<Head(rules)>>) /\ Advance
         \/ Continue(WithLast(pooled), <<Expression, set, Head(rules)>>) /\ UNCHANGED current
  BY DEF Dot
<1> HIDE DEF pooled
<1>4. "OP_GET_PROPERTY" \in OpCodeName /\ "OP_SET_PROPERTY" \in OpCodeName
  BY OpCodeNames
<1>5. Keeps(Cur, get)
  BY <1>2, <1>4, EmittedHere
<1>6. set \in RuleType /\ set.rule = "emit"
  <2>1. OpIndex("OP_SET_PROPERTY", LastConstant(pooled)) \in Seq(0..255)
    BY <1>2, <1>4, OpType
  <2>2. QED
    BY <2>1, RuleTypes
<1> HIDE DEF get, set
<1>7. /\ <<Head(rules)>> \in Seq(RuleType) /\ Expressions(<<Head(rules)>>)
      /\ <<Expression, set, Head(rules)>> \in Seq(RuleType)
      /\ Expressions(<<Expression, set, Head(rules)>>)
  BY <1>1, <1>6, RuleTypes, RuleSequences DEF ExpressionRule
<1>8. Head(rules).rule \in ExpressionRule \ {"emit"}
  BY <1>1 DEF ExpressionRule
<1>9. Resolved(compilers, WithLast(get)) /\ Resolved(compilers, WithLast(pooled))
  BY <1>2, <1>5, Emitting
<1>10. CASE Continue(WithLast(get), <<Head(rules)>>) /\ Advance
  BY <1>1, <1>3, <1>7, <1>8, <1>9, <1>10, ExpressionStep
<1>11. CASE Continue(WithLast(pooled), <<Expression, set, Head(rules)>>) /\ UNCHANGED current
  BY <1>1, <1>3, <1>7, <1>8, <1>9, <1>11, ExpressionStep
<1>12. QED
  BY <1>3, <1>10, <1>11

LEMMA FinishEmitSteps ==
  ASSUME CompilerInv, UNCHANGED grammar, Finish, ~At("define")
  PROVE  CompilerInv'
<1>1. rules # <<>> /\ Head(rules) \in RuleType
  BY HeadType DEF Finish, At
<1>2. CASE At("emit") /\ Continue(WithLast(Emit(Cur, Head(rules).bytes)), <<>>)
  <2>1. Head(rules).rule = "emit" /\ Head(rules).bytes \in Seq(0..255)
    BY <1>1, <1>2, RuleFields DEF At
  <2>2. Keeps(Cur, Emit(Cur, Head(rules).bytes))
    BY <2>1, Emitting, EmittedHere
  <2>3. UNCHANGED <<current, length>>
    BY DEF Finish
  <2>4. QED
    BY <1>1, <1>2, <2>1, <2>2, <2>3, EmitNeutral, RuleSequences DEF NeutralRule, ExpressionRule
<1>3. CASE At("patch") /\ Continue(WithLast(PatchJump(Cur, Head(rules).offset)), <<>>)
  <2>1. Head(rules).rule = "patch" /\ Head(rules).offset \in Int
    BY <1>1, <1>3, RuleFields DEF At
  <2>2. Keeps(Cur, PatchJump(Cur, Head(rules).offset))
    BY <2>1, Emitting, EmittedHere
  <2>3. UNCHANGED <<current, length>>
    BY DEF Finish
  <2>4. QED
    BY <1>1, <1>3, <2>1, <2>2, <2>3, EmitNeutral, RuleSequences DEF NeutralRule, ExpressionRule
<1>4. QED
  BY <1>2, <1>3 DEF Finish

-------------------------------------------------------------------------------
(***************************************************************************)
(* Steps that change the scope, the locals or the class of the current     *)
(* compiler.                                                               *)
(***************************************************************************)
Replaces(c, d) ==
  /\ d \in CompilerType /\ Scoped(d) /\ d.upvalues = c.upvalues
  /\ d.locals[1].identifier_name = c.locals[1].identifier_name

LEMMA Replaced ==
  ASSUME NEW cs, Sound(cs), NEW d, Replaces(Last(cs), d)
  PROVE  LET ds == [cs EXCEPT ![Len(cs)] = d] IN
         /\ ds \in Seq(CompilerType) /\ ds # <<>> /\ Resolves(ds) /\ Len(ds) = Len(cs)
         /\ ds[Len(cs)] = d /\ Last(ds) = d
         /\ \A k \in 1..(Len(cs) - 1) : ds[k] = cs[k]
         /\ \A k \in 1..Len(cs) : Scoped(ds[k])
         /\ \A k \in 1..Len(cs) : InMethod(cs, k) => InMethod(ds, k)
         /\ \A m \in Situation : m.compiler \in 1..(Len(cs) - 1) /\ Fits(cs, m) => Fits(ds, m)
         /\ Sound(ds)
<1> DEFINE ds == [cs EXCEPT ![Len(cs)] = d]
<1>1. /\ cs \in Seq(CompilerType) /\ cs # <<>> /\ Resolves(cs) /\ Len(cs) \in Nat \ {0}
      /\ d \in CompilerType /\ d.upvalues = Last(cs).upvalues
      /\ Last(cs) = cs[Len(cs)]
  BY DEF Sound, Replaces, Last
<1>2. /\ ds \in Seq(CompilerType) /\ Len(ds) = Len(cs) /\ ds[Len(cs)] = d /\ Resolves(ds)
      /\ \A k \in 1..(Len(cs) - 1) : ds[k] = cs[k]
  BY <1>1, WithLastResolves
<1> HIDE DEF ds
<1>3. ds # <<>> /\ Last(ds) = d
  BY <1>1, <1>2 DEF Last
<1>4. \A k \in 1..Len(cs) : k = Len(cs) \/ k \in 1..(Len(cs) - 1)
  BY <1>1
<1>5. \A k \in 1..Len(cs) : Scoped(ds[k])
  BY <1>2, <1>4 DEF Sound, Replaces
<1>6. \A k \in 1..Len(cs) : ds[k].locals[1].identifier_name = cs[k].locals[1].identifier_name
  BY <1>1, <1>2, <1>4 DEF Replaces
<1>7. ASSUME NEW k \in 1..Len(cs)
      PROVE  InMethod(cs, k) => InMethod(ds, k)
  <2>1. \A j \in 1..k : j \in 1..Len(cs)
    BY <1>1
  <2>2. QED
    BY <1>6, <2>1 DEF InMethod
<1>8. ASSUME NEW m \in Situation, m.compiler \in 1..(Len(cs) - 1), Fits(cs, m)
      PROVE  Fits(ds, m)
  <2>1. ds[m.compiler] = cs[m.compiler] /\ m.compiler \in 1..Len(cs)
    BY <1>1, <1>2, <1>8
  <2>2. QED
    BY <1>7, <1>8, <2>1 DEF Fits
<1>9. Sound(ds)
  BY <1>2, <1>3, <1>5 DEF Sound
<1>10. QED
  BY <1>2, <1>3, <1>5, <1>7, <1>8, <1>9 DEF ds

\* The current compiler becomes d; rs is what is to do, from the situation l on.
LEMMA Moved ==
  ASSUME CompilerInv, UNCHANGED grammar, rules # <<>>,
         NEW d, Replaces(Cur, d), NEW rs \in Seq(RuleType), rs # <<>>,
         NEW l \in Situation, l.compiler = Len(compilers), Expects(rs, compilers, l),
         d.current_scope_depth = l.depth,
         IF l.at = "definition" /\ l.depth > 0 THEN Len(d.locals) > 1 ELSE Settled(d),
         d.within_class => l.at = "class" \/ InMethod(compilers, Len(compilers)),
         compilers' = WithLast(d), rules' = rs, UNCHANGED <<functions, compilation>>,
         current' \in InfixToken \cup {"other"}, length' \in 0..Len(Source)
  PROVE  CompilerInv'
<1> DEFINE ds == [compilers EXCEPT ![Len(compilers)] = d]
<1>1. Sound(compilers) /\ Len(compilers) \in Nat \ {0} /\ Cur = Last(compilers)
  BY InvariantHere
<1>2. /\ Len(ds) = Len(compilers) /\ ds[Len(compilers)] = d /\ Sound(ds)
      /\ InMethod(compilers, Len(compilers)) => InMethod(ds, Len(compilers))
      /\ \A m \in Situation :
           m.compiler \in 1..(Len(compilers) - 1) /\ Fits(compilers, m) => Fits(ds, m)
  <2>1. /\ Len(ds) = Len(compilers) /\ ds[Len(compilers)] = d /\ Sound(ds)
        /\ \A k \in 1..Len(compilers) : InMethod(compilers, k) => InMethod(ds, k)
        /\ \A m \in Situation :
             m.compiler \in 1..(Len(compilers) - 1) /\ Fits(compilers, m) => Fits(ds, m)
    BY <1>1, Replaced
  <2> HIDE DEF ds
  <2>2. Len(compilers) \in 1..Len(compilers)
    BY <1>1
  <2>3. QED
    BY <2>1, <2>2
<1> HIDE DEF ds
<1>3. Expects(rs, ds, l)
  <2>1. Len(ds) \in Nat /\ l.compiler <= Len(ds)
    BY <1>1, <1>2
  <2>2. QED
    BY <1>2, <2>1, Recompile
<1>4. Fits(ds, l)
  BY <1>2 DEF Fits
<1>5. compilers' = ds
  BY DEF WithLast, ds
<1>6. Nested(rs, ds)
  BY <1>2, <1>3, <1>4 DEF Nested
<1>7. compilation = "compiling" /\ functions \in Seq(FunctionType)
  BY DEF CompilerInv, TypeOK
<1>8. QED
  BY <1>2, <1>5, <1>6, <1>7, Step

Spot(depth, at) == [compiler |-> Len(compilers), depth |-> depth, at |-> at]

LEMMA LeadsBy ==
  ASSUME NEW cs, NEW r, NEW l, NEW m
  PROVE  /\ r.rule \in ScopedRule =>
              (Leads(cs, r, l, m) <=> m = [l EXCEPT !.depth = @ - 1])
         /\ r.rule \in {"define", "class"} =>
              (Leads(cs, r, l, m) <=> m = [l EXCEPT !.at = "statement"])
         /\ r.rule \in NeutralRule => (Leads(cs, r, l, m) <=> m = l)
         /\ r.rule = "function" =>
              (Leads(cs, r, l, m) <=> (m.compiler = l.compiler - 1 /\ Fits(cs, m)))
BY DEF Leads, ScopedRule, NeutralRule, ExpressionRule

\* What a statement finds, and what it leaves of the rules if it opens a scope.
LEMMA StatementHere ==
  ASSUME CompilerInv, StatementExpected
  PROVE  /\ Place("statement") = Spot(Cur.current_scope_depth, "statement")
         /\ Cur.current_scope_depth \in Nat
         /\ Cur.within_class => InMethod(compilers, Len(compilers))
         /\ \A depth \in Nat, at \in {"statement", "definition", "class"} :
              Spot(depth, at) \in Situation
         /\ \A r \in {"block", "for"} :
              /\ <<Rule(r)>> \o Rest \in Seq(RuleType) /\ <<Rule(r)>> \o Rest # <<>>
              /\ Expects(<<Rule(r)>> \o Rest, compilers,
                         Spot(Cur.current_scope_depth + 1, "statement"))
<1>1. /\ Len(compilers) \in Nat \ {0} /\ Cur = compilers[Len(compilers)]
      /\ Cur.current_scope_depth \in Nat
  <2>1. Cur \in CompilerType
    BY InvariantHere
  <2>2. QED
    BY <2>1, InvariantHere DEF CompilerType
<1>2. \A depth \in Nat, at \in {"statement", "definition", "class"} : Spot(depth, at) \in Situation
  BY <1>1 DEF Spot, Situation
<1>3. /\ Fits(compilers, Place("statement")) /\ Rest \in Seq(RuleType)
      /\ Expects(Rest, compilers, Place("statement"))
  BY Beginning
<1>4. Cur.within_class => InMethod(compilers, Len(compilers))
  BY <1>1, <1>3 DEF Fits, Place
<1>5. ASSUME NEW r \in {"block", "for"}
      PROVE  /\ <<Rule(r)>> \o Rest \in Seq(RuleType) /\ <<Rule(r)>> \o Rest # <<>>
             /\ Expects(<<Rule(r)>> \o Rest, compilers,
                        Spot(Cur.current_scope_depth + 1, "statement"))
  <2> DEFINE l == Spot(Cur.current_scope_depth + 1, "statement")
  <2>1. Rule(r) \in RuleType /\ Rule(r).rule = r
    BY RuleTypes
  <2>2. <<Rule(r)>> \o Rest \in Seq(RuleType) /\ <<Rule(r)>> \o Rest # <<>>
    BY <1>3, <2>1
  <2>3. l \in Situation /\ l.compiler = Len(compilers) /\ l.compiler \in 1..Len(compilers)
        /\ l.depth > 0 /\ l.at = "statement"
    <3>1. Cur.current_scope_depth + 1 \in Nat /\ Cur.current_scope_depth + 1 > 0
      BY <1>1
    <3>2. l \in Situation
      BY <1>2, <3>1
    <3>3. Len(compilers) \in 1..Len(compilers)
      BY <1>1
    <3>4. QED
      BY <3>1, <3>2, <3>3 DEF Spot
  <2>4. Accepts(Rule(r), l)
    BY <2>1, <2>3 DEF Accepts
  <2>5. [l EXCEPT !.depth = @ - 1] = Place("statement")
    BY <1>1 DEF Spot, Place
  <2>6. Place("statement").compiler <= l.compiler
    BY <1>1 DEF Place, Spot
  <2> HIDE DEF l
  <2>7. Leads(compilers, Rule(r), l, Place("statement"))
    <3>1. Rule(r).rule \in ScopedRule
      BY <2>1 DEF ScopedRule
    <3>2. QED
      BY <2>5, <3>1, LeadsBy
  <2>8. Expects(<<Rule(r)>> \o Rest, compilers, l)
    <3>1. Len(compilers) \in Nat
      BY <1>1
    <3>2. QED
      BY <1>3, <2>1, <2>3, <2>4, <2>6, <2>7, <3>1, EnterRule
  <2>9. QED
    BY <2>2, <2>8 DEF l
<1>6. Place("statement") = Spot(Cur.current_scope_depth, "statement")
  BY DEF Place, Spot
<1>7. QED
  BY <1>1, <1>2, <1>4, <1>5, <1>6

\* The scope a block or a loop begins.
LEMMA ScopedHere ==
  ASSUME CompilerInv, StatementExpected
  PROVE  LET c == BeginScope(Here) IN
         /\ Continues(Cur, Here) /\ Settled(Here)
         /\ Here.current_scope_depth = Cur.current_scope_depth
         /\ Continues(Cur, c) /\ Settled(c)
         /\ c.current_scope_depth = Cur.current_scope_depth + 1
<1>1. Cur \in CompilerType /\ Scoped(Cur) /\ Settled(Cur)
  BY InvariantHere, Beginning
<1>2. Keeps(Cur, Here)
  BY Emitting
<1>3. Continues(Cur, Here) /\ Settled(Here) /\ Here \in CompilerType /\ Scoped(Here)
      /\ Here.current_scope_depth = Cur.current_scope_depth
  BY <1>1, <1>2, KeepsContinues DEF Keeps, Continues, Settled
<1>4. LET c == BeginScope(Here) IN
      /\ Continues(Here, c) /\ c.current_scope_depth = Here.current_scope_depth + 1
      /\ c.locals = Here.locals
  BY <1>3, BeginScopeScoped
<1>5. LET c == BeginScope(Here) IN Continues(Cur, c) /\ Settled(c)
  BY <1>3, <1>4, ContinuesTransitive DEF Settled
<1>6. QED
  BY <1>3, <1>4, <1>5

LEMMA ContinuesReplaces ==
  ASSUME NEW c, NEW d, Continues(c, d)
  PROVE  Replaces(c, d) /\ d.within_class = c.within_class
BY DEF Continues, Replaces

LEMMA BlockStep ==
  ASSUME CompilerInv, UNCHANGED grammar, Block
  PROVE  CompilerInv'
<1> DEFINE d == BeginScope(Here)
           rs == <<Rule("block")>> \o Rest
           l == Spot(Cur.current_scope_depth + 1, "statement")
<1>1. StatementExpected
  BY DEF Block
<1>2. Replaces(Cur, d) /\ Settled(d) /\ d.current_scope_depth = Cur.current_scope_depth + 1
      /\ d.within_class = Cur.within_class
  BY <1>1, ScopedHere, ContinuesReplaces
<1>3. /\ rs \in Seq(RuleType) /\ rs # <<>> /\ Expects(rs, compilers, l)
      /\ Cur.within_class => InMethod(compilers, Len(compilers))
      /\ l \in Situation
  <2>1. Cur.current_scope_depth + 1 \in Nat
    BY <1>1, StatementHere
  <2>2. QED
    BY <1>1, <2>1, StatementHere
<1>4. /\ l.compiler = Len(compilers) /\ l.at = "statement"
      /\ l.depth = Cur.current_scope_depth + 1
  BY DEF Spot
<1>5. compilers' = WithLast(d) /\ rules' = rs /\ Read /\ UNCHANGED <<functions, current, compilation>>
  BY DEF Block, Begin, Rest
<1>6. rules # <<>> /\ length' \in 0..Len(Source) /\ current' \in InfixToken \cup {"other"}
  BY <1>1, <1>5, Beginning, Reading
<1> HIDE DEF d, rs, l
<1>7. QED
  BY <1>2, <1>3, <1>4, <1>5, <1>6, Moved

\* Of a rule of a scope: where it is, and what is below once the scope is left.
LEMMA InScopeRule ==
  ASSUME CompilerInv, rules # <<>>, Head(rules).rule \in ScopedRule
  PROVE  \E l, m \in Situation :
           /\ l.compiler = Len(compilers) /\ Fits(compilers, l) /\ l.at = "statement"
           /\ l.depth > 0 /\ l.depth = Cur.current_scope_depth
           /\ Expects(Tail(rules), compilers, m) /\ m = [l EXCEPT !.depth = @ - 1]
           /\ m.compiler = Len(compilers) /\ m.at = "statement" /\ m.depth = l.depth - 1
           /\ Cur.within_class => InMethod(compilers, Len(compilers))
           /\ Settled(Cur)
<1>1. rules \in Seq(RuleType) /\ Head(rules).rule # "script"
  BY DEF CompilerInv, ScopedRule
<1>2. PICK l \in Situation :
        /\ Expects(rules, compilers, l) /\ l.compiler = Len(compilers) /\ Fits(compilers, l)
        /\ Accepts(Head(rules), l) /\ l.depth = Cur.current_scope_depth
  BY Below
<1>3. l.at = "statement" /\ l.depth > 0
  <2>1. l.at # "definition" /\ l.at # "class" /\ l.depth > 0
    BY <1>2 DEF Accepts, ScopedRule, ExpressionRule
  <2>2. QED
    BY <2>1 DEF Situation
<1>4. PICK m \in Situation :
        Expects(Tail(rules), compilers, m) /\ Leads(compilers, Head(rules), l, m)
  BY <1>1, <1>2, EndRule
<1>5. m = [l EXCEPT !.depth = @ - 1]
  BY <1>4, LeadsBy
<1>6. m.compiler = Len(compilers) /\ m.at = "statement" /\ m.depth = l.depth - 1
  BY <1>2, <1>3, <1>5 DEF Situation
<1>7. Settled(Cur) /\ (Cur.within_class => InMethod(compilers, Len(compilers)))
  BY <1>2, <1>3, InvariantHere DEF Fits
<1>8. QED
  BY <1>2, <1>3, <1>4, <1>5, <1>6, <1>7

LEMMA TailType ==
  ASSUME CompilerInv, rules # <<>>, NEW cs, NEW l, Expects(Tail(rules), cs, l)
  PROVE  Tail(rules) \in Seq(RuleType) /\ Tail(rules) # <<>>
<1>1. rules \in Seq(RuleType)
  BY DEF CompilerInv
<1>2. PICK L \in Seq(Situation) : L # <<>> /\ Situations(Tail(rules), cs, L)
  BY DEF Expects
<1>3. Len(L) = Len(Tail(rules)) /\ Len(L) # 0
  BY <1>2 DEF Situations
<1>4. Tail(rules) \in Seq(RuleType)
  BY <1>1
<1>5. QED
  BY <1>3, <1>4

LEMMA LeaveScopeStep ==
  ASSUME CompilerInv, UNCHANGED grammar, rules # <<>>, Head(rules).rule \in ScopedRule,
         NEW c, Keeps(Cur, c), Continue(WithLast(EndScope(c)), <<>>),
         UNCHANGED <<current, length>>
  PROVE  CompilerInv'
<1> DEFINE d == EndScope(c)
<1>1. PICK l, m \in Situation :
        /\ l.depth > 0 /\ l.depth = Cur.current_scope_depth
        /\ Expects(Tail(rules), compilers, m)
        /\ m.compiler = Len(compilers) /\ m.at = "statement" /\ m.depth = l.depth - 1
        /\ Cur.within_class => InMethod(compilers, Len(compilers))
        /\ Settled(Cur)
  BY InScopeRule
<1>2. Cur \in CompilerType /\ Scoped(Cur)
  BY InvariantHere
<1>3. /\ c \in CompilerType /\ Scoped(c) /\ Settled(c) /\ Continues(Cur, c)
      /\ c.current_scope_depth = Cur.current_scope_depth
  BY <1>1, <1>2, KeepsContinues DEF Keeps, Continues, Settled
<1>4. Continues(c, d) /\ Settled(d) /\ d.current_scope_depth = c.current_scope_depth - 1
  BY <1>1, <1>3, EndScopeScoped
<1> HIDE DEF d
<1>5. Replaces(Cur, d) /\ d.within_class = Cur.within_class
  BY <1>3, <1>4, ContinuesTransitive, ContinuesReplaces
<1>6. Tail(rules) \in Seq(RuleType) /\ Tail(rules) # <<>>
  BY <1>1, TailType
<1>7. rules' = Tail(rules)
  BY <1>6 DEF Continue
<1>8. compilers' = WithLast(d) /\ UNCHANGED <<functions, compilation>>
  BY DEF Continue, d
<1>9. current' \in InfixToken \cup {"other"} /\ length' \in 0..Len(Source)
  BY Reading, InvariantHere
<1>10. QED
  BY <1>1, <1>3, <1>4, <1>5, <1>6, <1>7, <1>8, <1>9, Moved

LEMMA EndBlockStep ==
  ASSUME CompilerInv, UNCHANGED grammar, EndBlock
  PROVE  CompilerInv'
<1>1. rules # <<>> /\ Head(rules).rule \in ScopedRule
  BY DEF EndBlock, At, ScopedRule
<1>2. QED
  BY <1>1, Emitting, LeaveScopeStep DEF EndBlock

LEMMA EndForStep ==
  ASSUME CompilerInv, UNCHANGED grammar, EndFor
  PROVE  CompilerInv'
<1>1. rules # <<>> /\ Head(rules).rule = "endFor" /\ Head(rules) \in RuleType
  BY HeadType DEF EndFor, At
<1>2. Keeps(Cur, CloseLoop(Cur, Head(rules)))
  <2>1. \E i, j \in Int : Head(rules) = Loop("endFor", i, j)
    BY <1>1, RuleFields
  <2>2. QED
    BY <2>1, Emitting, LoopEmitters
<1>3. Head(rules).rule \in ScopedRule
  BY <1>1 DEF ScopedRule
<1>4. QED
  BY <1>1, <1>2, <1>3, LeaveScopeStep DEF EndFor

\* From one rule of the loop to the next, r, with neutral ones in between.
LEMMA WithinForStep ==
  ASSUME CompilerInv, UNCHANGED grammar, rules # <<>>, Head(rules).rule \in ScopedRule,
         NEW ds, Resolved(compilers, ds), NEW next \in Seq(RuleType), Neutral(next),
         NEW r \in RuleType, r.rule \in ScopedRule,
         Continue(ds, next \o <<r>>), UNCHANGED <<current, length>>
  PROVE  CompilerInv'
<1>1. PICK l, m \in Situation :
        /\ l.compiler = Len(compilers) /\ Fits(compilers, l) /\ l.at = "statement"
        /\ l.depth > 0 /\ Expects(Tail(rules), compilers, m) /\ m = [l EXCEPT !.depth = @ - 1]
        /\ m.compiler = Len(compilers)
  BY InScopeRule
<1>2. Tail(rules) \in Seq(RuleType)
  BY <1>1, TailType
<1>3. Sound(compilers) /\ Len(compilers) \in Nat \ {0}
  BY InvariantHere
<1>4. Expects(<<r>> \o Tail(rules), compilers, l)
  <2>1. Accepts(r, l)
    BY <1>1 DEF Accepts, ScopedRule
  <2>2. Leads(compilers, r, l, m)
    BY <1>1, LeadsBy
  <2>3. l.compiler \in 1..Len(compilers) /\ m.compiler <= l.compiler /\ Len(compilers) \in Nat
    BY <1>1, <1>3
  <2>4. QED
    BY <1>1, <1>2, <2>1, <2>2, <2>3, EnterRule
<1>5. <<r>> \o Tail(rules) \in Seq(RuleType)
  BY <1>2
<1>6. ASSUME NEW i \in 1..Len(next)
      PROVE  next[i].rule \in NeutralRule /\ Accepts(next[i], l)
  <2>1. next[i].rule \in NeutralRule
    BY DEF Neutral
  <2>2. QED
    BY <1>1, <2>1 DEF Accepts, NeutralRule, ExpressionRule, ScopedRule
<1>7. /\ next \o (<<r>> \o Tail(rules)) \in Seq(RuleType)
      /\ next \o (<<r>> \o Tail(rules)) # <<>>
      /\ Sound(ds) /\ Nested(next \o (<<r>> \o Tail(rules)), ds)
  BY <1>1, <1>3, <1>4, <1>5, <1>6, NeutralNested
<1>8. (next \o <<r>>) \o Tail(rules) = next \o (<<r>> \o Tail(rules))
  <2>1. <<r>> \in Seq(RuleType)
    OBVIOUS
  <2>2. QED
    BY <1>2, <2>1, ConcatAssociative
<1>9. /\ compilation = "compiling" /\ functions \in Seq(FunctionType)
      /\ length \in 0..Len(Source) /\ current \in InfixToken \cup {"other"}
  BY DEF CompilerInv, TypeOK
<1>10. QED
  BY <1>7, <1>8, <1>9, Step DEF Continue

LEMMA ForConditionStep ==
  ASSUME CompilerInv, UNCHANGED grammar, ForCondition
  PROVE  CompilerInv'
<1> DEFINE increment == Loop("forIncrement", Len(Cur.byte_code), NoExit)
           exit == Loop("forExit", Len(Cur.byte_code), NoExit)
<1>1. rules # <<>> /\ Head(rules).rule \in ScopedRule
  BY DEF ForCondition, At, ScopedRule
<1>2. Len(Cur.byte_code) \in Int /\ NoExit \in Int
  BY Emitting, EmittedHere DEF NoExit
<1>3. /\ increment \in RuleType /\ increment.rule \in ScopedRule
      /\ exit \in RuleType /\ exit.rule \in ScopedRule
  BY <1>2, RuleTypes DEF ScopedRule
<1>4. /\ UNCHANGED <<current, length>>
      /\ Continue(compilers, <<increment>>) \/ Continue(compilers, <<Expression, exit>>)
  BY DEF ForCondition
<1> HIDE DEF increment, exit
<1>5. <<increment>> = <<>> \o <<increment>> /\ <<Expression, exit>> = <<Expression>> \o <<exit>>
  OBVIOUS
<1>6. <<Expression>> \in Seq(RuleType) /\ Neutral(<<Expression>>)
  BY RuleTypes, RuleSequences DEF NeutralRule, ExpressionRule
<1>7. Resolved(compilers, compilers)
  BY Emitting
<1>8. CASE Continue(compilers, <<increment>>)
  <2>1. Continue(compilers, <<>> \o <<increment>>)
    BY <1>5, <1>8
  <2>2. QED
    BY <1>1, <1>3, <1>4, <1>7, <2>1, RuleSequences, WithinForStep
<1>9. CASE Continue(compilers, <<Expression, exit>>)
  <2>1. Continue(compilers, <<Expression>> \o <<exit>>)
    BY <1>5, <1>9
  <2>2. QED
    BY <1>1, <1>3, <1>4, <1>6, <1>7, <2>1, WithinForStep
<1>10. QED
  BY <1>4, <1>8, <1>9

LEMMA ForExitStep ==
  ASSUME CompilerInv, UNCHANGED grammar, ForExit
  PROVE  CompilerInv'
<1> DEFINE increment == [Head(rules) EXCEPT !.rule = "forIncrement", !.exit = ExitOffset(Cur)]
<1>1. rules # <<>> /\ Head(rules).rule = "forExit" /\ Head(rules) \in RuleType
  BY HeadType DEF ForExit, At
<1>2. Keeps(Cur, ExitJump(Cur)) /\ ExitOffset(Cur) \in Int
  BY Emitting, LoopEmitters
<1>3. increment \in RuleType /\ increment.rule = "forIncrement"
  <2>1. Head(rules).loop_start \in Int
    BY <1>1, RuleFields
  <2>2. increment = Loop("forIncrement", Head(rules).loop_start, ExitOffset(Cur))
    BY <1>1, <1>2, LoopUpdates
  <2>3. QED
    BY <1>2, <2>1, <2>2, RuleTypes
<1>4. Continue(WithLast(ExitJump(Cur)), <<increment>>) /\ UNCHANGED <<current, length>>
  BY DEF ForExit
<1> HIDE DEF increment
<1>5. <<increment>> = <<>> \o <<increment>>
  OBVIOUS
<1>6. Continue(WithLast(ExitJump(Cur)), <<>> \o <<increment>>)
  BY <1>4, <1>5
<1>7. Resolved(compilers, WithLast(ExitJump(Cur)))
  BY <1>2, Emitting
<1>8. QED
  BY <1>1, <1>3, <1>4, <1>6, <1>7, RuleSequences, WithinForStep DEF ScopedRule

LEMMA ForIncrementStep ==
  ASSUME CompilerInv, UNCHANGED grammar, ForIncrement
  PROVE  CompilerInv'
<1> DEFINE body    == [Head(rules) EXCEPT !.rule = "endFor"]
           jumping == EmitJump(Cur, "OP_JUMP")
           loop    == [rule |-> "forLoop", loop_start |-> body.loop_start,
                       body_jump |-> JumpOffset(jumping)]
           jumped  == [body EXCEPT !.loop_start = Len(jumping.byte_code)]
<1>1. /\ rules # <<>> /\ Head(rules).rule = "forIncrement" /\ Head(rules) \in RuleType
      /\ Head(rules).loop_start \in Int /\ Head(rules).exit \in Int
  BY HeadType, RuleFields DEF ForIncrement, At
<1>2. Keeps(Cur, jumping) /\ JumpOffset(jumping) \in Int
  BY Emitting, EmittedHere
<1>3. /\ UNCHANGED <<current, length>>
      /\ \/ Continue(compilers, <<Rule("statement"), body>>)
         \/ Continue(WithLast(jumping), <<Expression, loop, Rule("statement"), jumped>>)
  BY DEF ForIncrement
<1> HIDE DEF jumping
<1>4. Len(jumping.byte_code) \in Int
  BY <1>2, EmittedHere
<1>5. body = Loop("endFor", Head(rules).loop_start, Head(rules).exit)
  BY <1>1, LoopUpdates
<1>6. body \in RuleType /\ body.rule = "endFor" /\ body.loop_start \in Int
  <2> HIDE DEF body
  <2>1. body \in RuleType /\ body.rule = "endFor"
    BY <1>1, <1>5, RuleTypes
  <2>2. QED
    BY <2>1, RuleFields
<1>7. loop \in RuleType /\ loop.rule = "forLoop"
  <2> HIDE DEF body
  <2>1. QED
    BY <1>2, <1>6, RuleTypes
<1>8. jumped \in RuleType /\ jumped.rule = "endFor"
  <2>1. jumped = Loop("endFor", Len(jumping.byte_code), Head(rules).exit)
    <3>1. \A i \in Int :
            [Loop("endFor", Head(rules).loop_start, Head(rules).exit) EXCEPT !.loop_start = i]
              = Loop("endFor", i, Head(rules).exit)
      BY <1>1, LoopUpdates
    <3> HIDE DEF body
    <3>2. QED
      BY <1>4, <1>5, <3>1, ZenonT(60)
  <2> HIDE DEF jumped
  <2>2. QED
    BY <1>1, <1>4, <2>1, RuleTypes
<1> HIDE DEF body, loop, jumped
<1>9. /\ <<Rule("statement"), body>> = <<Rule("statement")>> \o <<body>>
      /\ <<Expression, loop, Rule("statement"), jumped>>
           = <<Expression, loop, Rule("statement")>> \o <<jumped>>
  OBVIOUS
<1>10. /\ <<Rule("statement")>> \in Seq(RuleType) /\ Neutral(<<Rule("statement")>>)
       /\ <<Expression, loop, Rule("statement")>> \in Seq(RuleType)
       /\ Neutral(<<Expression, loop, Rule("statement")>>)
  BY <1>7, RuleTypes, RuleSequences DEF NeutralRule, ExpressionRule
<1>11. /\ Head(rules).rule \in ScopedRule
       /\ body.rule \in ScopedRule /\ jumped.rule \in ScopedRule
  BY <1>1, <1>6, <1>8 DEF ScopedRule
<1>12. Resolved(compilers, compilers) /\ Resolved(compilers, WithLast(jumping))
  BY <1>2, Emitting
<1>13. CASE Continue(compilers, <<Rule("statement"), body>>)
  <2>1. Continue(compilers, <<Rule("statement")>> \o <<body>>)
    BY <1>9, <1>13
  <2>2. QED
    BY <1>1, <1>3, <1>6, <1>10, <1>11, <1>12, <2>1, WithinForStep
<1>14. CASE Continue(WithLast(jumping), <<Expression, loop, Rule("statement"), jumped>>)
  <2>1. Continue(WithLast(jumping), <<Expression, loop, Rule("statement")>> \o <<jumped>>)
    BY <1>9, <1>14
  <2>2. QED
    BY <1>1, <1>3, <1>8, <1>10, <1>11, <1>12, <2>1, WithinForStep
<1>15. QED
  BY <1>3, <1>13, <1>14

LEMMA FinishDefineStep ==
  ASSUME CompilerInv, UNCHANGED grammar, Finish, At("define")
  PROVE  CompilerInv'
<1> DEFINE d == DefineVariable(Cur, Head(rules).index)
<1>1. /\ rules # <<>> /\ Head(rules).rule = "define" /\ Head(rules).index \in Int
      /\ rules \in Seq(RuleType)
  BY HeadType, RuleFields DEF At, CompilerInv
<1>2. PICK l \in Situation :
        /\ Expects(rules, compilers, l) /\ l.compiler = Len(compilers) /\ Fits(compilers, l)
        /\ Accepts(Head(rules), l) /\ l.depth = Cur.current_scope_depth
  BY <1>1, Below
<1>3. l.at = "definition"
  BY <1>1, <1>2 DEF Accepts
<1>4. PICK m \in Situation :
        Expects(Tail(rules), compilers, m) /\ Leads(compilers, Head(rules), l, m)
  BY <1>1, <1>2, EndRule
<1>5. m = [l EXCEPT !.at = "statement"]
  BY <1>1, <1>4, LeadsBy
<1>6. m.compiler = Len(compilers) /\ m.at = "statement" /\ m.depth = l.depth /\ l.depth \in Nat
  BY <1>2, <1>5 DEF Situation
<1>7. /\ IF Cur.current_scope_depth > 0 THEN Len(Cur.locals) > 1 ELSE Settled(Cur)
      /\ Cur.within_class => InMethod(compilers, Len(compilers))
  BY <1>2, <1>3, InvariantHere DEF Fits
<1>8. /\ Continues(Cur, d) /\ Settled(d) /\ d.current_scope_depth = Cur.current_scope_depth
  <2>1. Cur \in CompilerType /\ Scoped(Cur)
    BY InvariantHere
  <2>2. QED
    BY <1>1, <1>7, <2>1, DefineVariableScoped
<1>9. Continue(WithLast(d), <<>>) /\ UNCHANGED <<current, length>>
  BY <1>1 DEF Finish, At
<1>10. Tail(rules) \in Seq(RuleType) /\ Tail(rules) # <<>>
  BY <1>1, <1>4, TailType
<1> HIDE DEF d
<1>11. Replaces(Cur, d) /\ d.within_class = Cur.within_class
  BY <1>8, ContinuesReplaces
<1>12. rules' = Tail(rules) /\ compilers' = WithLast(d) /\ UNCHANGED <<functions, compilation>>
  BY <1>9, <1>10 DEF Continue
<1>13. current' \in InfixToken \cup {"other"} /\ length' \in 0..Len(Source)
  BY <1>9, Reading, InvariantHere
<1>14. QED
  BY <1>1, <1>2, <1>4, <1>6, <1>7, <1>8, <1>10, <1>11, <1>12, <1>13, Moved

\* variableDeclaration, at whatever depth c is, before what is to do next.
LEMMA DeclareAndStep ==
  ASSUME CompilerInv, UNCHANGED grammar, StatementExpected,
         NEW c, Continues(Cur, c), Settled(c), NEW name \in Names, NEW next \in Seq(RuleType),
         LET l == Spot(c.current_scope_depth, "statement") IN
           l \in Situation /\ Expects(next \o Rest, compilers, l),
         DeclareAnd(c, name, next)
  PROVE  CompilerInv'
<1> DEFINE parsed == ParseVariable(c, name)
           index  == VariableIndex(parsed)
           niled  == Emit(parsed, Op("OP_NIL"))
           d      == DefineVariable(niled, index)
           depth  == c.current_scope_depth
           l      == Spot(depth, "statement")
           m      == Spot(depth, "definition")
<1>1. c \in CompilerType /\ Scoped(c) /\ Continues(Cur, c)
  BY DEF Continues
<1>2. /\ Continues(c, parsed) /\ index \in Int /\ parsed.current_scope_depth = depth
      /\ IF depth > 0 THEN Len(parsed.locals) > 1 ELSE Settled(parsed)
  BY <1>1, ParseVariableScoped
<1>3. \/ Begin(WithLast(d), next)
      \/ Begin(WithLast(parsed), <<Expression, Defines(index)>> \o next)
  BY DEF DeclareAnd
<1> HIDE DEF parsed, index
<1>4. parsed \in CompilerType /\ Scoped(parsed)
  BY <1>2 DEF Continues
<1>5. /\ Keeps(parsed, niled) /\ Continues(parsed, niled) /\ niled.current_scope_depth = depth
      /\ niled \in CompilerType /\ Scoped(niled)
      /\ IF depth > 0 THEN Len(niled.locals) > 1 ELSE Settled(niled)
  <2>1. Keeps(parsed, niled)
    BY <1>4, KeepsSame, EmittedHere, OpCodeNames
  <2>2. Continues(parsed, niled)
    BY <1>4, <2>1, KeepsContinues
  <2>3. QED
    BY <1>2, <2>1, <2>2 DEF Keeps, Continues, Settled
<1> HIDE DEF niled
<1>6. Continues(niled, d) /\ Settled(d) /\ d.current_scope_depth = depth
  BY <1>2, <1>5, DefineVariableScoped
<1> HIDE DEF d
<1>7. /\ Replaces(Cur, d) /\ d.within_class = Cur.within_class
      /\ Replaces(Cur, parsed) /\ parsed.within_class = Cur.within_class
  <2>1. Continues(Cur, parsed)
    BY <1>1, <1>2, ContinuesTransitive
  <2>2. Continues(Cur, d)
    BY <1>5, <1>6, <2>1, ContinuesTransitive
  <2>3. QED
    BY <2>1, <2>2, ContinuesReplaces
<1>8. /\ l \in Situation /\ Expects(next \o Rest, compilers, l)
      /\ l.compiler = Len(compilers) /\ l.depth = depth /\ l.at = "statement"
      /\ Cur.within_class => InMethod(compilers, Len(compilers))
      /\ rules # <<>> /\ Rest \in Seq(RuleType)
  BY StatementHere, Beginning DEF Spot
<1>9. /\ next \o Rest \in Seq(RuleType) /\ next \o Rest # <<>>
  <2>1. PICK L \in Seq(Situation) : L # <<>> /\ Situations(next \o Rest, compilers, L)
    BY <1>8 DEF Expects
  <2>2. Len(L) = Len(next \o Rest) /\ Len(L) # 0
    BY <2>1 DEF Situations
  <2>3. next \o Rest \in Seq(RuleType)
    BY <1>8
  <2>4. QED
    BY <2>2, <2>3
<1>10. ASSUME Read /\ UNCHANGED <<functions, current, compilation>>
       PROVE  /\ UNCHANGED <<functions, compilation>>
              /\ current' \in InfixToken \cup {"other"} /\ length' \in 0..Len(Source)
  BY <1>10, Reading
<1>11. CASE Begin(WithLast(d), next)
  <2>1. compilers' = WithLast(d) /\ rules' = next \o Rest
    BY <1>11 DEF Begin, Rest
  <2> HIDE DEF l
  <2>2. QED
    BY <1>6, <1>7, <1>8, <1>9, <1>10, <1>11, <2>1, Moved DEF Begin
<1>12. CASE Begin(WithLast(parsed), <<Expression, Defines(index)>> \o next)
  <2> DEFINE rs == <<Expression>> \o (<<Defines(index)>> \o (next \o Rest))
  <2>1. /\ Expression \in RuleType /\ Expression.rule = "parsePrecedence"
        /\ Defines(index) \in RuleType /\ Defines(index).rule = "define"
    BY <1>2, RuleTypes
  <2>2. m \in Situation /\ m.compiler = Len(compilers) /\ m.depth = depth /\ m.at = "definition"
    <3>1. depth \in Nat
      BY <1>1 DEF CompilerType
    <3>2. QED
      BY <3>1, StatementHere DEF Spot
  <2>3. [m EXCEPT !.at = "statement"] = l
    BY DEF Spot
  <2> HIDE DEF l, m
  <2>4. m.compiler \in 1..Len(compilers) /\ l.compiler <= m.compiler /\ m.compiler <= m.compiler
        /\ Len(compilers) \in Nat
    BY <1>8, <2>2, InvariantHere
  <2>5. Expects(<<Defines(index)>> \o (next \o Rest), compilers, m)
    <3>1. Accepts(Defines(index), m)
      BY <2>1, <2>2 DEF Accepts, ExpressionRule, ScopedRule
    <3>2. Leads(compilers, Defines(index), m, l)
      BY <2>1, <2>3, LeadsBy
    <3>3. QED
      BY <1>8, <1>9, <2>1, <2>2, <2>4, <3>1, <3>2, EnterRule
  <2>6. <<Defines(index)>> \o (next \o Rest) \in Seq(RuleType)
    BY <1>9, <2>1
  <2>7. Expects(rs, compilers, m)
    <3>1. Accepts(Expression, m)
      BY <2>1, <2>2 DEF Accepts, ExpressionRule, ScopedRule
    <3>2. Leads(compilers, Expression, m, m)
      BY <2>1, LeadsBy DEF NeutralRule, ExpressionRule
    <3>3. QED
      BY <2>1, <2>2, <2>4, <2>5, <2>6, <3>1, <3>2, EnterRule
  <2>8. rs \in Seq(RuleType) /\ rs # <<>>
    BY <2>1, <2>6
  <2>9. (<<Expression, Defines(index)>> \o next) \o Rest = rs
    <3>1. <<Expression>> \in Seq(RuleType) /\ <<Defines(index)>> \in Seq(RuleType)
          /\ <<Expression, Defines(index)>> = <<Expression>> \o <<Defines(index)>>
      BY <2>1
    <3>2. <<Defines(index)>> \o next \in Seq(RuleType)
      BY <3>1
    <3>3. <<Expression, Defines(index)>> \o next = <<Expression>> \o (<<Defines(index)>> \o next)
      BY <3>1, ConcatAssociative
    <3>4. (<<Expression>> \o (<<Defines(index)>> \o next)) \o Rest
            = <<Expression>> \o ((<<Defines(index)>> \o next) \o Rest)
      BY <1>8, <3>1, <3>2, ConcatAssociative
    <3>5. (<<Defines(index)>> \o next) \o Rest = <<Defines(index)>> \o (next \o Rest)
      BY <1>8, <3>1, ConcatAssociative
    <3>6. QED
      BY <3>3, <3>4, <3>5
  <2>10. compilers' = WithLast(parsed) /\ rules' = rs
    BY <1>12, <2>9 DEF Begin, Rest
  <2> HIDE DEF rs
  <2>11. QED
    BY <1>2, <1>7, <1>8, <1>10, <1>12, <2>2, <2>7, <2>8, <2>10, Moved DEF Begin
<1>13. QED
  BY <1>3, <1>11, <1>12

LEMMA VariableDeclarationStep ==
  ASSUME CompilerInv, UNCHANGED grammar, NEW name \in Names, VariableDeclaration(name)
  PROVE  CompilerInv'
<1>1. StatementExpected
  BY Expected DEF VariableDeclaration
<1>2. CASE ReportError
  BY <1>2, ErrorStep
<1>3. CASE DeclareAnd(Here, name, <<>>)
  <2>1. /\ Continues(Cur, Here) /\ Settled(Here)
        /\ Here.current_scope_depth = Cur.current_scope_depth
    BY <1>1, ScopedHere
  <2>2. /\ Place("statement") = Spot(Cur.current_scope_depth, "statement")
        /\ Place("statement") \in Situation
        /\ Rest \in Seq(RuleType) /\ Expects(Rest, compilers, Place("statement"))
    BY <1>1, StatementHere, Beginning
  <2>3. <<>> \o Rest = Rest /\ <<>> \in Seq(RuleType)
    BY <2>2
  <2>4. QED
    BY <1>1, <1>3, <2>1, <2>2, <2>3, DeclareAndStep
<1>4. QED
  BY <1>2, <1>3 DEF VariableDeclaration

LEMMA ForStatementStep ==
  ASSUME CompilerInv, UNCHANGED grammar, ForStatement
  PROVE  CompilerInv'
<1> DEFINE c  == BeginScope(Here)
           rs == <<Rule("for")>> \o Rest
           l  == Spot(Cur.current_scope_depth + 1, "statement")
           initializer == <<Expression, Emits(Op("OP_POP"))>>
<1>1. StatementExpected
  BY DEF ForStatement
<1>2. /\ Continues(Cur, c) /\ Settled(c) /\ c.current_scope_depth = Cur.current_scope_depth + 1
      /\ Replaces(Cur, c) /\ c.within_class = Cur.within_class
  BY <1>1, ScopedHere, ContinuesReplaces
<1>3. /\ rs \in Seq(RuleType) /\ rs # <<>> /\ Expects(rs, compilers, l)
      /\ Cur.within_class => InMethod(compilers, Len(compilers))
      /\ l \in Situation
  <2>1. Cur.current_scope_depth + 1 \in Nat
    BY <1>1, StatementHere
  <2>2. QED
    BY <1>1, <2>1, StatementHere
<1>4. /\ l.compiler = Len(compilers) /\ l.at = "statement"
      /\ l.depth = Cur.current_scope_depth + 1 /\ Rest \in Seq(RuleType)
      /\ rules # <<>> /\ Len(compilers) \in Nat \ {0}
  BY <1>1, Beginning, InvariantHere DEF Spot
<1>5. \/ Begin(WithLast(c), <<Rule("for")>>)
      \/ \E name \in Names : DeclareAnd(c, name, <<Rule("for")>>)
      \/ Begin(WithLast(c), <<Expression, Emits(Op("OP_POP")), Rule("for")>>)
  BY DEF ForStatement
<1>6. Rule("for") \in RuleType /\ <<Rule("for")>> \in Seq(RuleType)
  BY RuleTypes, RuleSequences
<1>7. ASSUME Read /\ UNCHANGED <<functions, current, compilation>>
      PROVE  /\ UNCHANGED <<functions, compilation>>
             /\ current' \in InfixToken \cup {"other"} /\ length' \in 0..Len(Source)
  BY <1>7, Reading
<1> HIDE DEF c
<1>8. CASE Begin(WithLast(c), <<Rule("for")>>)
  <2>1. compilers' = WithLast(c) /\ rules' = rs
    BY <1>8 DEF Begin, Rest
  <2> HIDE DEF rs, l
  <2>2. QED
    BY <1>2, <1>3, <1>4, <1>7, <1>8, <2>1, Moved DEF Begin
<1>9. CASE \E name \in Names : DeclareAnd(c, name, <<Rule("for")>>)
  <2>1. PICK name \in Names : DeclareAnd(c, name, <<Rule("for")>>)
    BY <1>9
  <2>2. Spot(c.current_scope_depth, "statement") = l
    BY <1>2
  <2>3. QED
    BY <1>1, <1>2, <1>3, <1>6, <2>1, <2>2, DeclareAndStep
<1>10. CASE Begin(WithLast(c), <<Expression, Emits(Op("OP_POP")), Rule("for")>>)
  <2>1. Op("OP_POP") \in Seq(0..255)
    BY OpType, OpCodeNames
  <2>2. /\ Emits(Op("OP_POP")) \in RuleType /\ Emits(Op("OP_POP")).rule = "emit"
        /\ Expression \in RuleType /\ Expression.rule = "parsePrecedence"
    BY <2>1, RuleTypes
  <2>3. initializer \in Seq(RuleType) /\ Neutral(initializer)
    BY <2>2, RuleSequences DEF NeutralRule, ExpressionRule
  <2>4. <<Expression, Emits(Op("OP_POP")), Rule("for")>> = initializer \o <<Rule("for")>>
    OBVIOUS
  <2> HIDE DEF initializer
  <2>5. (initializer \o <<Rule("for")>>) \o Rest = initializer \o rs
    BY <1>4, <1>6, <2>3, ConcatAssociative
  <2> HIDE DEF rs, l
  <2>6. initializer \o rs \in Seq(RuleType) /\ initializer \o rs # <<>>
    BY <1>3, <2>3
  <2>7. Expects(initializer \o rs, compilers, l)
    <3>1. ASSUME NEW i \in 1..Len(initializer)
          PROVE  initializer[i].rule \in NeutralRule /\ Accepts(initializer[i], l)
      <4>1. initializer[i].rule \in NeutralRule
        BY <2>3 DEF Neutral
      <4>2. QED
        BY <1>4, <4>1 DEF Accepts, NeutralRule, ExpressionRule, ScopedRule
    <3>2. Len(compilers) \in Nat /\ l.compiler \in 1..Len(compilers)
      BY <1>4
    <3>3. QED
      BY <1>3, <2>3, <3>1, <3>2, EnterNeutral
  <2>8. compilers' = WithLast(c) /\ rules' = initializer \o rs
    BY <1>10, <2>4, <2>5 DEF Begin, Rest
  <2>9. QED
    BY <1>2, <1>3, <1>4, <1>7, <1>10, <2>6, <2>7, <2>8, Moved DEF Begin
<1>11. QED
  BY <1>5, <1>8, <1>9, <1>10

LEMMA WithClass ==
  ASSUME NEW c \in CompilerType, NEW within \in BOOLEAN
  PROVE  LET d == [c EXCEPT !.within_class = within] IN
         /\ d \in CompilerType /\ d.within_class = within /\ d.locals = c.locals
         /\ d.current_scope_depth = c.current_scope_depth /\ d.upvalues = c.upvalues
<1>1. [c EXCEPT !.within_class = within] \in CompilerType
  BY ZenonT(60) DEF CompilerType
<1>2. \A new : LET d == [c EXCEPT !.within_class = new] IN
        /\ d.within_class = new /\ d.locals = c.locals
        /\ d.current_scope_depth = c.current_scope_depth /\ d.upvalues = c.upvalues
  BY DEF CompilerType
<1>3. QED
  BY <1>1, <1>2

\* A variable declared in a scope is found, also once it has its value.
LEMMA DeclaredIsFound ==
  ASSUME NEW c \in CompilerType, Scoped(c), c.current_scope_depth > 0, NEW name \in Names
  PROVE  /\ Declares(DeclareVariable(c, name), name)
         /\ Declares(c, name) => Declares(MarkInitialized(c), name)
<1>1. /\ c.locals \in Seq(LocalType) /\ Len(c.locals) \in Nat \ {0}
      /\ DOMAIN c.locals = 1..Len(c.locals)
      /\ c.current_scope_depth \in Nat
      /\ \A i \in 1..Len(c.locals) : c.locals[i] \in LocalType
  BY LocalsOf
<1>2. Declares(DeclareVariable(c, name), name)
  <2> DEFINE local == Local(name, Uninitialised)
             locals == Append(c.locals, local)
  <2>1. local \in LocalType /\ local.identifier_name = name
    BY DEF Local, LocalType, Uninitialised
  <2> HIDE DEF local
  <2>2. locals \in Seq(LocalType) /\ Len(locals) = Len(c.locals) + 1 /\ locals[Len(c.locals) + 1] = local
    BY <1>1, <2>1
  <2>3. Len(c.locals) + 1 \in DOMAIN locals
    BY <1>1, <2>2
  <2>4. \A new : [c EXCEPT !.locals = new].locals = new
    BY DEF CompilerType
  <2>5. DeclareVariable(c, name).locals = locals
    BY <1>1, <2>4 DEF DeclareVariable, local
  <2> HIDE DEF locals
  <2>6. QED
    BY <2>1, <2>2, <2>3, <2>5 DEF Declares
<1>3. ASSUME Declares(c, name)
      PROVE  Declares(MarkInitialized(c), name)
  <2>1. PICK i \in 1..Len(c.locals) : c.locals[i].identifier_name = name
    BY <1>1, <1>3 DEF Declares
  <2> DEFINE last == Len(c.locals)
             marked == [c.locals[last] EXCEPT !.local_scope_depth = c.current_scope_depth]
             locals == [c.locals EXCEPT ![last] = marked]
  <2>2. marked \in LocalType /\ marked.identifier_name = c.locals[last].identifier_name
    <3>1. last \in 1..last /\ c.locals[last] \in LocalType
      BY <1>1
    <3>2. \A depth \in Nat :
            LET new == [c.locals[last] EXCEPT !.local_scope_depth = depth] IN
            new \in LocalType /\ new.identifier_name = c.locals[last].identifier_name
      BY <3>1, LocalUpdates
    <3>3. QED
      BY <1>1, <3>2
  <2>3. MarkInitialized(c) = [c EXCEPT !.locals = locals]
    BY <1>1 DEF MarkInitialized
  <2>4. \A new : [c EXCEPT !.locals = new].locals = new
    BY DEF CompilerType
  <2> HIDE DEF marked
  <2>5. DOMAIN locals = 1..last /\ locals[i].identifier_name = name
    <3>1. CASE i = last
      BY <1>1, <2>1, <2>2, <3>1
    <3>2. CASE i # last
      BY <1>1, <2>1, <3>2
    <3>3. QED
      BY <3>1, <3>2
  <2> HIDE DEF locals
  <2>6. QED
    BY <2>1, <2>3, <2>4, <2>5 DEF Declares
<1>4. QED
  BY <1>2, <1>3

\* A class body: its compiler has the class declared, and reads it back by name.
LEMMA ClassDeclarationStep ==
  ASSUME CompilerInv, UNCHANGED grammar, NEW name \in Names, ClassDeclaration(name)
  PROVE  CompilerInv'
<1> DEFINE pooled   == Pool(Here, Name(name))
           index    == LastConstant(pooled)
           variable == DeclareVariable(pooled, name)
           declared == Emit(variable, OpIndex("OP_CLASS", index))
           outside  == DefineVariable(declared, index)
           defined  == [outside EXCEPT !.within_class = TRUE]
           again    == Pool(defined, Name(name))
           named    == IF defined.current_scope_depth > 0
                       THEN Emit(defined, OpIndex("OP_GET_LOCAL", ResolveVariable(defined, name)))
                       ELSE Emit(again, OpIndex("OP_GET_GLOBAL", LastConstant(again)))
           depth    == Cur.current_scope_depth
           l        == Spot(depth, "class")
<1>1. StatementExpected
  BY Expected DEF ClassDeclaration
<1>2. ReportError \/ Begin(WithLast(named), <<Rule("class")>>)
  BY DEF ClassDeclaration
<1>3. /\ Continues(Cur, Here) /\ Settled(Here) /\ Here.current_scope_depth = depth
      /\ Cur \in CompilerType /\ Here \in CompilerType /\ Scoped(Here)
      /\ depth \in Nat
  BY <1>1, ScopedHere, InvariantHere, StatementHere DEF Continues
<1>4. Name(name) \in ConstantValue
  BY ConstantTypes
<1>5. /\ Keeps(Here, pooled) /\ index \in Int /\ Continues(Here, pooled)
      /\ pooled \in CompilerType /\ Scoped(pooled) /\ Settled(pooled)
      /\ pooled.current_scope_depth = depth
  <2>1. Keeps(Here, pooled) /\ index \in Int
    BY <1>3, <1>4, KeepsSame, EmittedHere
  <2>2. QED
    BY <1>3, <2>1, KeepsContinues DEF Keeps, Continues, Settled
<1> HIDE DEF pooled, index
<1>6. /\ Continues(pooled, variable) /\ variable.current_scope_depth = depth
      /\ IF depth > 0 THEN Len(variable.locals) > 1 ELSE variable.locals = pooled.locals
      /\ depth > 0 => Declares(variable, name)
      /\ variable \in CompilerType /\ Scoped(variable)
  BY <1>5, DeclareScoped, DeclaredIsFound DEF Continues
<1> HIDE DEF variable
<1>7. /\ Keeps(variable, declared) /\ Continues(variable, declared)
      /\ declared \in CompilerType /\ Scoped(declared)
      /\ declared.current_scope_depth = depth
      /\ IF depth > 0 THEN Len(declared.locals) > 1 ELSE Settled(declared)
      /\ depth > 0 => Declares(declared, name)
  <2>1. "OP_CLASS" \in OpCodeName
    BY OpCodeNames
  <2>2. Keeps(variable, declared)
    BY <1>5, <1>6, <2>1, KeepsSame, EmittedHere
  <2>3. Continues(variable, declared)
    BY <1>6, <2>2, KeepsContinues
  <2>4. declared.locals = variable.locals
    BY <2>2 DEF Keeps
  <2>5. QED
    BY <1>5, <1>6, <2>2, <2>3, <2>4 DEF Keeps, Continues, Settled, Declares
<1> HIDE DEF declared
<1>8. /\ Continues(declared, outside) /\ Settled(outside) /\ outside.current_scope_depth = depth
      /\ outside \in CompilerType /\ Scoped(outside)
  BY <1>5, <1>7, DefineVariableScoped DEF Continues
<1>9. depth > 0 => Declares(outside, name)
  BY <1>7, DeclaredIsFound DEF DefineVariable
<1> HIDE DEF outside
<1>10. /\ defined \in CompilerType /\ defined.within_class = TRUE /\ defined.locals = outside.locals
       /\ defined.current_scope_depth = depth /\ defined.upvalues = outside.upvalues
       /\ Scoped(defined) /\ Settled(defined) /\ (depth > 0 => Declares(defined, name))
  <2>1. /\ defined \in CompilerType /\ defined.within_class = TRUE /\ defined.locals = outside.locals
        /\ defined.current_scope_depth = depth /\ defined.upvalues = outside.upvalues
    BY <1>8, WithClass
  <2> HIDE DEF defined
  <2>2. QED
    BY <1>8, <1>9, <2>1 DEF Scoped, Settled, Declares
<1> HIDE DEF defined
<1>11. Keeps(defined, named)
  <2>1. "OP_GET_LOCAL" \in OpCodeName /\ "OP_GET_GLOBAL" \in OpCodeName
    BY OpCodeNames
  <2>2. CASE depth > 0
    <3>1. ResolveVariable(defined, name) \in 0..(Len(defined.locals) - 1)
      BY <1>10, <2>2, ResolveVariableType
    <3>2. ResolveVariable(defined, name) \in Int
      BY <3>1
    <3>3. QED
      BY <1>10, <2>1, <2>2, <3>2, KeepsSame, EmittedHere
  <2>3. CASE ~(depth > 0)
    <3>1. Keeps(defined, again) /\ LastConstant(again) \in Int
      BY <1>4, <1>10, KeepsSame, EmittedHere
    <3> HIDE DEF again
    <3>2. QED
      BY <1>10, <2>1, <2>3, <3>1, EmittedHere
  <2>4. QED
    BY <2>2, <2>3
<1> HIDE DEF named
<1>12. Replaces(Cur, named) /\ Settled(named) /\ named.current_scope_depth = depth
  <2>1. Continues(Cur, outside)
    BY <1>3, <1>5, <1>6, <1>7, <1>8, ContinuesTransitive
  <2>2. named \in CompilerType /\ named.locals = outside.locals /\ named.upvalues = outside.upvalues
        /\ named.current_scope_depth = depth
    BY <1>10, <1>11 DEF Keeps
  <2>3. Scoped(named) /\ Settled(named)
    BY <1>8, <2>2, <1>10 DEF Scoped, Settled
  <2>4. QED
    BY <2>1, <2>2, <2>3 DEF Replaces, Continues
<1>13. /\ Place("statement") \in Situation /\ Rest \in Seq(RuleType)
       /\ Expects(Rest, compilers, Place("statement"))
       /\ Place("statement") = Spot(depth, "statement") /\ l \in Situation
       /\ rules # <<>> /\ Len(compilers) \in Nat \ {0}
  BY <1>1, <1>3, Beginning, StatementHere, InvariantHere
<1>14. /\ l.compiler = Len(compilers) /\ l.at = "class" /\ l.depth = depth
       /\ [l EXCEPT !.at = "statement"] = Place("statement")
       /\ Place("statement").compiler = Len(compilers)
  BY <1>13 DEF Spot
<1> HIDE DEF l
<1>15. Rule("class") \in RuleType /\ Rule("class").rule = "class"
  BY RuleTypes
<1> DEFINE rs == <<Rule("class")>> \o Rest
<1>16. rs \in Seq(RuleType) /\ rs # <<>>
  BY <1>13, <1>15
<1>17. Expects(rs, compilers, l)
  <2>1. Accepts(Rule("class"), l)
    BY <1>14, <1>15 DEF Accepts, ScopedRule
  <2>2. Leads(compilers, Rule("class"), l, Place("statement"))
    BY <1>14, <1>15, LeadsBy
  <2>3. /\ Len(compilers) \in Nat /\ l.compiler \in 1..Len(compilers)
        /\ Place("statement").compiler <= l.compiler
    BY <1>13, <1>14
  <2>4. QED
    BY <1>13, <1>15, <2>1, <2>2, <2>3, EnterRule
<1>18. CASE Begin(WithLast(named), <<Rule("class")>>)
  <2>1. compilers' = WithLast(named) /\ rules' = rs
    BY <1>18 DEF Begin, Rest
  <2>2. /\ UNCHANGED <<functions, compilation>>
        /\ current' \in InfixToken \cup {"other"} /\ length' \in 0..Len(Source)
    BY <1>18, Reading DEF Begin
  <2> HIDE DEF rs
  <2>3. QED
    BY <1>12, <1>13, <1>14, <1>16, <1>17, <2>1, <2>2, Moved
<1>19. QED
  BY <1>2, <1>18, ErrorStep

LEMMA EndClassStep ==
  ASSUME CompilerInv, UNCHANGED grammar, EndClass
  PROVE  CompilerInv'
<1> DEFINE popped == Emit(Cur, Op("OP_POP"))
           d == [popped EXCEPT !.within_class = FALSE]
<1>1. rules # <<>> /\ Head(rules).rule = "class" /\ rules \in Seq(RuleType)
  BY DEF EndClass, At, CompilerInv
<1>2. PICK l \in Situation :
        /\ Expects(rules, compilers, l) /\ l.compiler = Len(compilers) /\ Fits(compilers, l)
        /\ Accepts(Head(rules), l) /\ l.depth = Cur.current_scope_depth
  BY <1>1, Below
<1>3. l.at = "class"
  BY <1>1, <1>2 DEF Accepts
<1>4. PICK m \in Situation :
        Expects(Tail(rules), compilers, m) /\ Leads(compilers, Head(rules), l, m)
  BY <1>1, <1>2, EndRule
<1>5. m = [l EXCEPT !.at = "statement"]
  BY <1>1, <1>4, LeadsBy
<1>6. m.compiler = Len(compilers) /\ m.at = "statement" /\ m.depth = l.depth
  BY <1>2, <1>5 DEF Situation
<1>7. Settled(Cur) /\ Cur \in CompilerType /\ Scoped(Cur)
  BY <1>2, <1>3, InvariantHere DEF Fits
<1>8. Keeps(Cur, popped) /\ popped \in CompilerType
  <2>1. Keeps(Cur, Cur) /\ "OP_POP" \in OpCodeName
    BY Emitting, OpCodeNames
  <2>2. Keeps(Cur, popped)
    BY <2>1, EmittedHere
  <2>3. QED
    BY <2>2 DEF Keeps
<1>9. /\ compilers' = WithLast(d) /\ rules' = <<>> \o Tail(rules)
      /\ UNCHANGED <<functions, compilation, current, length>>
  BY DEF EndClass, Continue
<1> HIDE DEF popped
<1>10. /\ d \in CompilerType /\ d.within_class = FALSE /\ d.locals = popped.locals
       /\ d.current_scope_depth = popped.current_scope_depth /\ d.upvalues = popped.upvalues
  BY <1>8, WithClass
<1> HIDE DEF d
<1>11. Replaces(Cur, d) /\ Settled(d) /\ d.current_scope_depth = m.depth
  <2>1. /\ d.locals = Cur.locals /\ d.upvalues = Cur.upvalues
        /\ d.current_scope_depth = Cur.current_scope_depth
    BY <1>8, <1>10 DEF Keeps
  <2>2. QED
    BY <1>2, <1>6, <1>7, <1>10, <2>1 DEF Replaces, Scoped, Settled
<1>12. Tail(rules) \in Seq(RuleType) /\ Tail(rules) # <<>>
  BY <1>1, <1>4, TailType
<1>13. rules' = Tail(rules)
  BY <1>9, <1>12
<1>14. current' \in InfixToken \cup {"other"} /\ length' \in 0..Len(Source)
  BY <1>9, Reading, InvariantHere
<1>15. QED
  BY <1>1, <1>4, <1>6, <1>9, <1>10, <1>11, <1>12, <1>13, <1>14, Moved

-------------------------------------------------------------------------------
(***************************************************************************)
(* A function: its compiler is pushed, and popped with what it captures.   *)
(***************************************************************************)
Founded(c, type, arity, locals) ==
  [c EXCEPT !.function_type = type, !.arity = arity, !.locals = locals]

LEMMA WithFounding ==
  ASSUME NEW c \in CompilerType, NEW type \in {"FUNCTION", "METHOD", "INITIALIZER"},
         NEW arity \in Nat, NEW locals \in Seq(LocalType)
  PROVE  LET d == Founded(c, type, arity, locals) IN
         /\ d \in CompilerType /\ d.locals = locals
         /\ d.current_scope_depth = c.current_scope_depth
         /\ d.upvalues = c.upvalues /\ d.within_class = c.within_class
<1>1. Founded(c, type, arity, locals) \in CompilerType
  BY ZenonT(60) DEF CompilerType, Founded
<1>2. \A t, n, new : LET d == Founded(c, t, n, new) IN
        /\ d.locals = new /\ d.current_scope_depth = c.current_scope_depth
        /\ d.upvalues = c.upvalues /\ d.within_class = c.within_class
  BY DEF CompilerType, Founded
<1>3. QED
  BY <1>1, <1>2

LEMMA NewCompilerType ==
  ASSUME NEW type \in {"TOP_LEVEL_SCRIPT", "FUNCTION", "METHOD"}, NEW within \in BOOLEAN
  PROVE  LET c == NewCompiler(type, within) IN
         /\ c \in CompilerType /\ c.locals = <<FirstLocal(type)>> /\ FirstLocal(type) \in LocalType
         /\ FirstLocal(type).local_scope_depth = 0
         /\ FirstLocal(type).identifier_name = (IF type = "METHOD" THEN "this" ELSE "")
         /\ c.current_scope_depth = 0 /\ c.upvalues = <<>> /\ c.within_class = within
<1>1. /\ FirstLocal(type) \in LocalType /\ FirstLocal(type).local_scope_depth = 0
      /\ FirstLocal(type).identifier_name = (IF type = "METHOD" THEN "this" ELSE "")
  BY DEF FirstLocal, Local, LocalType
<1>2. /\ <<FirstLocal(type)>> \in Seq(LocalType) /\ <<>> \in Seq(UpvalueType)
      /\ <<>> \in Seq(0..255) /\ <<>> \in Seq(ConstantValue)
  <2>1. \A local \in LocalType : <<local>> \in Seq(LocalType)
    OBVIOUS
  <2>2. <<>> \in Seq(UpvalueType) /\ <<>> \in Seq(0..255) /\ <<>> \in Seq(ConstantValue)
    OBVIOUS
  <2>3. QED
    BY <1>1, <2>1, <2>2
<1>3. LET c == NewCompiler(type, within) IN
      /\ c \in CompilerType /\ c.locals = <<FirstLocal(type)>>
      /\ c.current_scope_depth = 0 /\ c.upvalues = <<>> /\ c.within_class = within
  BY <1>2 DEF NewCompiler, CompilerType
<1>4. QED
  BY <1>1, <1>3

\* The compiler of a function body: its receiver and parameters lie in scopes
\* around that of the body.
LEMMA FunctionCompilerScoped ==
  ASSUME CompilerInv, NEW type \in {"FUNCTION", "METHOD"}, NEW name, NEW parameters \in Parameters
  PROVE  LET d == BeginScope(FunctionCompiler(type, name, parameters)) IN
         /\ d \in CompilerType /\ Scoped(d) /\ Settled(d) /\ d.current_scope_depth = 2
         /\ d.upvalues = <<>> /\ d.within_class = Cur.within_class
         /\ type = "METHOD" => d.locals[1].identifier_name = "this"
<1> DEFINE first == FirstLocal(type)
           new   == NewCompiler(type, Cur.within_class)
           begun == BeginScope(new)
           added == [i \in DOMAIN parameters |-> Local(parameters[i], begun.current_scope_depth)]
           locals == begun.locals \o added
           kind  == IF name = "init" THEN "INITIALIZER" ELSE type
           f     == Founded(begun, kind, Len(parameters), locals)
<1>1. Cur.within_class \in BOOLEAN
  <2>1. Cur \in CompilerType
    BY InvariantHere
  <2>2. QED
    BY <2>1 DEF CompilerType
<1>2. /\ new \in CompilerType /\ new.locals = <<first>> /\ first \in LocalType
      /\ first.local_scope_depth = 0 /\ (type = "METHOD" => first.identifier_name = "this")
      /\ new.current_scope_depth = 0 /\ new.upvalues = <<>> /\ new.within_class = Cur.within_class
  BY <1>1, NewCompilerType
<1> HIDE DEF first, new
<1>3. Scoped(new)
  BY <1>2 DEF Scoped, Uninitialised
<1>4. /\ begun \in CompilerType /\ begun.locals = <<first>> /\ begun.current_scope_depth = 1
      /\ begun.upvalues = <<>> /\ begun.within_class = Cur.within_class
  BY <1>2, <1>3, BeginScopeScoped DEF Continues
<1> HIDE DEF begun
<1>5. parameters \in Seq(Names) /\ Len(parameters) \in Nat /\ DOMAIN parameters = 1..Len(parameters)
  <2>1. MaxParameters \in Nat
    BY InvariantHere
  <2>2. PICK n \in Nat : parameters \in [1..n -> Names]
    BY <2>1 DEF Parameters
  <2>3. QED
    BY <2>2
<1>6. /\ added \in Seq(LocalType) /\ Len(added) = Len(parameters)
      /\ \A i \in 1..Len(parameters) : added[i].local_scope_depth = 1
  <2>1. \A i \in 1..Len(parameters) : /\ Local(parameters[i], 1) \in LocalType
                                      /\ Local(parameters[i], 1).local_scope_depth = 1
    <3>1. \A p \in Names : Local(p, 1) \in LocalType /\ Local(p, 1).local_scope_depth = 1
      BY DEF Local, LocalType
    <3>2. \A i \in 1..Len(parameters) : parameters[i] \in Names
      BY <1>5
    <3>3. QED
      BY <3>1, <3>2
  <2>2. \A i \in 1..Len(parameters) : added[i] = Local(parameters[i], 1)
    BY <1>4, <1>5
  <2>3. added \in [1..Len(parameters) -> LocalType]
    BY <1>4, <1>5, <2>1
  <2> HIDE DEF added
  <2>4. added \in Seq(LocalType) /\ Len(added) = Len(parameters)
    BY <1>5, <2>3
  <2>5. QED
    BY <2>1, <2>2, <2>4
<1> HIDE DEF added
<1>7. /\ locals \in Seq(LocalType) /\ Len(locals) = Len(parameters) + 1 /\ locals[1] = first
      /\ \A i \in 2..Len(locals) : locals[i] = added[i - 1]
  BY <1>2, <1>4, <1>5, <1>6
<1>8. \A i \in 2..Len(locals) : locals[i].local_scope_depth = 1
  <2>1. \A i \in 2..Len(locals) : i - 1 \in 1..Len(parameters)
    BY <1>5, <1>7
  <2>2. QED
    BY <1>6, <1>7, <2>1
<1>9. \A i \in 1..Len(locals) : i = 1 \/ i \in 2..Len(locals)
  BY <1>5, <1>7
<1>10. FunctionCompiler(type, name, parameters) = f
  BY DEF FunctionCompiler, Founded, new, begun, added
<1> HIDE DEF locals
<1>11. kind \in {"FUNCTION", "METHOD", "INITIALIZER"}
  OBVIOUS
<1> HIDE DEF kind
<1>12. /\ f \in CompilerType /\ f.locals = locals /\ f.current_scope_depth = 1
       /\ f.upvalues = <<>> /\ f.within_class = Cur.within_class
  <2>1. LET d == Founded(begun, kind, Len(parameters), locals) IN
        /\ d \in CompilerType /\ d.locals = locals
        /\ d.current_scope_depth = begun.current_scope_depth
        /\ d.upvalues = begun.upvalues /\ d.within_class = begun.within_class
    BY <1>4, <1>5, <1>7, <1>11, WithFounding, ZenonT(60)
  <2>2. QED
    BY <1>4, <2>1
<1> HIDE DEF f
<1>13. Scoped(f)
  <2>1. locals # <<>> /\ DOMAIN locals = 1..Len(locals)
    BY <1>5, <1>7
  <2>2. QED
    BY <1>2, <1>7, <1>8, <1>9, <1>12, <2>1 DEF Scoped, Uninitialised
<1>14. LET d == BeginScope(f) IN
       /\ Continues(f, d) /\ d.current_scope_depth = 2 /\ d.locals = locals
  BY <1>12, <1>13, BeginScopeScoped
<1>15. ASSUME NEW d, Continues(f, d), d.current_scope_depth = 2, d.locals = locals
       PROVE  /\ d \in CompilerType /\ Scoped(d) /\ Settled(d) /\ d.current_scope_depth = 2
              /\ d.upvalues = <<>> /\ d.within_class = Cur.within_class
              /\ type = "METHOD" => d.locals[1].identifier_name = "this"
  <2>1. Settled(d)
    <3>1. Len(locals) \in 1..Len(locals)
      BY <1>5, <1>7
    <3>2. Last(locals).local_scope_depth \in {0, 1}
      BY <1>2, <1>7, <1>8, <1>9, <3>1 DEF Last
    <3>3. QED
      BY <1>15, <3>2 DEF Settled, Uninitialised
  <2>2. QED
    BY <1>2, <1>7, <1>12, <1>15, <2>1 DEF Continues
<1>16. QED
  BY <1>10, <1>14, <1>15

\* The compilers once a function is entered in which c is the current one.
LEMMA PushedSound ==
  ASSUME NEW cs, Sound(cs), NEW c, Replaces(Last(cs), c), Settled(c),
         NEW new \in CompilerType, Scoped(new), new.upvalues = <<>>
  PROVE  LET es == Append([cs EXCEPT ![Len(cs)] = c], new) IN
         /\ Sound(es) /\ Len(es) = Len(cs) + 1
         /\ es[Len(cs)] = c /\ es[Len(cs) + 1] = new
         /\ InMethod(cs, Len(cs)) => InMethod(es, Len(cs)) /\ InMethod(es, Len(cs) + 1)
         /\ \A m \in Situation : m.compiler \in 1..(Len(cs) - 1) /\ Fits(cs, m) => Fits(es, m)
<1> DEFINE ds == [cs EXCEPT ![Len(cs)] = c]
           es == Append(ds, new)
           n  == Len(cs)
<1>1. /\ ds \in Seq(CompilerType) /\ Len(ds) = n /\ Resolves(ds)
      /\ ds[n] = c /\ Sound(ds)
      /\ \A k \in 1..n : InMethod(cs, k) => InMethod(ds, k)
      /\ \A m \in Situation : m.compiler \in 1..(n - 1) /\ Fits(cs, m) => Fits(ds, m)
  BY Replaced
<1>2. n \in Nat \ {0} /\ n \in 1..n
  <2>1. n \in Nat \ {0}
    BY DEF Sound
  <2>2. QED
    BY <2>1
<1> HIDE DEF ds, n
<1>3. /\ es \in Seq(CompilerType) /\ Len(es) = n + 1 /\ es[n + 1] = new /\ es # <<>>
      /\ \A k \in 1..n : es[k] = ds[k]
  BY <1>1, <1>2
<1> HIDE DEF es
<1>4. /\ \A k \in 1..(n + 1) : k = n + 1 \/ (k # n + 1 /\ k \in 1..n)
      /\ \A k \in 1..n : k = n \/ k \in 1..(n - 1)
      /\ n + 1 \in 1..(n + 1) /\ 1..n \subseteq 1..(n + 1)
  BY <1>2
<1>5. ASSUME NEW k \in 1..(n + 1)
      PROVE  /\ es[k].upvalues # <<>> => k > 1
             /\ \A i \in DOMAIN es[k].upvalues : Captured(es[k - 1], es[k].upvalues[i])
             /\ IsInjective(es[k].upvalues)
  <2>1. CASE k = n + 1
    BY <1>3, <2>1 DEF IsInjective
  <2>2. CASE k # n + 1
    <3>1. k \in 1..n /\ es[k] = ds[k]
      BY <1>3, <1>4, <2>2
    <3>2. /\ ds[k].upvalues # <<>> => k > 1
          /\ \A i \in DOMAIN ds[k].upvalues : Captured(ds[k - 1], ds[k].upvalues[i])
          /\ IsInjective(ds[k].upvalues)
      BY <1>1, <3>1 DEF Resolves
    <3>3. CASE ds[k].upvalues = <<>>
      BY <3>1, <3>2, <3>3
    <3>4. CASE ds[k].upvalues # <<>>
      <4>1. k - 1 \in 1..n
        BY <1>2, <3>1, <3>2, <3>4
      <4>2. es[k - 1] = ds[k - 1]
        BY <1>3, <4>1
      <4>3. QED
        BY <3>1, <3>2, <4>2
    <3>5. QED
      BY <3>3, <3>4
  <2>3. QED
    BY <2>1, <2>2
<1>6. Resolves(es)
  BY <1>3, <1>5 DEF Resolves
<1>7. \A k \in 1..(n + 1) : Scoped(es[k])
  BY <1>1, <1>3, <1>4 DEF Sound
<1>8. \A k \in 1..n : Settled(es[k])
  <2>1. \A k \in 1..(n - 1) : Settled(ds[k])
    BY <1>1 DEF Sound
  <2>2. QED
    BY <1>1, <1>3, <1>4, <2>1
<1>9. Sound(es)
  <2>1. (n + 1) - 1 = n
    BY <1>2
  <2>2. QED
    BY <1>3, <1>6, <1>7, <1>8, <2>1 DEF Sound
<1>10. ASSUME NEW k \in 1..n
       PROVE  InMethod(ds, k) => InMethod(es, k) /\ InMethod(es, n + 1)
  <2>1. \A j \in 1..k : j \in 1..n /\ j \in 1..(n + 1)
    BY <1>2
  <2>2. QED
    BY <1>3, <2>1 DEF InMethod
<1>11. InMethod(cs, n) => InMethod(es, n) /\ InMethod(es, n + 1)
  BY <1>1, <1>2, <1>10
<1>12. ASSUME NEW m \in Situation, m.compiler \in 1..(n - 1), Fits(cs, m)
       PROVE  Fits(es, m)
  <2>1. Fits(ds, m) /\ m.compiler \in 1..n
    BY <1>1, <1>2, <1>12
  <2>2. es[m.compiler] = ds[m.compiler]
    BY <1>3, <2>1
  <2>3. QED
    BY <1>10, <2>1, <2>2 DEF Fits
<1>13. QED
  BY <1>1, <1>2, <1>3, <1>9, <1>11, <1>12 DEF es, n, ds

\* function(), up to its block: what becomes of the function is left to r.
LEMMA EnterFunctionStep ==
  ASSUME CompilerInv, UNCHANGED grammar, rules # <<>>,
         NEW c, Replaces(Cur, c), Settled(c), c.within_class = Cur.within_class,
         NEW type \in {"FUNCTION", "METHOD"}, NEW name, NEW parameters \in Parameters,
         NEW rs \in Seq(RuleType), NEW m \in Situation, m.compiler = Len(compilers),
         Expects(rs, compilers, m), m.at # "statement", m.depth = c.current_scope_depth,
         m.at = "definition" /\ m.depth > 0 => Len(c.locals) > 1,
         m.at = "class" \/ (Cur.within_class => InMethod(compilers, Len(compilers))),
         type = "METHOD" \/ (Cur.within_class => InMethod(compilers, Len(compilers))),
         compilers' = EnterFunction(c, type, name, parameters), rules' = FunctionBody \o rs,
         UNCHANGED <<functions, compilation, current>>, Read
  PROVE  CompilerInv'
<1> DEFINE new == BeginScope(FunctionCompiler(type, name, parameters))
           es  == Append([compilers EXCEPT ![Len(compilers)] = c], new)
           n   == Len(compilers)
           l1  == [compiler |-> n + 1, depth |-> 1, at |-> "statement"]
           l2  == [compiler |-> n + 1, depth |-> 2, at |-> "statement"]
           rs1 == <<Rule("function")>> \o rs
           rs2 == <<Rule("block")>> \o rs1
<1>1. /\ Sound(compilers) /\ n \in Nat \ {0} /\ Cur = Last(compilers)
      /\ n \in 1..n /\ n + 1 \in 1..(n + 1)
  BY InvariantHere
<1>2. /\ new \in CompilerType /\ Scoped(new) /\ Settled(new) /\ new.current_scope_depth = 2
      /\ new.upvalues = <<>> /\ new.within_class = Cur.within_class
      /\ type = "METHOD" => new.locals[1].identifier_name = "this"
  BY FunctionCompilerScoped
<1>3. compilers' = es
  BY DEF EnterFunction, WithLast
<1> HIDE DEF new
<1>4. /\ Sound(es) /\ Len(es) = n + 1 /\ es[n] = c /\ es[n + 1] = new
      /\ InMethod(compilers, n) => InMethod(es, n) /\ InMethod(es, n + 1)
      /\ \A x \in Situation : x.compiler \in 1..(n - 1) /\ Fits(compilers, x) => Fits(es, x)
  <2>1. Replaces(Last(compilers), c) /\ Sound(compilers)
    BY <1>1
  <2>2. new \in CompilerType /\ Scoped(new) /\ new.upvalues = <<>>
    BY <1>2
  <2>3. LET fs == Append([compilers EXCEPT ![Len(compilers)] = c], new) IN
        /\ Sound(fs) /\ Len(fs) = Len(compilers) + 1
        /\ fs[Len(compilers)] = c /\ fs[Len(compilers) + 1] = new
        /\ InMethod(compilers, Len(compilers)) =>
             InMethod(fs, Len(compilers)) /\ InMethod(fs, Len(compilers) + 1)
        /\ \A x \in Situation :
             x.compiler \in 1..(Len(compilers) - 1) /\ Fits(compilers, x) => Fits(fs, x)
    BY <2>1, <2>2, PushedSound
  <2>4. QED
    BY <2>3
<1> HIDE DEF es
<1>5. Fits(es, m)
  <2>1. m.at = "definition" \/ m.at = "class"
    BY DEF Situation
  <2>2. QED
    BY <1>4, <2>1 DEF Fits
<1>6. Expects(rs, es, m)
  <2>1. Len(es) \in Nat /\ m.compiler <= Len(es)
    BY <1>1, <1>4
  <2>2. QED
    BY <1>4, <2>1, Recompile
<1>7. l1 \in Situation /\ l2 \in Situation
  BY <1>1 DEF Situation
<1>8. /\ Rule("function") \in RuleType /\ Rule("function").rule = "function"
      /\ Rule("block") \in RuleType /\ Rule("block").rule = "block"
  BY RuleTypes
<1>9. /\ Len(es) \in Nat /\ l1.compiler \in 1..Len(es) /\ l2.compiler \in 1..Len(es)
      /\ m.compiler <= l1.compiler /\ l1.compiler <= l2.compiler
      /\ m.compiler = l1.compiler - 1
  BY <1>1, <1>4
<1>10. [l2 EXCEPT !.depth = @ - 1] = l1
  BY <1>1
<1>11. Accepts(Rule("function"), l1) /\ Accepts(Rule("block"), l2)
  BY <1>8 DEF Accepts, ScopedRule
<1>12. InMethod(es, n + 1) \/ ~new.within_class
  <2>1. CASE type = "METHOD"
    <3>1. es[n + 1].locals[1].identifier_name = "this" /\ n + 1 \in 1..(n + 1)
      BY <1>1, <1>2, <1>4, <2>1
    <3>2. QED
      BY <3>1 DEF InMethod
  <2>2. CASE type # "METHOD"
    BY <1>2, <1>4, <2>2
  <2>3. QED
    BY <2>1, <2>2
<1>13. Fits(es, l2)
  BY <1>2, <1>4, <1>12 DEF Fits
<1>14. l2.compiler = n + 1
  OBVIOUS
<1> HIDE DEF l1, l2
<1>15. Expects(rs1, es, l1)
  <2>1. Leads(es, Rule("function"), l1, m)
    BY <1>5, <1>8, <1>9, LeadsBy
  <2>2. QED
    BY <1>6, <1>7, <1>8, <1>9, <1>11, <2>1, EnterRule
<1>16. rs1 \in Seq(RuleType)
  BY <1>8
<1> HIDE DEF rs1
<1>17. Expects(rs2, es, l2)
  <2>1. Leads(es, Rule("block"), l2, l1)
    BY <1>8, <1>10, LeadsBy DEF ScopedRule
  <2>2. QED
    BY <1>7, <1>8, <1>9, <1>11, <1>15, <1>16, <2>1, EnterRule
<1>18. rs2 \in Seq(RuleType) /\ rs2 # <<>>
  BY <1>8, <1>16
<1>19. rules' = rs2
  <2>1. <<Rule("block")>> \in Seq(RuleType) /\ <<Rule("function")>> \in Seq(RuleType)
        /\ FunctionBody = <<Rule("block")>> \o <<Rule("function")>>
    BY <1>8 DEF FunctionBody
  <2>2. QED
    BY <2>1, ConcatAssociative DEF rs1
<1> HIDE DEF rs2
<1>20. Nested(rs2, es)
  BY <1>4, <1>7, <1>13, <1>14, <1>17 DEF Nested
<1>21. /\ functions' \in Seq(FunctionType) /\ compilation' = "compiling"
       /\ current' \in InfixToken \cup {"other"} /\ length' \in 0..Len(Source)
  BY Reading DEF CompilerInv, TypeOK
<1>22. QED
  BY <1>3, <1>4, <1>18, <1>19, <1>20, <1>21, Step

LEMMA BodyFirst ==
  ASSUME NEW r \in RuleType, NEW rs \in Seq(RuleType)
  PROVE  /\ (FunctionBody \o <<r>>) \o rs = FunctionBody \o (<<r>> \o rs)
         /\ <<r>> \o rs \in Seq(RuleType)
<1>1. FunctionBody \in Seq(RuleType)
  BY RuleTypes DEF FunctionBody
<1>2. <<r>> \in Seq(RuleType)
  OBVIOUS
<1>3. QED
  BY <1>1, <1>2, ConcatAssociative

LEMMA FunctionDeclarationStep ==
  ASSUME CompilerInv, UNCHANGED grammar, NEW name \in Names, NEW parameters \in Parameters,
         FunctionDeclaration(name, parameters)
  PROVE  CompilerInv'
<1> DEFINE parsed == ParseVariable(Here, name)
           marked == MarkInitialized(parsed)
           index  == VariableIndex(marked)
           depth  == Cur.current_scope_depth
           m      == Spot(depth, "definition")
           rs     == <<Defines(index)>> \o Rest
<1>1. StatementExpected
  BY Expected DEF FunctionDeclaration
<1>2. \/ ReportError
      \/ Begin(EnterFunction(marked, "FUNCTION", name, parameters), FunctionBody \o <<Defines(index)>>)
  BY DEF FunctionDeclaration
<1>3. /\ Continues(Cur, Here) /\ Settled(Here) /\ Here.current_scope_depth = depth
      /\ Here \in CompilerType /\ Scoped(Here) /\ depth \in Nat
  BY <1>1, ScopedHere, StatementHere DEF Continues
<1>4. /\ Continues(Here, parsed) /\ parsed.current_scope_depth = depth
      /\ parsed \in CompilerType /\ Scoped(parsed)
      /\ IF depth > 0 THEN Len(parsed.locals) > 1 ELSE Settled(parsed)
  BY <1>3, ParseVariableScoped DEF Continues
<1> HIDE DEF parsed
<1>5. /\ Continues(parsed, marked) /\ Len(marked.locals) = Len(parsed.locals)
      /\ marked.current_scope_depth = depth /\ Settled(marked)
  BY <1>3, <1>4, MarkScoped
<1> HIDE DEF marked
<1>6. /\ Replaces(Cur, marked) /\ marked.within_class = Cur.within_class
  BY <1>3, <1>4, <1>5, ContinuesTransitive, ContinuesReplaces
<1>7. index \in Int
  <2>1. marked.constant_pool \in Seq(ConstantValue)
    BY <1>5 DEF Continues, CompilerType
  <2>2. QED
    BY <2>1 DEF VariableIndex, LastConstant
<1>8. /\ Place("statement") \in Situation /\ Rest \in Seq(RuleType)
      /\ Expects(Rest, compilers, Place("statement"))
      /\ Place("statement") = Spot(depth, "statement") /\ m \in Situation
      /\ Cur.within_class => InMethod(compilers, Len(compilers))
      /\ rules # <<>> /\ Len(compilers) \in Nat \ {0}
  BY <1>1, <1>3, Beginning, StatementHere, InvariantHere
<1>9. /\ m.compiler = Len(compilers) /\ m.at = "definition" /\ m.depth = depth
      /\ [m EXCEPT !.at = "statement"] = Place("statement")
      /\ Place("statement").compiler = Len(compilers)
  BY <1>8 DEF Spot
<1> HIDE DEF m, index
<1>10. Defines(index) \in RuleType /\ Defines(index).rule = "define"
  BY <1>7, RuleTypes
<1>11. /\ (FunctionBody \o <<Defines(index)>>) \o Rest = FunctionBody \o rs
       /\ rs \in Seq(RuleType)
  BY <1>8, <1>10, BodyFirst
<1>12. Expects(rs, compilers, m)
  <2>1. Accepts(Defines(index), m)
    BY <1>9, <1>10 DEF Accepts, ScopedRule
  <2>2. Leads(compilers, Defines(index), m, Place("statement"))
    BY <1>9, <1>10, LeadsBy
  <2>3. /\ Len(compilers) \in Nat /\ m.compiler \in 1..Len(compilers)
        /\ Place("statement").compiler <= m.compiler
    BY <1>8, <1>9
  <2>4. QED
    BY <1>8, <1>10, <2>1, <2>2, <2>3, EnterRule
<1> HIDE DEF rs
<1>13. CASE Begin(EnterFunction(marked, "FUNCTION", name, parameters),
                  FunctionBody \o <<Defines(index)>>)
  <2>1. /\ compilers' = EnterFunction(marked, "FUNCTION", name, parameters)
        /\ rules' = FunctionBody \o rs
        /\ UNCHANGED <<functions, compilation, current>> /\ Read
    BY <1>11, <1>13 DEF Begin, Rest
  <2>2. m.at = "definition" /\ m.depth > 0 => Len(marked.locals) > 1
    BY <1>4, <1>5, <1>9
  <2>3. m.at # "statement" /\ m.depth = marked.current_scope_depth
    BY <1>5, <1>9
  <2>4. QED
    BY <1>5, <1>6, <1>8, <1>9, <1>11, <1>12, <2>1, <2>2, <2>3, EnterFunctionStep
<1>14. QED
  BY <1>2, <1>13, ErrorStep

LEMMA MethodStep ==
  ASSUME CompilerInv, UNCHANGED grammar, NEW name \in Members, NEW parameters \in Parameters,
         Method(name, parameters)
  PROVE  CompilerInv'
<1> DEFINE pooled == Pool(Cur, Name(name))
           method == Emits(OpIndex("OP_METHOD", LastConstant(pooled)))
           rs     == <<method>> \o rules
<1>1. rules # <<>> /\ Head(rules).rule = "class" /\ rules \in Seq(RuleType)
  BY DEF Method, At, CompilerInv
<1>2. \/ ReportError
      \/ /\ compilers' = EnterFunction(pooled, "METHOD", name, parameters)
         /\ rules' = (FunctionBody \o <<method>>) \o rules
         /\ Read /\ UNCHANGED <<functions, current, compilation>>
  BY DEF Method
<1>3. PICK l \in Situation :
        /\ Expects(rules, compilers, l) /\ l.compiler = Len(compilers) /\ Fits(compilers, l)
        /\ Accepts(Head(rules), l) /\ l.depth = Cur.current_scope_depth
  BY <1>1, Below
<1>4. l.at = "class"
  BY <1>1, <1>3 DEF Accepts
<1>5. Settled(Cur) /\ Cur \in CompilerType /\ Scoped(Cur) /\ Len(compilers) \in Nat \ {0}
  BY <1>3, <1>4, InvariantHere DEF Fits
<1>6. Keeps(Cur, pooled) /\ LastConstant(pooled) \in Int
  BY ConstantTypes, Emitting, EmittedHere
<1> HIDE DEF pooled
<1>7. /\ Replaces(Cur, pooled) /\ pooled.within_class = Cur.within_class /\ Settled(pooled)
      /\ pooled.current_scope_depth = l.depth
  <2>1. Continues(Cur, pooled)
    BY <1>5, <1>6, KeepsContinues
  <2>2. Settled(pooled) /\ pooled.current_scope_depth = l.depth
    BY <1>3, <1>5, <1>6 DEF Keeps, Settled
  <2>3. QED
    BY <2>1, <2>2, ContinuesReplaces
<1>8. method \in RuleType /\ method.rule = "emit"
  <2>1. "OP_METHOD" \in OpCodeName
    BY OpCodeNames
  <2>2. OpIndex("OP_METHOD", LastConstant(pooled)) \in Seq(0..255)
    BY <1>6, <2>1, OpType
  <2>3. QED
    BY <2>2, RuleTypes
<1> HIDE DEF method
<1>9. (FunctionBody \o <<method>>) \o rules = FunctionBody \o rs /\ rs \in Seq(RuleType)
  BY <1>1, <1>8, BodyFirst
<1>10. Expects(rs, compilers, l)
  <2>1. Accepts(method, l)
    BY <1>4, <1>8 DEF Accepts, ScopedRule
  <2>2. Leads(compilers, method, l, l)
    BY <1>8, LeadsBy DEF NeutralRule, ExpressionRule
  <2>3. Len(compilers) \in Nat /\ l.compiler \in 1..Len(compilers) /\ l.compiler <= l.compiler
    BY <1>3, <1>5
  <2>4. QED
    BY <1>1, <1>3, <1>8, <2>1, <2>2, <2>3, EnterRule
<1> HIDE DEF rs
<1>11. ASSUME compilers' = EnterFunction(pooled, "METHOD", name, parameters),
              rules' = FunctionBody \o rs,
              Read, UNCHANGED <<functions, current, compilation>>
       PROVE  CompilerInv'
  <2>1. l.at # "statement" /\ l.at = "class"
    BY <1>4
  <2>2. l.at = "definition" /\ l.depth > 0 => Len(pooled.locals) > 1
    BY <1>4
  <2>3. QED
    BY <1>1, <1>3, <1>4, <1>7, <1>9, <1>10, <1>11, <2>1, <2>2, EnterFunctionStep
<1>12. QED
  BY <1>2, <1>9, <1>11, ErrorStep

-------------------------------------------------------------------------------
(***************************************************************************)
(* The end of a function and of the script.                                *)
(***************************************************************************)

\* A compiler of the type gives a function of the type.
LEMMA FunctionObjectType ==
  ASSUME NEW c \in CompilerType
  PROVE  FunctionObject(c) \in FunctionType
<1>1. Len(c.upvalues) \in Nat
  BY DEF CompilerType
<1>2. QED
  BY <1>1 DEF CompilerType, FunctionObject, FunctionType

\* The last code of a function leaves its scopes alone.
LEMMA EndCompilerKeeps ==
  ASSUME NEW c \in CompilerType
  PROVE  Keeps(c, EndCompiler(c))
<1> DEFINE value == IF c.function_type = "INITIALIZER" THEN OpIndex("OP_GET_LOCAL", 0)
                                                       ELSE Op("OP_NIL")
<1>1. "OP_GET_LOCAL" \in OpCodeName /\ "OP_NIL" \in OpCodeName /\ "OP_RETURN" \in OpCodeName
  BY OpCodeNames
<1>2. value \in Seq(0..255) /\ Op("OP_RETURN") \in Seq(0..255)
  BY <1>1, OpType
<1>3. EndCompiler(c) = Emit(c, value \o Op("OP_RETURN"))
  BY DEF EndCompiler
<1> HIDE DEF value
<1>4. value \o Op("OP_RETURN") \in Seq(0..255)
  BY <1>2
<1>5. QED
  BY <1>3, <1>4, EmitKeeps

\* The operands of OP_CLOSURE are bytes.
LEMMA UpvalueOperands ==
  ASSUME NEW upvalues \in Seq(UpvalueType)
  PROVE  FlattenSeq([i \in DOMAIN upvalues |-> UpvalueBytes(upvalues[i])]) \in Seq(0..255)
<1>1. ASSUME NEW upvalue \in UpvalueType
      PROVE  UpvalueBytes(upvalue) \in Seq(0..255)
  <2>1. upvalue.type \in 0..255 /\ upvalue.index \in Int
    BY DEF UpvalueType
  <2>2. <<upvalue.type>> \in Seq(0..255) /\ IndexBytes(upvalue.index) \in Seq(0..255)
    BY <2>1, IndexBytesType
  <2>3. \A s, t \in Seq(0..255) : s \o t \in Seq(0..255)
    OBVIOUS
  <2>4. QED
    BY <2>2, <2>3 DEF UpvalueBytes
<1>2. DOMAIN upvalues = 1..Len(upvalues) /\ \A i \in 1..Len(upvalues) : upvalues[i] \in UpvalueType
  OBVIOUS
<1>3. [i \in DOMAIN upvalues |-> UpvalueBytes(upvalues[i])] \in Seq(Seq(0..255))
  BY <1>1, <1>2
<1>4. QED
  BY <1>3, FlattenSeqType

\* The compilers without the innermost are what they were when it was entered.
LEMMA FrontSound ==
  ASSUME NEW cs, Sound(cs), Len(cs) > 1
  PROVE  /\ Sound(Front(cs)) /\ Len(Front(cs)) = Len(cs) - 1
         /\ Last(Front(cs)) = cs[Len(cs) - 1] /\ Front(cs) \in Seq(CompilerType)
         /\ \A m \in Situation : m.compiler \in 1..(Len(cs) - 1) /\ Fits(cs, m) => Fits(Front(cs), m)
<1> DEFINE fs == Front(cs)
           n  == Len(cs)
<1>1. cs \in Seq(CompilerType) /\ n \in Nat /\ n > 1
  BY DEF Sound
<1>2. /\ fs \in Seq(CompilerType) /\ Len(fs) = n - 1 /\ fs # <<>>
      /\ \A k \in 1..(n - 1) : fs[k] = cs[k]
  <2>1. \A s \in Seq(CompilerType) : Len(s) > 1 =>
          /\ SubSeq(s, 1, Len(s) - 1) \in Seq(CompilerType)
          /\ Len(SubSeq(s, 1, Len(s) - 1)) = Len(s) - 1
          /\ \A k \in 1..(Len(s) - 1) : SubSeq(s, 1, Len(s) - 1)[k] = s[k]
    OBVIOUS
  <2>2. fs = SubSeq(cs, 1, Len(cs) - 1)
    BY DEF Front
  <2> HIDE DEF fs
  <2>3. /\ fs \in Seq(CompilerType) /\ Len(fs) = n - 1
        /\ \A k \in 1..(n - 1) : fs[k] = cs[k]
    BY <1>1, <2>1, <2>2
  <2>4. QED
    BY <1>1, <2>3
<1> HIDE DEF fs
<1>3. /\ \A k \in 1..(n - 1) : k \in 1..n /\ (k > 1 => k - 1 \in 1..(n - 1))
      /\ \A k \in 1..((n - 1) - 1) : k \in 1..(n - 1)
      /\ n - 1 \in 1..(n - 1)
  BY <1>1
<1> HIDE DEF n
<1>4. Last(fs) = cs[n - 1]
  BY <1>2, <1>3 DEF Last
<1>5. Resolves(fs)
  <2> SUFFICES ASSUME NEW k \in 1..(n - 1)
               PROVE  /\ fs[k].upvalues # <<>> => k > 1
                      /\ \A i \in DOMAIN fs[k].upvalues : Captured(fs[k - 1], fs[k].upvalues[i])
                      /\ IsInjective(fs[k].upvalues)
    BY <1>2 DEF Resolves
  <2>1. fs[k] = cs[k] /\ k \in 1..n
    BY <1>2, <1>3
  <2>2. /\ cs[k].upvalues # <<>> => k > 1
        /\ \A i \in DOMAIN cs[k].upvalues : Captured(cs[k - 1], cs[k].upvalues[i])
        /\ IsInjective(cs[k].upvalues)
    BY <2>1 DEF Sound, Resolves, n
  <2>3. CASE cs[k].upvalues = <<>>
    BY <2>1, <2>2, <2>3
  <2>4. CASE cs[k].upvalues # <<>>
    <3>1. fs[k - 1] = cs[k - 1]
      BY <1>2, <1>3, <2>2, <2>4
    <3>2. QED
      BY <2>1, <2>2, <3>1
  <2>5. QED
    BY <2>3, <2>4
<1>6. Sound(fs)
  <2>1. \A k \in 1..(n - 1) : Scoped(fs[k])
    BY <1>2, <1>3 DEF Sound, n
  <2>2. \A k \in 1..((n - 1) - 1) : Settled(fs[k])
    BY <1>2, <1>3 DEF Sound, n
  <2>3. QED
    BY <1>2, <1>5, <2>1, <2>2 DEF Sound
<1>7. ASSUME NEW m \in Situation, m.compiler \in 1..(n - 1), Fits(cs, m)
      PROVE  Fits(fs, m)
  <2>1. \A j \in 1..m.compiler : j \in 1..(n - 1)
    BY <1>1, <1>7
  <2>2. InMethod(cs, m.compiler) => InMethod(fs, m.compiler)
    BY <1>2, <2>1 DEF InMethod
  <2>3. fs[m.compiler] = cs[m.compiler]
    BY <1>2, <1>7
  <2>4. QED
    BY <1>7, <2>2, <2>3 DEF Fits
<1>8. QED
  BY <1>2, <1>4, <1>6, <1>7 DEF fs, n

LEMMA EndFunctionStep ==
  ASSUME CompilerInv, UNCHANGED grammar, EndFunction
  PROVE  CompilerInv'
<1> DEFINE n         == Len(compilers)
           outer     == compilers[n - 1]
           ended     == EndCompiler(Cur)
           enclosing == Pool(outer, Function(Len(functions) + 1))
           operands  == FlattenSeq([i \in DOMAIN ended.upvalues |-> UpvalueBytes(ended.upvalues[i])])
           closure   == Emit(enclosing, OpIndex("OP_CLOSURE", LastConstant(enclosing)) \o operands)
           fs        == Front(compilers)
           es        == [fs EXCEPT ![Len(fs)] = closure]
<1>1. /\ rules # <<>> /\ Head(rules).rule = "function" /\ rules \in Seq(RuleType)
      /\ rules' = Tail(rules) /\ UNCHANGED <<current, length, compilation>>
      /\ functions' = Append(functions, FunctionObject(ended))
      /\ compilers' = Append(Front(Front(compilers)), closure)
  BY DEF EndFunction, At, CompilerInv
<1>2. PICK l \in Situation : Expects(rules, compilers, l) /\ l.compiler = n
  BY <1>1, Below
<1>3. PICK m \in Situation :
        /\ Expects(Tail(rules), compilers, m) /\ Leads(compilers, Head(rules), l, m)
        /\ m.compiler \in 1..l.compiler
  BY <1>1, <1>2, EndRule
<1>4. m.compiler = n - 1 /\ Fits(compilers, m)
  BY <1>1, <1>2, <1>3, LeadsBy
<1>5. Sound(compilers) /\ n \in Nat /\ Cur \in CompilerType
  BY InvariantHere
<1>6. n > 1 /\ m.compiler \in 1..(n - 1)
  BY <1>2, <1>3, <1>4, <1>5
<1>7. /\ Sound(fs) /\ Len(fs) = n - 1 /\ Last(fs) = outer /\ fs \in Seq(CompilerType)
      /\ \A x \in Situation : x.compiler \in 1..(n - 1) /\ Fits(compilers, x) => Fits(fs, x)
  BY <1>5, <1>6, FrontSound
<1>8. outer \in CompilerType
  BY <1>5, <1>6 DEF Sound
<1>9. Keeps(Cur, ended)
  BY <1>5, EndCompilerKeeps
<1>10. operands \in Seq(0..255)
  <2>1. ended.upvalues \in Seq(UpvalueType)
    BY <1>9 DEF Keeps, CompilerType
  <2> HIDE DEF ended
  <2>2. QED
    BY <2>1, UpvalueOperands
<1>11. functions' \in Seq(FunctionType) /\ Len(functions) + 1 \in Nat
  <2>1. FunctionObject(ended) \in FunctionType
    BY <1>9, FunctionObjectType DEF Keeps
  <2>2. functions \in Seq(FunctionType)
    BY DEF CompilerInv
  <2> HIDE DEF ended
  <2>3. QED
    BY <1>1, <2>1, <2>2
<1> HIDE DEF ended, operands, outer
<1>12. Keeps(outer, enclosing) /\ LastConstant(enclosing) \in Int
  <2>1. Function(Len(functions) + 1) \in ConstantValue
    BY <1>11, ConstantTypes
  <2>2. QED
    BY <1>8, <2>1, PoolKeeps
<1> HIDE DEF enclosing
<1>13. Keeps(outer, closure)
  <2>1. "OP_CLOSURE" \in OpCodeName
    BY OpCodeNames
  <2>2. OpIndex("OP_CLOSURE", LastConstant(enclosing)) \in Seq(0..255)
    BY <1>12, <2>1, OpType
  <2>3. OpIndex("OP_CLOSURE", LastConstant(enclosing)) \o operands \in Seq(0..255)
    BY <1>10, <2>2
  <2>4. QED
    BY <1>12, <2>3, EmittedHere
<1> HIDE DEF closure
<1>14. Resolved(fs, es)
  <2>1. fs \in Seq(CompilerType) /\ fs # <<>> /\ Resolves(fs)
    BY <1>7 DEF Sound
  <2>2. QED
    BY <1>7, <1>13, <2>1, WithLastResolved
<1>15. /\ Sound(es) /\ Len(es) = n - 1
       /\ \A x \in Situation : x.compiler \in 1..(n - 1) /\ Fits(fs, x) => Fits(es, x)
  BY <1>7, <1>14, ResolvedSound
<1>16. compilers' = es
  <2>1. Len(fs) \in Nat \ {0}
    BY <1>5, <1>6, <1>7
  <2>2. Append(Front(fs), closure) = [fs EXCEPT ![Len(fs)] = closure]
    <3> HIDE DEF fs
    <3>1. closure \in CompilerType
      BY <1>13 DEF Keeps
    <3>2. /\ Front(fs) \in Seq(CompilerType) /\ Len(Front(fs)) = Len(fs) - 1
          /\ \A k \in 1..(Len(fs) - 1) : Front(fs)[k] = fs[k]
      BY <1>7, <2>1 DEF Front
    <3> DEFINE a == Append(Front(fs), closure)
               b == [fs EXCEPT ![Len(fs)] = closure]
    <3>3. a \in Seq(CompilerType) /\ Len(a) = Len(fs)
      BY <2>1, <3>1, <3>2
    <3>4. b \in Seq(CompilerType) /\ Len(b) = Len(fs)
      BY <1>7, <2>1, <3>1
    <3>5. ASSUME NEW k \in 1..Len(fs)
          PROVE  a[k] = b[k]
      <4>1. CASE k = Len(fs)
        BY <1>7, <2>1, <3>1, <3>2, <4>1
      <4>2. CASE k # Len(fs)
        <5>1. k \in 1..(Len(fs) - 1)
          BY <2>1, <4>2
        <5>2. QED
          BY <1>7, <2>1, <3>1, <3>2, <4>2, <5>1
      <4>3. QED
        BY <4>1, <4>2
    <3> HIDE DEF a, b
    <3>6. a = b
      BY <3>3, <3>4, <3>5
    <3>7. QED
      BY <3>6 DEF a, b
  <2>3. QED
    BY <1>1, <2>2
<1> HIDE DEF es, fs
<1>17. Tail(rules) \in Seq(RuleType) /\ Tail(rules) # <<>>
  BY <1>1, <1>3, TailType
<1>18. Expects(Tail(rules), es, m)
  <2>1. Len(es) \in Nat /\ m.compiler <= Len(es)
    BY <1>4, <1>5, <1>6, <1>15
  <2>2. ASSUME NEW x \in Situation, x.compiler \in 1..(m.compiler - 1), Fits(compilers, x)
        PROVE  Fits(es, x)
    <3>1. x.compiler \in 1..(n - 1)
      BY <1>4, <1>5, <2>2
    <3>2. QED
      BY <1>7, <1>15, <2>2, <3>1
  <2>3. QED
    BY <1>3, <1>17, <2>1, <2>2, Recompile
<1>19. Nested(Tail(rules), es)
  BY <1>4, <1>6, <1>7, <1>15, <1>18 DEF Nested
<1>20. compilation' = "compiling" /\ current' \in InfixToken \cup {"other"} /\ length' \in 0..Len(Source)
  BY <1>1 DEF CompilerInv, TypeOK
<1>21. QED
  BY <1>1, <1>11, <1>15, <1>16, <1>17, <1>19, <1>20, Step

LEMMA EndScriptStep ==
  ASSUME CompilerInv, UNCHANGED grammar, EndScript
  PROVE  CompilerInv'
<1> DEFINE ended == EndCompiler(Cur)
<1>1. /\ rules # <<>> /\ Head(rules).rule = "script"
      /\ rules' = <<>> /\ compilation' = "compiled" /\ UNCHANGED <<current, length>>
      /\ functions' = [functions EXCEPT ![Script] = FunctionObject(ended)]
      /\ compilers' = <<ended>>
  BY DEF EndScript, At
<1>2. Len(compilers) = 1
  BY <1>1, Below DEF Accepts
<1>3. /\ compilers \in Seq(CompilerType) /\ Cur \in CompilerType /\ Cur = Last(compilers)
      /\ Cur = compilers[1] /\ Sound(compilers)
  BY <1>2, InvariantHere DEF Sound
<1>4. Keeps(Cur, ended)
  BY <1>3, EndCompilerKeeps
<1> HIDE DEF ended
<1>5. Resolved(compilers, WithLast(ended))
  BY <1>4, Emitting
<1>6. Sound(WithLast(ended))
  BY <1>3, <1>5, ResolvedSound
<1>7. WithLast(ended) = <<ended>>
  <2>1. compilers = <<compilers[1]>>
    BY <1>2, <1>3
  <2>2. QED
    BY <1>2, <2>1 DEF WithLast
<1>8. functions' \in Seq(FunctionType)
  <2>1. functions \in Seq(FunctionType)
    BY DEF CompilerInv
  <2>2. FunctionObject(ended) \in FunctionType
    BY <1>4, FunctionObjectType DEF Keeps
  <2>3. QED
    BY <1>1, <2>1, <2>2, ExceptAnywhere
<1>9. /\ <<>> \in Seq(RuleType)
      /\ current' \in InfixToken \cup {"other"} /\ length' \in 0..Len(Source)
  BY <1>1 DEF CompilerInv, TypeOK
<1>10. QED
  BY <1>1, <1>6, <1>7, <1>8, <1>9, Step

-------------------------------------------------------------------------------
(***************************************************************************)
(* The invariant holds from the start and every step preserves it.         *)
(***************************************************************************)

\* A script begins outside of all scopes, with nothing to do but itself.
LEMMA ScriptNested ==
  ASSUME NEW c \in CompilerType, c.current_scope_depth = 0, Settled(c), c.within_class = FALSE
  PROVE  Nested(<<Rule("script")>>, <<c>>)
<1> DEFINE l  == [compiler |-> 1, depth |-> 0, at |-> "statement"]
           L  == <<l>>
           rs == <<Rule("script")>>
           cs == <<c>>
<1>1. l \in Situation
  BY DEF Situation
<1>2. /\ L \in Seq(Situation) /\ Len(L) = 1 /\ L[1] = l /\ L # <<>>
      /\ Len(rs) = 1 /\ rs[1] = Rule("script") /\ Len(cs) = 1 /\ cs[1] = c
  BY <1>1
<1>3. Rule("script").rule = "script"
  BY RuleTypes DEF Rule
<1>4. Accepts(Rule("script"), l)
  BY <1>3 DEF Accepts, ScopedRule
<1>5. l.compiler = 1 /\ l.depth = 0 /\ l.at = "statement"
  OBVIOUS
<1> HIDE DEF L, l, rs, cs
<1>6. Situations(rs, cs, L)
  <2>1. Last(rs).rule = "script"
    BY <1>2, <1>3 DEF Last
  <2>2. \A i \in 1..Len(L) : L[i].compiler \in 1..Len(cs) /\ Accepts(rs[i], L[i])
    BY <1>2, <1>4, <1>5
  <2>3. \A i, j \in 1..Len(L) : i <= j => L[j].compiler <= L[i].compiler
    BY <1>2, <1>5
  <2>4. \A i \in 1..(Len(L) - 1) : Leads(cs, rs[i], L[i], L[i + 1])
    BY <1>2
  <2>5. QED
    BY <1>2, <2>1, <2>2, <2>3, <2>4 DEF Situations
<1>7. Fits(cs, l)
  BY <1>2, <1>5 DEF Fits
<1>8. QED
  BY <1>1, <1>2, <1>5, <1>6, <1>7 DEF Nested, Expects, rs, cs

LEMMA InitInv == Init => CompilerInv
<1> SUFFICES ASSUME Init
             PROVE  CompilerInv
  OBVIOUS
<1> DEFINE c == NewCompiler("TOP_LEVEL_SCRIPT", FALSE)
           first == FirstLocal("TOP_LEVEL_SCRIPT")
<1>1. /\ c \in CompilerType /\ c.locals = <<first>> /\ first.local_scope_depth = 0
      /\ c.current_scope_depth = 0 /\ c.upvalues = <<>> /\ c.within_class = FALSE
  BY NewCompilerType
<1>2. /\ functions = <<FunctionObject(c)>> /\ compilers = <<c>> /\ rules = <<Rule("script")>>
      /\ current = "other" /\ length = 0 /\ compilation = "compiling" /\ grammar \in Grammars
  BY DEF Init
<1> HIDE DEF c, first
<1>3. compilers \in Seq(CompilerType) /\ Len(compilers) = 1 /\ compilers[1] = c /\ compilers # <<>>
  BY <1>1, <1>2
<1>4. Scoped(c) /\ Settled(c)
  BY <1>1 DEF Scoped, Settled, Last, Uninitialised
<1>5. functions \in Seq(FunctionType)
  BY <1>1, <1>2, FunctionObjectType
<1>6. rules \in Seq(RuleType) /\ rules # <<>>
  <2>1. Rule("script") \in RuleType
    BY RuleTypes
  <2>2. QED
    BY <1>2, <2>1
<1>7. length \in 0..Len(Source)
  <2>1. Source \in Seq(SUBSET STRING)
    BY <1>2, CompilerConstants DEF Source
  <2>2. QED
    BY <1>2, <2>1
<1>8. TypeOK
  BY <1>2, <1>3, <1>6, <1>7 DEF TypeOK
<1>9. LocalsScoped
  <2>1. \A k \in DOMAIN compilers : compilers[k] = c
    BY <1>2
  <2>2. QED
    BY <1>4, <2>1, ScopedEverywhere
<1>10. UpvaluesResolve
  <2>1. Resolves(compilers)
    BY <1>1, <1>3 DEF Resolves, IsInjective
  <2>2. QED
    BY <1>3, <2>1, ResolvesHere
<1>11. RulesNest
  BY <1>1, <1>2, <1>4, ScriptNested DEF RulesNest
<1>12. EnclosingSettled
  BY <1>3 DEF EnclosingSettled
<1>13. QED
  BY <1>5, <1>6, <1>8, <1>9, <1>10, <1>11, <1>12 DEF CompilerInv

LEMMA DeclarationSteps ==
  ASSUME CompilerInv, UNCHANGED grammar, Declaration
  PROVE  CompilerInv'
<1>1. CASE \E name \in Names : VariableDeclaration(name)
  BY <1>1, VariableDeclarationStep
<1>2. CASE \E name \in Names : ClassDeclaration(name)
  BY <1>2, ClassDeclarationStep
<1>3. CASE \E name \in Names, parameters \in Parameters : FunctionDeclaration(name, parameters)
  BY <1>3, FunctionDeclarationStep
<1>4. CASE ReturnStatement
  BY <1>4, ReturnStatementStep
<1>5. CASE \E name \in Members, parameters \in Parameters : Method(name, parameters)
  BY <1>5, MethodStep
<1>6. CASE EndClass
  BY <1>6, EndClassStep
<1>7. CASE EndFunction
  BY <1>7, EndFunctionStep
<1>8. CASE EndScript
  BY <1>8, EndScriptStep
<1>9. QED
  BY <1>1, <1>2, <1>3, <1>4, <1>5, <1>6, <1>7, <1>8 DEF Declaration

LEMMA StatementSteps ==
  ASSUME CompilerInv, UNCHANGED grammar, Statement
  PROVE  CompilerInv'
<1>1. CASE PrintStatement \/ ExpressionStatement
  BY <1>1, SimpleStatementSteps
<1>2. CASE Block
  BY <1>2, BlockStep
<1>3. CASE EndBlock
  BY <1>3, EndBlockStep
<1>4. CASE IfStatement \/ WhileStatement
  BY <1>4, IfWhileSteps
<1>5. CASE Then
  BY <1>5, ThenStep
<1>6. CASE Else
  BY <1>6, ElseStep
<1>7. CASE WhileBody
  BY <1>7, WhileBodyStep
<1>8. CASE EndWhile
  BY <1>8, EndWhileStep
<1>9. CASE ForStatement
  BY <1>9, ForStatementStep
<1>10. CASE ForCondition
  BY <1>10, ForConditionStep
<1>11. CASE ForExit
  BY <1>11, ForExitStep
<1>12. CASE ForIncrement
  BY <1>12, ForIncrementStep
<1>13. CASE ForLoop
  BY <1>13, ForLoopStep
<1>14. CASE EndFor
  BY <1>14, EndForStep
<1>15. QED
  BY <1>1, <1>2, <1>3, <1>4, <1>5, <1>6, <1>7, <1>8, <1>9, <1>10, <1>11, <1>12, <1>13, <1>14
     DEF Statement

LEMMA OperandSteps ==
  ASSUME CompilerInv, UNCHANGED grammar, Operands
  PROVE  CompilerInv'
<1>1. CASE \/ \E op \in {"OP_NIL", "OP_TRUE", "OP_FALSE"} : Literal(op)
           \/ \E n \in Numbers : NumberLiteral(n)
  BY <1>1, LiteralSteps
<1>2. CASE \E name \in Names : Variable(name)
  BY <1>2, VariableStep
<1>3. CASE This
  BY <1>3, ThisStep
<1>4. CASE Grouping \/ EndGrouping \/ EndExpression
  BY <1>4, GroupingSteps
<1>5. CASE \E op \in {"OP_NEGATE", "OP_NOT"} : Unary(op)
  BY <1>5, UnaryStep
<1>6. CASE \E token \in DOMAIN BinaryOperator : Binary(token)
  BY <1>6, BinaryStep
<1>7. CASE And
  BY <1>7, AndStep
<1>8. CASE Or
  BY <1>8, OrStep
<1>9. CASE Call
  BY <1>9, CallStep
<1>10. CASE Argument
  BY <1>10, ArgumentStep
<1>11. CASE \E name \in Members : Dot(name)
  BY <1>11, DotStep
<1>12. CASE Finish
  BY <1>12, FinishEmitSteps, FinishDefineStep
<1>13. QED
  BY <1>1, <1>2, <1>3, <1>4, <1>5, <1>6, <1>7, <1>8, <1>9, <1>10, <1>11, <1>12 DEF Operands

LEMMA NextInv == CompilerInv /\ [Next]_compilerVars => CompilerInv'
<1> SUFFICES ASSUME CompilerInv, [Next]_compilerVars
             PROVE  CompilerInv'
  OBVIOUS
<1>1. CASE Next
  BY <1>1, DeclarationSteps, StatementSteps, OperandSteps DEF Next
<1>2. CASE UNCHANGED compilerVars
  <2>1. UNCHANGED <<functions, compilers, rules, current, length, compilation, grammar>>
    BY <1>2 DEF compilerVars
  <2>2. /\ Sound(compilers')
        /\ rules' # <<>> => Nested(rules', compilers')
    BY <2>1, InvariantHere
  <2>3. /\ rules' \in Seq(RuleType) /\ functions' \in Seq(FunctionType)
        /\ current' \in InfixToken \cup {"other"}
        /\ length' \in 0..Len(Source)
    BY <2>1 DEF CompilerInv, TypeOK
  <2>4. /\ compilation' \in {"compiling", "compiled", "error"}
        /\ (compilation' = "compiling") <=> (rules' # <<>>)
    <3>1. /\ compilation \in {"compiling", "compiled", "error"}
          /\ (compilation = "compiling") <=> (rules # <<>>)
      BY DEF CompilerInv, TypeOK
    <3>2. QED
      BY <2>1, <3>1
  <2>5. UNCHANGED grammar
    BY <2>1
  <2>6. QED
    BY <2>2, <2>3, <2>4, <2>5, Step
<1>3. QED
  BY <1>1, <1>2

\* The rules on the stack fit together and the compilers fit them, whatever the
\* program, in every step of its compilation.
THEOREM CompilerInvariant == Spec => []CompilerInv
<1>1. QED
  BY InitInv, NextInv, PTL DEF Spec

\* A Compiler and the parser's state are of their types in every step.
THEOREM CompilerTypeOK == Spec => []TypeOK
<1>1. CompilerInv => TypeOK
  BY DEF CompilerInv
<1>2. QED
  BY <1>1, CompilerInvariant, PTL

\* In every function under compilation endScope and endCompiler find the locals they
\* must pop at the back and nowhere else, and only the newest is without its value:
\* for programs of any length, nesting and number of names.
THEOREM LocalsStayScoped == Spec => []LocalsScoped
<1>1. CompilerInv => LocalsScoped
  BY DEF CompilerInv
<1>2. QED
  BY <1>1, CompilerInvariant, PTL

\* Whatever resolveUpvalue hands from function to function, the enclosing one still
\* has it: a local in scope, with its value and marked captured, or an upvalue, and
\* none twice, however many functions lie between.
THEOREM UpvaluesStayResolved == Spec => []UpvaluesResolve
<1>1. CompilerInv => UpvaluesResolve
  BY DEF CompilerInv
<1>2. QED
  BY <1>1, CompilerInvariant, PTL

\* No function that compiler.cpp finishes looks up this as a global variable: the
\* name never reaches a constant pool.
THEOREM ThisStaysReceiver == Spec => []ThisIsReceiver
<1>1. ASSUME CompilerInv
      PROVE  ThisIsReceiver
  <2> SUFFICES ASSUME NEW i \in DOMAIN functions, NEW j \in DOMAIN functions[i].constant_pool,
                      functions[i].constant_pool[j] = Name("this")
               PROVE  FALSE
    BY DEF ThisIsReceiver, Range
  <2>1. functions \in Seq(FunctionType) /\ grammar \in Grammars
    BY <1>1 DEF CompilerInv, TypeOK
  <2>2. functions[i] \in FunctionType
    BY <2>1
  <2>3. functions[i].constant_pool \in Seq(ConstantValue)
    BY <2>2 DEF FunctionType
  <2>4. Name("this") \in ConstantValue
    BY <2>3
  <2>5. "this" \in Names \cup Members
    BY <2>4 DEF ConstantValue, Name
  <2>6. QED
    BY <2>1, <2>5, CompilerConstants DEF Names, Members
<1>2. QED
  BY <1>1, CompilerInvariant, PTL
================================================================================
