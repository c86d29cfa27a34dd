-------------------------------- MODULE Compiler --------------------------------
(***************************************************************************)
(* The single-pass compiler of src/compiler.cpp: scopes, resolution of     *)
(* names to locals, upvalues and globals, and the byte code each grammar   *)
(* rule emits, for every program the grammar generates.                    *)
(*                                                                         *)
(* The recursion of the grammar rules is a stack: rules holds what the     *)
(* rules entered have still to do, innermost first.  Where the code looks  *)
(* at the current token to decide, the model decides for any; programs are *)
(* well-formed, but scope errors are found as the code finds them.         *)
(***************************************************************************)
EXTENDS Chunk, Locals, SequencesExt, FiniteSetsExt

CONSTANTS
  Grammars, \* families of programs, each by what its programs may be made of
  Numbers   \* number literals

\* Of a grammar: the identifiers of variables, functions and classes, and of
\* methods and properties; source, the constructs there may be at each position,
\* whose length bounds the declarations, statements, operands and operators of a
\* program; idioms, optional constructs and ways to combine the others; bounds on
\* the parameters of a function, and on functions in each other, the script included.
ASSUME CompilerConstants == \A g \in Grammars :
  /\ g.source \in Seq(SUBSET STRING) /\ g.idioms \subseteq STRING
  /\ g.parameters \in Nat /\ g.functions \in Nat
  /\ "this" \notin g.names \cup g.members /\ "" \notin g.names

VARIABLES
  rules,       \* what the grammar rules entered have still to do
  current,     \* behind an operand: the infix operator that follows, or "other"
  length,      \* how many declarations, statements, operands, operators were read
  compilation, \* "compiling", "compiled" or "error"
  grammar      \* the family of the program, the same throughout

compilerVars == <<functions, compilers, rules, current, length, compilation, grammar>>

Names         == grammar.names
Members       == grammar.members
Source        == grammar.source
Idioms        == grammar.idioms
MaxParameters == grammar.parameters
MaxFunctions  == grammar.functions

-------------------------------------------------------------------------------
(***************************************************************************)
(* Compilers and the helpers they emit with, as functions from a Compiler  *)
(* to the Compiler it becomes.                                             *)
(***************************************************************************)
\* heights is no part of the program: at the address where a declaration or a
\* statement begins it keeps how many locals the compiler counts there.
NewCompiler(function_type, within_class) ==
  [function_type |-> function_type, within_class |-> within_class,
   current_scope_depth |-> 0,
   locals |-> <<FirstLocal(function_type)>>,
   upvalues |-> <<>>, arity |-> 0, byte_code |-> <<>>, constant_pool |-> <<>>,
   heights |-> {}]

Emit(c, bytes) == [c EXCEPT !.byte_code = @ \o bytes]

Pool(c, constant) == [c EXCEPT !.constant_pool = Append(@, constant)]
LastConstant(c)   == Len(c.constant_pool) - 1

AddConstant(c, value) == Emit(Pool(c, value), OpIndex("OP_CONSTANT", Len(c.constant_pool)))

EmitJump(c, op) == Emit(c, OpIndex(op, 65535))
JumpOffset(c)   == Len(c.byte_code) - 2

\* Mutant: the operand of the jump counts as distance.
PatchJumpFromOperand(c, offset) ==
  LET jump == IndexBytes(Len(c.byte_code) - offset)
  IN  [c EXCEPT !.byte_code[offset + 1] = jump[1], !.byte_code[offset + 2] = jump[2]]
PatchJump(c, offset) ==
  LET jump == IndexBytes(Len(c.byte_code) - offset - 2)
  IN  [c EXCEPT !.byte_code[offset + 1] = jump[1], !.byte_code[offset + 2] = jump[2]]

EmitLoop(c, loop_start) ==
  LET looped == Emit(c, Op("OP_LOOP"))
  IN  Emit(looped, IndexBytes(Len(looped.byte_code) - loop_start + 2))

\* Mutant: captured locals are popped, not closed.
LeaveScopeClosesNone(local) == Op("OP_POP")
LeaveScope(local) == Op(IF local.is_captured THEN "OP_CLOSE_UPVALUE" ELSE "OP_POP")

EndScope(c) ==
  LET leaving == Reverse(SubSeq(c.locals, LocalsKept(c) + 1, Len(c.locals)))
  IN  Emit(PopScope(c), FlattenSeq([i \in DOMAIN leaving |-> LeaveScope(leaving[i])]))

ParseVariable(c, name) ==
  LET declared == DeclareVariable(c, name)
  IN  IF c.current_scope_depth > 0 THEN declared ELSE Pool(declared, Name(name))

DefineVariable(c, index) ==
  IF c.current_scope_depth > 0 THEN MarkInitialized(c)
  ELSE Emit(c, OpIndex("OP_DEFINE_GLOBAL", index))

AddUpvalue(c, upvalue) ==
  IF Contains(c.upvalues, upvalue) THEN c
  ELSE [c EXCEPT !.upvalues = Append(@, upvalue)]
\* Mutant: the size once the upvalue is added, not its index.
UpvalueIndexFromOne(c, upvalue) ==
  CHOOSE i \in DOMAIN c.upvalues : c.upvalues[i] = upvalue
UpvalueIndex(c, upvalue) ==
  (CHOOSE i \in DOMAIN c.upvalues : c.upvalues[i] = upvalue) - 1

\* Mutant: an initializer returns nil, like any function.
EndCompilerWithNil(c) == Emit(c, Op("OP_NIL") \o Op("OP_RETURN"))
EndCompiler(c) ==
  Emit(c, (IF c.function_type = "INITIALIZER" THEN OpIndex("OP_GET_LOCAL", 0)
                                              ELSE Op("OP_NIL")) \o Op("OP_RETURN"))

FunctionObject(c) ==
  [arity |-> c.arity, upvalue_count |-> Len(c.upvalues), byte_code |-> c.byte_code,
   constant_pool |-> c.constant_pool, heights |-> c.heights]

-------------------------------------------------------------------------------
(***************************************************************************)
(* Resolution of a name along the enclosing compilers.                     *)
(***************************************************************************)
\* Mutant: the local is not marked captured.
ResolveUpvalueUnmarked(name) ==
  LET owner == Owner(name)
      slot  == ResolveVariable(compilers[owner], name)
      chain[k \in owner..Len(compilers)] ==
        IF k = owner THEN [compiler |-> compilers[k], index |-> slot]
        ELSE LET upvalue == [type |-> IF k = owner + 1 THEN 1 ELSE 0,
                             index |-> chain[k - 1].index]
                 added   == AddUpvalue(compilers[k], upvalue)
             IN  [compiler |-> added, index |-> UpvalueIndex(added, upvalue)]
  IN  chain

\* resolveUpvalue: the owner marks its local captured, and every compiler from
\* the owner's child to the current one gets a descriptor that refers to the one
\* before: a Local in the child, NotLocal further in.
ResolveUpvalue(name) ==
  LET owner  == Owner(name)
      slot   == ResolveVariable(compilers[owner], name)
      chain[k \in owner..Len(compilers)] ==
        IF k = owner
        THEN [compiler |-> [compilers[k] EXCEPT !.locals[slot + 1].is_captured = TRUE],
              index    |-> slot]
        ELSE LET upvalue == [type |-> IF k = owner + 1 THEN 1 ELSE 0,
                             index |-> chain[k - 1].index]
                 added   == AddUpvalue(compilers[k], upvalue)
             IN  [compiler |-> added, index |-> UpvalueIndex(added, upvalue)]
  IN  chain

\* namedVariable: the compilers once the name is resolved, and the operands to
\* read and to write it.
NamedVariable(name) ==
  LET owner == Owner(name) IN
  IF owner = Len(compilers)
    THEN LET index == ResolveVariable(Cur, name)
         IN  [compilers |-> compilers, get |-> OpIndex("OP_GET_LOCAL", index),
              set |-> OpIndex("OP_SET_LOCAL", index)]
  ELSE IF owner > 0
    THEN LET chain == ResolveUpvalue(name)
             index == chain[Len(compilers)].index
         IN  [compilers |-> [k \in DOMAIN compilers |->
                               IF k < owner THEN compilers[k] ELSE chain[k].compiler],
              get |-> OpIndex("OP_GET_UPVALUE", index),
              set |-> OpIndex("OP_SET_UPVALUE", index)]
  ELSE LET pooled == Pool(Cur, Name(name))
       IN  [compilers |-> [compilers EXCEPT ![Len(compilers)] = pooled],
            get |-> OpIndex("OP_GET_GLOBAL", LastConstant(pooled)),
            set |-> OpIndex("OP_SET_GLOBAL", LastConstant(pooled))]

-------------------------------------------------------------------------------
(***************************************************************************)
(* The steps between two decisions of the parser.  A rule to go on with is *)
(* a record: its name and what its local variables hold.                   *)
(***************************************************************************)
Rule(rule)      == [rule |-> rule]
Emits(bytes)    == [rule |-> "emit", bytes |-> bytes]
Patches(offset) == [rule |-> "patch", offset |-> offset]
Defines(index)  == [rule |-> "define", index |-> index]
Expression      == [rule |-> "parsePrecedence", level |-> "ASSIGNMENT"]

At(rule) == rules # <<>> /\ Head(rules).rule = rule

\* Reading on is bounded; what is required to finish the program is not.
MayRead          == length < Len(Source)
Reads(construct) == MayRead /\ construct \in Source[length + 1]
Read             == length' = IF MayRead THEN length + 1 ELSE length

\* The current rule goes on with c as the compiler and next as what is to do.
Continue(cs, next) ==
  /\ compilers' = cs /\ rules' = next \o Tail(rules)
  /\ UNCHANGED <<functions, compilation>>

ReportError ==
  /\ compilation' = "error" /\ rules' = <<>>
  /\ UNCHANGED <<functions, compilers, current, length>>

\* declaration() and statement(), called by the loops of a script and of a
\* block, or once for a branch or a loop body.
InLoop == At("script") \/ At("block")
ReturnExpected      == InLoop \/ At("declaration")
DeclarationExpected == InLoop \/ (At("declaration") /\ "branch_declaration" \in Idioms)
StatementExpected   == InLoop \/ At("declaration") \/ At("statement")

Here == [Cur EXCEPT !.heights = @ \cup {<<Len(Cur.byte_code), Len(Cur.locals)>>}]

Begin(cs, next) ==
  /\ compilers' = cs
  /\ rules' = next \o (IF InLoop THEN rules ELSE Tail(rules))
  /\ Read
  /\ UNCHANGED <<functions, current, compilation>>

Init ==
  /\ functions = <<FunctionObject(NewCompiler("TOP_LEVEL_SCRIPT", FALSE))>>
  /\ compilers = <<NewCompiler("TOP_LEVEL_SCRIPT", FALSE)>>
  /\ rules = <<Rule("script")>>
  /\ current = "other" /\ length = 0
  /\ compilation = "compiling"
  /\ grammar \in Grammars

-------------------------------------------------------------------------------
(***************************************************************************)
(* Declarations.                                                           *)
(***************************************************************************)

\* The index parseVariable returned: 0 for a local.
VariableIndex(c) == IF c.current_scope_depth > 0 THEN 0 ELSE LastConstant(c)

\* variableDeclaration from the name on, in the compiler c.
DeclareAnd(c, name, next) ==
  LET parsed == ParseVariable(c, name)
      index  == VariableIndex(parsed)
  IN  \/ Begin(WithLast(DefineVariable(Emit(parsed, Op("OP_NIL")), index)), next)
      \/ Begin(WithLast(parsed), <<Expression, Defines(index)>> \o next)

VariableDeclaration(name) ==
  /\ Reads("var") /\ DeclarationExpected
  /\ IF Redeclares(Here, name) THEN ReportError ELSE DeclareAnd(Here, name, <<>>)

Parameters == UNION {[1..n -> Names] : n \in 0..MaxParameters}

\* The Compiler of a function once its parameters are declared, in scope 1.
\* Mutant: the Compiler of an initializer is constructed as one, without this.
FunctionCompilerOfInit(function_type, name, parameters) ==
  LET type == IF name = "init" THEN "INITIALIZER" ELSE function_type
      new  == BeginScope(NewCompiler(type, Cur.within_class))
      Parameter(p) == Local(p, new.current_scope_depth)
  IN  [new EXCEPT !.arity = Len(parameters),
                  !.locals = @ \o [i \in DOMAIN parameters |-> Parameter(parameters[i])]]
FunctionCompiler(function_type, name, parameters) ==
  LET type == IF name = "init" THEN "INITIALIZER" ELSE function_type
      new  == BeginScope(NewCompiler(function_type, Cur.within_class))
      Parameter(p) == Local(p, new.current_scope_depth)
  IN  [new EXCEPT !.function_type = type, !.arity = Len(parameters),
                  !.locals = @ \o [i \in DOMAIN parameters |-> Parameter(parameters[i])]]

\* function(): up to its block; the rest is EndFunction.
EnterFunction(c, function_type, name, parameters) ==
  Append(WithLast(c), BeginScope(FunctionCompiler(function_type, name, parameters)))
FunctionBody == <<Rule("block"), Rule("function")>>

FunctionDeclaration(name, parameters) ==
  /\ Reads("fun") /\ DeclarationExpected
  /\ Len(compilers) < MaxFunctions
  /\ IF Redeclares(Here, name) \/ ~IsInjective(parameters) THEN ReportError
     ELSE LET parsed == MarkInitialized(ParseVariable(Here, name))
          IN  Begin(EnterFunction(parsed, "FUNCTION", name, parameters),
                    FunctionBody \o <<Defines(VariableIndex(parsed))>>)

EndFunction ==
  /\ At("function")
  /\ LET ended     == EndCompiler(Cur)
         enclosing == Pool(compilers[Len(compilers) - 1], Function(Len(functions) + 1))
         operands  == FlattenSeq([i \in DOMAIN ended.upvalues |-> UpvalueBytes(ended.upvalues[i])])
         closure   == Emit(enclosing, OpIndex("OP_CLOSURE", LastConstant(enclosing)) \o operands)
     IN  /\ functions' = Append(functions, FunctionObject(ended))
         /\ compilers' = Append(Front(Front(compilers)), closure)
  /\ rules' = Tail(rules)
  /\ UNCHANGED <<current, length, compilation>>

ReturnStatement ==
  /\ Reads("return") /\ ReturnExpected
  /\ Len(Cur.locals) > 1 + Cur.arity => "return_from_scope" \in Idioms
  /\ IF Cur.function_type = "INITIALIZER" \/ Len(compilers) = 1 THEN ReportError
     ELSE \/ Begin(WithLast(Emit(Here, Op("OP_NIL") \o Op("OP_RETURN"))), <<>>)
          \/ Begin(WithLast(Here), <<Expression, Emits(Op("OP_RETURN"))>>)

\* The class stays on the stack, read back by name, while its methods are added.
ClassDeclaration(name) ==
  /\ Reads("class") /\ DeclarationExpected
  /\ IF Redeclares(Here, name) THEN ReportError
     ELSE LET pooled   == Pool(Here, Name(name))
              index    == LastConstant(pooled)
              declared == Emit(DeclareVariable(pooled, name), OpIndex("OP_CLASS", index))
              defined  == [DefineVariable(declared, index) EXCEPT !.within_class = TRUE]
              named    == IF defined.current_scope_depth > 0
                          THEN Emit(defined, OpIndex("OP_GET_LOCAL", ResolveVariable(defined, name)))
                          ELSE LET again == Pool(defined, Name(name))
                               IN  Emit(again, OpIndex("OP_GET_GLOBAL", LastConstant(again)))
          IN  Begin(WithLast(named), <<Rule("class")>>)

Method(name, parameters) ==
  /\ Reads("method") /\ At("class")
  /\ Len(compilers) < MaxFunctions
  /\ IF ~IsInjective(parameters) THEN ReportError
     ELSE LET pooled == Pool(Cur, Name(name))
          IN  /\ compilers' = EnterFunction(pooled, "METHOD", name, parameters)
              /\ rules' = FunctionBody
                            \o <<Emits(OpIndex("OP_METHOD", LastConstant(pooled)))>> \o rules
              /\ Read /\ UNCHANGED <<functions, current, compilation>>

EndClass ==
  /\ At("class")
  /\ Continue(WithLast([Emit(Cur, Op("OP_POP")) EXCEPT !.within_class = FALSE]), <<>>)
  /\ UNCHANGED <<current, length>>

-------------------------------------------------------------------------------
(***************************************************************************)
(* Statements.                                                             *)
(***************************************************************************)
PrintStatement ==
  /\ Reads("print") /\ StatementExpected
  /\ Begin(WithLast(Here), <<Expression, Emits(Op("OP_PRINT"))>>)

ExpressionStatement ==
  /\ Reads("expression") /\ StatementExpected
  /\ Begin(WithLast(Here), <<Expression, Emits(Op("OP_POP"))>>)

\* An empty block may always stand for the statement a rule requires.
Block ==
  /\ StatementExpected /\ (Reads("block") \/ (~InLoop /\ ~MayRead))
  /\ Begin(WithLast(BeginScope(Here)), <<Rule("block")>>)

EndBlock ==
  /\ At("block")
  /\ Continue(WithLast(EndScope(Cur)), <<>>)
  /\ UNCHANGED <<current, length>>

IfStatement ==
  /\ Reads("if") /\ StatementExpected
  /\ Begin(WithLast(Here), <<Expression, Rule("then")>>)

Then ==
  /\ At("then")
  /\ LET jumping == EmitJump(Cur, "OP_JUMP_IF_FALSE")
     IN  Continue(WithLast(Emit(jumping, Op("OP_POP"))),
                  <<Rule("declaration"), [rule |-> "else", offset |-> JumpOffset(jumping)]>>)
  /\ UNCHANGED <<current, length>>

Else ==
  /\ At("else")
  /\ LET jumping   == EmitJump(Cur, "OP_JUMP")
         otherwise == Emit(PatchJump(jumping, Head(rules).offset), Op("OP_POP"))
         offset    == JumpOffset(jumping)
     IN  \/ Continue(WithLast(PatchJump(otherwise, offset)), <<>>)
         \/ /\ "else" \in Idioms
            /\ Continue(WithLast(otherwise), <<Rule("statement"), Patches(offset)>>)
  /\ UNCHANGED <<current, length>>

Loop(rule, loop_start, exit) == [rule |-> rule, loop_start |-> loop_start, exit |-> exit]
NoExit == -1

\* The condition is on the stack: emit the exit, and what comes next.
ExitJump(c) == Emit(EmitJump(c, "OP_JUMP_IF_FALSE"), Op("OP_POP"))
ExitOffset(c) == JumpOffset(EmitJump(c, "OP_JUMP_IF_FALSE"))

\* Behind the loop body: back to the start, and the exit lands here.
\* Mutant: the condition stays on the stack when the loop is left.
CloseLoopKeepsCondition(c, loop) ==
  LET looped == EmitLoop(c, loop.loop_start)
  IN  IF loop.exit = NoExit THEN looped ELSE PatchJump(looped, loop.exit)
CloseLoop(c, loop) ==
  LET looped == EmitLoop(c, loop.loop_start)
  IN  IF loop.exit = NoExit THEN looped
      ELSE Emit(PatchJump(looped, loop.exit), Op("OP_POP"))

WhileStatement ==
  /\ Reads("while") /\ StatementExpected
  /\ Begin(WithLast(Here), <<Expression, Loop("while", Len(Cur.byte_code), NoExit)>>)

WhileBody ==
  /\ At("while")
  /\ Continue(WithLast(ExitJump(Cur)),
              <<Rule("statement"), [Head(rules) EXCEPT !.rule = "endWhile",
                                                       !.exit = ExitOffset(Cur)]>>)
  /\ UNCHANGED <<current, length>>

EndWhile ==
  /\ At("endWhile")
  /\ Continue(WithLast(CloseLoop(Cur, Head(rules))), <<>>)
  /\ UNCHANGED <<current, length>>

\* The initializer clause: nothing, a declaration in the scope of the loop, or
\* an expression.
ForStatement ==
  /\ Reads("for") /\ StatementExpected
  /\ LET scoped == BeginScope(Here)
     IN  \/ Begin(WithLast(scoped), <<Rule("for")>>)
         \/ \E name \in Names : DeclareAnd(scoped, name, <<Rule("for")>>)
         \/ Begin(WithLast(scoped), <<Expression, Emits(Op("OP_POP")), Rule("for")>>)

ForCondition ==
  /\ At("for")
  /\ LET loop_start == Len(Cur.byte_code)
     IN  \/ Continue(compilers, <<Loop("forIncrement", loop_start, NoExit)>>)
         \/ Continue(compilers, <<Expression, Loop("forExit", loop_start, NoExit)>>)
  /\ UNCHANGED <<current, length>>

ForExit ==
  /\ At("forExit")
  /\ Continue(WithLast(ExitJump(Cur)), <<[Head(rules) EXCEPT !.rule = "forIncrement",
                                                            !.exit = ExitOffset(Cur)]>>)
  /\ UNCHANGED <<current, length>>

ForIncrement ==
  /\ At("forIncrement")
  /\ LET body    == [Head(rules) EXCEPT !.rule = "endFor"]
         jumping == EmitJump(Cur, "OP_JUMP")
     IN  \/ Continue(compilers, <<Rule("statement"), body>>)
         \/ Continue(WithLast(jumping),
                     <<Expression, [rule |-> "forLoop", loop_start |-> body.loop_start,
                                    body_jump |-> JumpOffset(jumping)],
                       Rule("statement"), [body EXCEPT !.loop_start = Len(jumping.byte_code)]>>)
  /\ UNCHANGED <<current, length>>

\* Behind the increment: back to the condition; the body starts here.
ForLoop ==
  /\ At("forLoop")
  /\ LET looped == EmitLoop(Emit(Cur, Op("OP_POP")), Head(rules).loop_start)
     IN  Continue(WithLast(PatchJump(looped, Head(rules).body_jump)), <<>>)
  /\ UNCHANGED <<current, length>>

EndFor ==
  /\ At("endFor")
  /\ Continue(WithLast(EndScope(CloseLoop(Cur, Head(rules)))), <<>>)
  /\ UNCHANGED <<current, length>>

-------------------------------------------------------------------------------
(***************************************************************************)
(* Expressions: parsePrecedence reads a prefix, then, as a rule of its own *)
(* here, the infix operators that bind at its level.                       *)
(***************************************************************************)
Precedence == <<"ASSIGNMENT", "OR", "AND", "EQUALITY", "COMPARISON", "TERM", "FACTOR",
                "UNARY", "CALL", "PRIMARY">>
Level(precedence) == CHOOSE i \in DOMAIN Precedence : Precedence[i] = precedence

BinaryOperator ==
  [bang_equal    |-> [precedence |-> "EQUALITY",   op |-> "OP_NOT_EQUAL"],
   equal_equal   |-> [precedence |-> "EQUALITY",   op |-> "OP_EQUAL"],
   greater       |-> [precedence |-> "COMPARISON", op |-> "OP_GREATER"],
   greater_equal |-> [precedence |-> "COMPARISON", op |-> "OP_GREATER_EQUAL"],
   less          |-> [precedence |-> "COMPARISON", op |-> "OP_LESS"],
   less_equal    |-> [precedence |-> "COMPARISON", op |-> "OP_LESS_EQUAL"],
   plus          |-> [precedence |-> "TERM",       op |-> "OP_ADD"],
   minus         |-> [precedence |-> "TERM",       op |-> "OP_SUBTRACT"],
   star          |-> [precedence |-> "FACTOR",     op |-> "OP_MULTIPLY"],
   slash         |-> [precedence |-> "FACTOR",     op |-> "OP_DIVIDE"]]

InfixToken == DOMAIN BinaryOperator \cup {"and", "or", "call", "dot"}
Binding(token) ==
  IF token \in DOMAIN BinaryOperator THEN Level(BinaryOperator[token].precedence)
  ELSE IF token = "and" THEN Level("AND")
  ELSE IF token = "or" THEN Level("OR")
  ELSE IF token \in {"call", "dot"} THEN Level("CALL")
  ELSE 0

OperandExpected == At("parsePrecedence")
CanAssign == Level(Head(rules).level) <= Level("ASSIGNMENT")
Infix == [Head(rules) EXCEPT !.rule = "infix"]

\* The token after an operand: an infix operator or the end of the expression.
Advance ==
  \/ current' = "other"
  \/ length' < Len(Source) /\ current' \in InfixToken \cap Source[length' + 1]

\* Read a terminal; bytes is all it emits.
Terminal(cs) == Continue(cs, <<Infix>>) /\ Read /\ Advance

Literal(op) ==
  /\ OperandExpected /\ (Reads(op) \/ (op = "OP_NIL" /\ ~MayRead))
  /\ Terminal(WithLast(Emit(Cur, Op(op))))

NumberLiteral(n) ==
  /\ OperandExpected /\ Reads("number")
  /\ Terminal(WithLast(AddConstant(Cur, Number(n))))

EmitLast(cs, bytes) == [cs EXCEPT ![Len(cs)] = Emit(@, bytes)]

\* Two ways to capture that programs use only if Idioms has them: a local
\* function refers to itself; a function refers to a parameter, or to this, of
\* one around it.
Captures(name) == Owner(name) \in 1..(Len(compilers) - 1)
CapturesParameter(name) ==
  Captures(name) /\ LET owner == compilers[Owner(name)]
                    IN  ResolveVariable(owner, name) <= owner.arity
RecursesLocally(name) ==
  Captures(name) /\ LET owner == compilers[Owner(name)]
                        inner == compilers[Owner(name) + 1]
                    IN  /\ ResolveVariable(owner, name) = Len(owner.locals) - 1
                        /\ inner.locals[1].identifier_name # "this"
MayCapture(name) ==
  /\ CapturesParameter(name) => "captured_parameter" \in Idioms
  /\ RecursesLocally(name)   => "local_recursion" \in Idioms

\* The name is resolved before the expression assigned to it is compiled.
Variable(name) ==
  /\ OperandExpected /\ Reads("variable") /\ MayCapture(name)
  /\ IF ReadInItsInitializer(name) THEN ReportError
     ELSE LET named == NamedVariable(name)
          IN  \/ Terminal(EmitLast(named.compilers, named.get))
              \/ /\ CanAssign /\ "assign" \in Source[length + 1]
                 /\ Continue(named.compilers, <<Expression, Emits(named.set), Infix>>)
                 /\ Read /\ UNCHANGED current

This ==
  /\ OperandExpected /\ Reads("this") /\ MayCapture("this")
  /\ IF ~Cur.within_class THEN ReportError
     ELSE LET named == NamedVariable("this")
          IN  Terminal(EmitLast(named.compilers, named.get))

Grouping ==
  /\ OperandExpected /\ Reads("grouping")
  /\ Continue(compilers, <<Expression, Rule("grouping"), Infix>>)
  /\ Read /\ UNCHANGED current

EndGrouping == At("grouping") /\ Continue(compilers, <<>>) /\ UNCHANGED length /\ Advance

Unary(op) ==
  /\ OperandExpected /\ Reads(op)
  /\ Continue(compilers, <<[Head(rules) EXCEPT !.level = "UNARY"], Emits(Op(op)), Infix>>)
  /\ Read /\ UNCHANGED current

InfixFollows(token) ==
  /\ At("infix") /\ current = token
  /\ Level(Head(rules).level) <= Binding(token)

\* An infix rule reads its right operand at the given level.
Operand(precedence, c, after) ==
  /\ Continue(WithLast(c), <<[rule |-> "parsePrecedence", level |-> precedence],
                             after, Head(rules)>>)
  /\ Read /\ UNCHANGED current

Binary(token) ==
  /\ InfixFollows(token)
  /\ Operand(Precedence[Binding(token) + 1], Cur, Emits(Op(BinaryOperator[token].op)))

And ==
  /\ InfixFollows("and")
  /\ LET jumping == EmitJump(Cur, "OP_JUMP_IF_FALSE")
     IN  Operand("AND", Emit(jumping, Op("OP_POP")), Patches(JumpOffset(jumping)))

Or ==
  /\ InfixFollows("or")
  /\ LET falsy  == EmitJump(Cur, "OP_JUMP_IF_FALSE")
         truthy == EmitJump(falsy, "OP_JUMP")
     IN  Operand("OR", Emit(PatchJump(truthy, JumpOffset(falsy)), Op("OP_POP")),
                 Patches(JumpOffset(truthy)))

\* call and argumentList.
Call ==
  /\ InfixFollows("call")
  /\ Read
  /\ \/ /\ Continue(WithLast(Emit(Cur, OpIndex("OP_CALL", 0))), <<Head(rules)>>)
        /\ Advance
     \/ /\ MaxParameters > 0
        /\ Continue(compilers, <<Expression, [rule |-> "argument", count |-> 1], Head(rules)>>)
        /\ UNCHANGED current

Argument ==
  /\ At("argument")
  /\ UNCHANGED length
  /\ \/ /\ Head(rules).count < MaxParameters
        /\ Continue(compilers, <<Expression, [Head(rules) EXCEPT !.count = @ + 1]>>)
        /\ UNCHANGED current
     \/ /\ Continue(WithLast(Emit(Cur, OpIndex("OP_CALL", Head(rules).count))), <<>>)
        /\ Advance

Dot(name) ==
  /\ InfixFollows("dot")
  /\ Read
  /\ LET pooled == Pool(Cur, Name(name))
         index  == LastConstant(pooled)
     IN  \/ /\ Continue(WithLast(Emit(pooled, OpIndex("OP_GET_PROPERTY", index))), <<Head(rules)>>)
            /\ Advance
         \/ /\ CanAssign
            /\ Continue(WithLast(pooled), <<Expression, Emits(OpIndex("OP_SET_PROPERTY", index)),
                                            Head(rules)>>)
            /\ UNCHANGED current

EndExpression ==
  /\ At("infix") /\ Binding(current) < Level(Head(rules).level)
  /\ Continue(compilers, <<>>)
  /\ UNCHANGED <<current, length>>

\* What remains of a rule when its expression is compiled.
Finish ==
  /\ \/ /\ At("emit")
        /\ Continue(WithLast(Emit(Cur, Head(rules).bytes)), <<>>)
     \/ /\ At("patch")
        /\ Continue(WithLast(PatchJump(Cur, Head(rules).offset)), <<>>)
     \/ /\ At("define")
        /\ Continue(WithLast(DefineVariable(Cur, Head(rules).index)), <<>>)
  /\ UNCHANGED <<current, length>>

-------------------------------------------------------------------------------
EndScript ==
  /\ At("script")
  /\ LET ended == EndCompiler(Cur)
     IN  /\ functions' = [functions EXCEPT ![Script] = FunctionObject(ended)]
         /\ compilers' = <<ended>>
  /\ rules' = <<>> /\ compilation' = "compiled"
  /\ UNCHANGED <<current, length>>

Declaration ==
  \/ \E name \in Names :
       \/ VariableDeclaration(name) \/ ClassDeclaration(name)
       \/ \E parameters \in Parameters : FunctionDeclaration(name, parameters)
  \/ ReturnStatement
  \/ \E name \in Members, parameters \in Parameters : Method(name, parameters)
  \/ EndClass \/ EndFunction \/ EndScript

Statement ==
  \/ PrintStatement \/ ExpressionStatement \/ Block \/ EndBlock
  \/ IfStatement \/ Then \/ Else
  \/ WhileStatement \/ WhileBody \/ EndWhile
  \/ ForStatement \/ ForCondition \/ ForExit \/ ForIncrement \/ ForLoop \/ EndFor

Operands ==
  \/ \E op \in {"OP_NIL", "OP_TRUE", "OP_FALSE"} : Literal(op)
  \/ \E n \in Numbers : NumberLiteral(n)
  \/ \E name \in Names : Variable(name)
  \/ This \/ Grouping \/ EndGrouping
  \/ \E op \in {"OP_NEGATE", "OP_NOT"} : Unary(op)
  \/ \E token \in DOMAIN BinaryOperator : Binary(token)
  \/ And \/ Or \/ Call \/ Argument
  \/ \E name \in Members : Dot(name)
  \/ EndExpression \/ Finish

Next ==
  /\ Declaration \/ Statement \/ Operands
  /\ UNCHANGED grammar

Spec == Init /\ [][Next]_compilerVars

-------------------------------------------------------------------------------
LocalType == [identifier_name : Names \cup {"this", ""}, local_scope_depth : {Uninitialised} \cup Nat,
              is_captured : BOOLEAN]
UpvalueType == [type : {0, 1}, index : Nat]
ConstantValue == [type : {"double"}, double : Numbers]
                   \cup [type : {"name"}, name : Names \cup Members]
                   \cup [type : {"function"}, function : Nat]
CompilerType ==
  [function_type : {"TOP_LEVEL_SCRIPT", "FUNCTION", "METHOD", "INITIALIZER"},
   within_class : BOOLEAN, current_scope_depth : Nat, locals : Seq(LocalType),
   upvalues : Seq(UpvalueType), arity : Nat, byte_code : Seq(0..255),
   constant_pool : Seq(ConstantValue), heights : SUBSET (Nat \X Nat)]

\* Type correctness.
TypeOK ==
  /\ grammar \in Grammars
  /\ compilers \in Seq(CompilerType)
  /\ compilers # <<>>
  /\ current \in InfixToken \cup {"other"}
  /\ length \in 0..Len(Source)
  /\ compilation \in {"compiling", "compiled", "error"}
  /\ (compilation = "compiling") <=> (rules # <<>>)

\* The locals of a function lie on the stack in the order of their scopes, so
\* that endScope finds those it must pop at the back and nowhere else, and only
\* the newest can be without its value yet.
LocalsScoped ==
  \A k \in DOMAIN compilers : LET c == compilers[k] IN
    /\ c.locals # <<>> /\ c.locals[1].local_scope_depth = 0
    /\ \A i \in DOMAIN c.locals :
         /\ c.locals[i].local_scope_depth = Uninitialised => i = Len(c.locals)
         /\ c.locals[i].local_scope_depth <= c.current_scope_depth
         /\ \A j \in 1..(i - 1) :
              \/ c.locals[i].local_scope_depth = Uninitialised
              \/ c.locals[j].local_scope_depth <= c.locals[i].local_scope_depth

\* Whatever a function captures is there when OP_CLOSURE runs: a Local names a
\* variable of the enclosing function that is still in scope, has its value,
\* and is marked so that endScope will close it; a NotLocal names an upvalue of
\* the enclosing function.  No variable is captured twice.
Captured(parent, upvalue) ==
  IF upvalue.type = 1
  THEN /\ upvalue.index < Len(parent.locals)
       /\ parent.locals[upvalue.index + 1].is_captured
       /\ parent.locals[upvalue.index + 1].local_scope_depth # Uninitialised
  ELSE upvalue.index < Len(parent.upvalues)
UpvaluesResolve ==
  \A k \in DOMAIN compilers :
    LET upvalues == compilers[k].upvalues IN
    /\ upvalues # <<>> => k > 1
    /\ \A i \in DOMAIN upvalues : Captured(compilers[k - 1], upvalues[i])
    /\ IsInjective(upvalues)
================================================================================
