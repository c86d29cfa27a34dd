------------------------------ MODULE CompiledCode ------------------------------
(***************************************************************************)
(* What the compiler promises of the code it emits, checked the way a byte *)
(* code verifier does: without running it.                                 *)
(***************************************************************************)
EXTENDS Compiler

\* What an operand of two bytes can say.  compiler.cpp asserts that constants fit; a
\* jump is never longer than the code, and patchJump refuses a longer one.
MAX_INDEX_SIZE == 65535
ConstantsFit(f) == Len(f.constant_pool) <= MAX_INDEX_SIZE
CodeFits(f)     == Len(f.byte_code) <= MAX_INDEX_SIZE

\* The operand of the instruction at ip.
OperandAt(f, ip) == IndexAt(f.byte_code, ip + 1)

\* The instructions that may follow the one at ip.
Targets(f, ip) ==
  LET op == OpAt(f.byte_code, ip)
      next == ip + InstructionLength(f, ip)
  IN  CASE op = "OP_JUMP"          -> {next + OperandAt(f, ip)}
        [] op = "OP_LOOP"          -> {next - OperandAt(f, ip)}
        [] op = "OP_JUMP_IF_FALSE" -> {next, next + OperandAt(f, ip)}
        [] op = "OP_RETURN"        -> {}
        [] OTHER                   -> {next}

\* Every path through a function runs from instruction to instruction and into
\* an OP_RETURN: no jump is left unpatched, lands inside an operand or leaves
\* the function, and run() never reaches the end of the code.
JumpsLand ==
  \A i \in DOMAIN functions :
    LET f      == functions[i]
        starts == InstructionStarts(f) \ {Len(f.byte_code)}
    IN  \A ip \in starts : Targets(f, ip) \subseteq starts

\* Every operand that names a constant or an upvalue refers to what its instruction
\* takes it for, which the machine asserts or does not even check.  Operands that name
\* a slot of the stack show when the code runs: AbortsOnValuesOnly.
ConstantType(op) ==
  CASE op = "OP_CONSTANT" -> {"double"}
    [] op = "OP_CLOSURE"  -> {"function"}
    [] op \in {"OP_DEFINE_GLOBAL", "OP_GET_GLOBAL", "OP_SET_GLOBAL", "OP_CLASS",
               "OP_GET_PROPERTY", "OP_SET_PROPERTY", "OP_METHOD"} -> {"name"}
    [] OTHER -> {}
OperandValid(f, ip) ==
  LET op == OpAt(f.byte_code, ip) IN
  /\ ConstantType(op) # {} =>
       /\ OperandAt(f, ip) < Len(f.constant_pool)
       /\ ConstantAt(f, ip + 1).type \in ConstantType(op)
  /\ op \in {"OP_GET_UPVALUE", "OP_SET_UPVALUE"} => OperandAt(f, ip) < f.upvalue_count
  /\ op = "OP_CLOSURE" =>
       LET inner == functions[ConstantAt(f, ip + 1).function]
       IN  \A u \in 1..inner.upvalue_count :
             LET upvalue == UpvalueAt(f.byte_code, ip + UpvalueSize * u)
             IN  upvalue.type = 0 => upvalue.index < f.upvalue_count
OperandsValid ==
  \A i \in DOMAIN functions : LET f == functions[i] IN
    \A ip \in InstructionStarts(f) \ {Len(f.byte_code)} : OperandValid(f, ip)

\* this is never looked up as a global: wherever the compiler accepts it, it is
\* the receiver of a method around it.
ThisIsReceiver ==
  \A i \in DOMAIN functions : Name("this") \notin Range(functions[i].constant_pool)

\* What an instruction does to the height of the value stack.
Effect(f, ip) ==
  LET op == OpAt(f.byte_code, ip) IN
  CASE op \in {"OP_CONSTANT", "OP_NIL", "OP_TRUE", "OP_FALSE", "OP_GET_GLOBAL", "OP_GET_LOCAL",
               "OP_GET_UPVALUE", "OP_CLOSURE", "OP_CLASS"} -> 1
    [] op \in {"OP_PRINT", "OP_POP", "OP_DEFINE_GLOBAL", "OP_CLOSE_UPVALUE", "OP_SET_PROPERTY",
               "OP_RETURN"} \cup {BinaryOperator[t].op : t \in DOMAIN BinaryOperator} -> -1
    [] op = "OP_CALL" -> -OperandAt(f, ip)
    [] OTHER -> 0

\* The height at each instruction, slot 0 included, on the first path to it; an
\* instruction no earlier one leads to takes the height of the one before.
HeightOnEntry(f) == 1 + f.arity
Height(f) ==
  LET starts == InstructionStarts(f) \ {Len(f.byte_code)}
      Visit(height, ip) ==
        LET reached == Targets(f, ip) \cup {ip + InstructionLength(f, ip)}
        IN  height @@ [a \in reached \ DOMAIN height |-> height[ip] + Effect(f, ip)]
      inOrder == SelectSeq([i \in 1..Len(f.byte_code) |-> i - 1], LAMBDA ip : ip \in starts)
  IN  FoldLeft(Visit, 0 :> HeightOnEntry(f), inOrder)

\* The height of the stack depends on the place in the code only, not on the
\* path to it; it is what the compiler counts as locals wherever a statement
\* begins; and at its end a function has popped all but its arguments.
Balanced(f) ==
  LET height == Height(f)
  IN  /\ \A ip \in DOMAIN height \ {Len(f.byte_code)} : \A next \in Targets(f, ip) :
           height[next] = height[ip] + Effect(f, ip)
      /\ \A h \in f.heights : height[h[1]] = h[2]
      /\ height[Len(f.byte_code)] = HeightOnEntry(f)

\* Of every function: compiler.cpp:369 says of the class whose methods were added
\* that what is left of it on the stack is popped.
StackBalanced == \A i \in DOMAIN functions : Balanced(functions[i])

\* Of every function that declares no class with methods.
PlainStackBalanced ==
  \A i \in DOMAIN functions : AddsMethods(functions[i]) \/ Balanced(functions[i])
================================================================================
