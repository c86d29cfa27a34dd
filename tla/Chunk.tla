--------------------------------- MODULE Chunk ---------------------------------
(***************************************************************************)
(* What the compiler hands to the virtual machine: byte code as the one    *)
(* emits it and the other reads it (src/chunk.h, emitIndex, readIndex),    *)
(* with its constant pool, and the constants and values of src/value.h     *)
(* that are not objects of a running program.                              *)
(***************************************************************************)
EXTENDS Integers, Sequences

VARIABLE functions  \* the FunctionObjects: of the script, empty until it is compiled,
                    \* then of the functions in it, in the order they were finished
Script == 1

\* The enumeration OpCode, in its order.
OpCode == <<"OP_RETURN", "OP_CONSTANT", "OP_NEGATE", "OP_ADD", "OP_SUBTRACT",
  "OP_MULTIPLY", "OP_DIVIDE", "OP_NIL", "OP_TRUE", "OP_FALSE", "OP_NOT", "OP_EQUAL",
  "OP_GREATER", "OP_LESS", "OP_LESS_EQUAL", "OP_GREATER_EQUAL", "OP_NOT_EQUAL",
  "OP_PRINT", "OP_POP", "OP_DEFINE_GLOBAL", "OP_GET_GLOBAL", "OP_SET_GLOBAL",
  "OP_GET_LOCAL", "OP_SET_LOCAL", "OP_GET_UPVALUE", "OP_SET_UPVALUE",
  "OP_JUMP_IF_FALSE", "OP_JUMP", "OP_LOOP", "OP_CALL", "OP_CLOSURE",
  "OP_CLOSE_UPVALUE", "OP_CLASS", "OP_GET_PROPERTY", "OP_SET_PROPERTY", "OP_METHOD">>

OpCodeName == {OpCode[i] : i \in DOMAIN OpCode}
Byte == [op \in OpCodeName |-> (CHOOSE i \in DOMAIN OpCode : OpCode[i] = op) - 1]

\* emitIndex and readIndex: two bytes, the low one first.
IndexBytesUnmasked(index) == <<index, index \div 256>>
IndexBytes(index) == <<index % 256, (index \div 256) % 256>>
IndexAt(code, ip) == code[ip + 1] + 256 * code[ip + 2]

Op(op) == <<Byte[op]>>
OpIndex(op, index) == <<Byte[op]>> \o IndexBytes(index)

\* The opcode at ip; addresses count from 0, as instruction_pointer does.
OpAt(code, ip) == OpCode[code[ip + 1] + 1]

Nil          == [type |-> "nil"]
Bool(b)      == [type |-> "bool", bool |-> b]
Number(n)    == [type |-> "double", double |-> n]
Name(s)      == [type |-> "name", name |-> s]           \* of a variable, class, property
Function(id) == [type |-> "function", function |-> id]  \* a FunctionObject

IndexOps == {"OP_CONSTANT", "OP_DEFINE_GLOBAL", "OP_GET_GLOBAL", "OP_SET_GLOBAL",
             "OP_GET_LOCAL", "OP_SET_LOCAL", "OP_GET_UPVALUE", "OP_SET_UPVALUE",
             "OP_JUMP_IF_FALSE", "OP_JUMP", "OP_LOOP", "OP_CALL", "OP_CLOSURE",
             "OP_CLASS", "OP_GET_PROPERTY", "OP_SET_PROPERTY", "OP_METHOD"}

\* One captured variable of an OP_CLOSURE: its type, then its index.
UpvalueBytes(upvalue) == <<upvalue.type>> \o IndexBytes(upvalue.index)
UpvalueSize == 3
UpvalueAt(code, ip) == [type |-> code[ip + 1], index |-> IndexAt(code, ip + 1)]

ConstantAt(function, ip) == function.constant_pool[IndexAt(function.byte_code, ip) + 1]

\* How many bytes the instruction at ip takes.
InstructionLength(function, ip) ==
  LET op == OpAt(function.byte_code, ip) IN
  IF op = "OP_CLOSURE"
    THEN 3 + UpvalueSize * functions[ConstantAt(function, ip + 1).function].upvalue_count
  ELSE IF op \in IndexOps THEN 3 ELSE 1

\* The addresses at which an instruction begins when it follows the one before,
\* and the end of the code.
InstructionStarts(function) ==
  LET end == Len(function.byte_code)
      from[ip \in 0..end] ==
        LET next == ip + InstructionLength(function, ip)
        IN  {ip} \cup IF ip < end /\ next \in (ip + 1)..end THEN from[next] ELSE {}
  IN  from[0]

\* Whether the function declares a class with methods.
AddsMethods(function) ==
  \E ip \in InstructionStarts(function) \ {Len(function.byte_code)} :
    OpAt(function.byte_code, ip) = "OP_METHOD"
================================================================================
