------------------------------- MODULE CodeProofs -------------------------------
(***************************************************************************)
(* The code the compiler emits, for every grammar: that each operand is    *)
(* valid and each jump lands, as long as the constants and the code of a   *)
(* function stay within what two bytes can say.                            *)
(*                                                                         *)
(* While a function is compiled its code is a sequence of whole            *)
(* instructions; the jumps that do not land yet are those that some        *)
(* pending rule of the function will patch.                                *)
(***************************************************************************)
EXTENDS CompilerProofs

(***************************************************************************)
(* The invariant.  A function f is judged among the functions fs.          *)
(***************************************************************************)
Jump == {"OP_JUMP", "OP_JUMP_IF_FALSE"}
PlainOps == OpCodeName \ IndexOps

OpOf(f, ip) == OpAt(f.byte_code, ip)
InnerId(f, ip) == ConstantAt(f, ip + 1).function
Length(fs, f, ip) ==
  IF OpOf(f, ip) = "OP_CLOSURE" THEN 3 + UpvalueSize * fs[InnerId(f, ip)].upvalue_count
  ELSE IF OpOf(f, ip) \in IndexOps THEN 3 ELSE 1

\* The instruction at ip exists, and what its operands refer to does too.
Valid(fs, f, ip) ==
  /\ f.byte_code[ip + 1] + 1 \in DOMAIN OpCode
  /\ LET op == OpOf(f, ip) IN
     /\ ConstantType(op) # {} =>
          /\ OperandAt(f, ip) < Len(f.constant_pool)
          /\ ConstantAt(f, ip + 1).type \in ConstantType(op)
     /\ op \in {"OP_GET_UPVALUE", "OP_SET_UPVALUE"} => OperandAt(f, ip) < f.upvalue_count
     /\ op = "OP_CLOSURE" =>
          /\ InnerId(f, ip) \in 2..Len(fs)
          /\ \A u \in 1..fs[InnerId(f, ip)].upvalue_count :
               LET upvalue == UpvalueAt(f.byte_code, ip + UpvalueSize * u)
               IN  upvalue.type = 0 => upvalue.index < f.upvalue_count

\* The code is whole instructions, which begin at the addresses in S.
Decoded(fs, f, S) ==
  /\ S \subseteq 0..Len(f.byte_code) /\ 0 \in S /\ Len(f.byte_code) \in S
  /\ \A ip \in S \ {Len(f.byte_code)} :
       /\ Valid(fs, f, ip)
       /\ ip + Length(fs, f, ip) \in S
       /\ \A s \in S : s <= ip \/ ip + Length(fs, f, ip) <= s
Decodable(fs, f) == \E S : Decoded(fs, f, S)
Starts(fs, f) == CHOOSE S : Decoded(fs, f, S)
Instructions(fs, f) == Starts(fs, f) \ {Len(f.byte_code)}

\* Where the jump or loop at ip goes.
Landing(f, ip) ==
  IF OpOf(f, ip) \in Jump THEN {ip + 3 + OperandAt(f, ip)}
  ELSE IF OpOf(f, ip) = "OP_LOOP" THEN {ip + 3 - OperandAt(f, ip)} ELSE {}

\* The operands of the jumps that can be patched, and of those that do not land.
Jumps(fs, f) == {ip + 1 : ip \in {i \in Instructions(fs, f) : OpOf(f, i) \in Jump}}
Open(fs, f) == {ip + 1 : ip \in {i \in Instructions(fs, f) : ~(Landing(f, i) \subseteq Starts(fs, f))}}

\* Of a function that was compiled: no jump is open or leads to the end, and only
\* a return is last.
Finished(fs, f) ==
  /\ Decodable(fs, f)
  /\ \A ip \in Instructions(fs, f) :
       ip + Length(fs, f, ip) = Len(f.byte_code) => OpOf(f, ip) = "OP_RETURN"
  /\ CodeFits(f) => \A ip \in Instructions(fs, f) : Landing(f, ip) \subseteq Instructions(fs, f)

\* What the pending rule r relies on in the function f that it compiles.
ExitRule == {"endWhile", "forIncrement", "endFor"}
LoopRule == {"while", "forExit", "forLoop"} \cup ExitRule
Pending(r) ==
  IF r.rule \in {"patch", "else"} THEN {r.offset}
  ELSE IF r.rule \in ExitRule THEN {r.exit} \ {NoExit}
  ELSE IF r.rule = "forLoop" THEN {r.body_jump} ELSE {}
Returns(r) == IF r.rule \in LoopRule THEN {r.loop_start} ELSE {}

\* One instruction that is neither a jump nor a closure.
Emittable(f, bytes) ==
  \/ \E op \in PlainOps : bytes = Op(op)
  \/ \E op \in IndexOps \ (Jump \cup {"OP_LOOP", "OP_CLOSURE"}), index \in Nat :
       /\ bytes = OpIndex(op, index)
       /\ ConstantType(op) # {} => /\ index < Len(f.constant_pool)
                                   /\ f.constant_pool[index + 1].type \in ConstantType(op)
       /\ op \in {"OP_GET_UPVALUE", "OP_SET_UPVALUE"} => index < f.upvalue_count

Carries(fs, r, f) ==
  /\ Pending(r) \subseteq Jumps(fs, f)
  /\ Returns(r) \subseteq Starts(fs, f)
  /\ r.rule = "emit" => Emittable(f, r.bytes)

\* A variable is global outside all scopes and functions; its name is a constant.
NamesConstant(f, index) ==
  index \in 0..(Len(f.constant_pool) - 1) /\ f.constant_pool[index + 1].type = "name"
Inside(rs, i) == \E j \in 1..Len(rs) : i < j /\ rs[j].rule \in ScopedRule \cup {"function"}

\* K[i] is the compiler that the i-th rule belongs to.
Placed(rs, n, K) ==
  /\ K \in Seq(Nat) /\ Len(K) = Len(rs) /\ K[1] = n
  /\ Last(rs).rule = "script" /\ K[Len(K)] = 1
  /\ \A i \in 1..(Len(K) - 1) :
       rs[i].rule # "script" /\ K[i + 1] = K[i] - IF rs[i].rule = "function" THEN 1 ELSE 0
  /\ \A i, j \in 1..Len(K) : i <= j => K[j] <= K[i]

Promises(fs, cs, rs, K) ==
  /\ \A i \in 1..Len(rs) : LET f == FunctionObject(cs[K[i]]) IN
       /\ ConstantsFit(f) => Carries(fs, rs[i], f)
       /\ rs[i].rule = "define" => NamesConstant(f, rs[i].index) \/ Inside(rs, i)
  /\ \A k \in 1..Len(cs) : LET f == FunctionObject(cs[k]) IN
       ConstantsFit(f) /\ CodeFits(f) =>
         \A offset \in Open(fs, f) : \E i \in 1..Len(rs) : K[i] = k /\ offset \in Pending(rs[i])

FunctionsCoded(fs) == fs # <<>> /\ \A i \in 1..Len(fs) : ConstantsFit(fs[i]) => Finished(fs, fs[i])
CompilersCoded(fs, cs) ==
  \A k \in 1..Len(cs) : LET f == FunctionObject(cs[k]) IN ConstantsFit(f) => Decodable(fs, f)
Coded(fs, cs, rs) ==
  /\ FunctionsCoded(fs) /\ CompilersCoded(fs, cs)
  /\ rs # <<>> => \E K : Placed(rs, Len(cs), K) /\ Promises(fs, cs, rs, K)

CodeInv == Coded(functions, compilers, rules)

-------------------------------------------------------------------------------
(***************************************************************************)
(* Operation codes and indices: what is read is what was emitted.          *)
(***************************************************************************)
LEMMA OpCodeOfByte ==
  ASSUME NEW op \in OpCodeName
  PROVE  Byte[op] + 1 \in DOMAIN OpCode /\ OpCode[Byte[op] + 1] = op /\ Byte[op] \in 0..255
<1>1. \E i \in DOMAIN OpCode : OpCode[i] = op
  BY DEF OpCodeName
<1> DEFINE i == CHOOSE i \in DOMAIN OpCode : OpCode[i] = op
<1>2. i \in DOMAIN OpCode /\ OpCode[i] = op
  BY <1>1
<1>3. DOMAIN OpCode = 1..36
  BY DEF OpCode
<1>4. Byte[op] = i - 1
  BY DEF Byte
<1> HIDE DEF i
<1>5. QED
  BY <1>2, <1>3, <1>4

LEMMA IndexRoundTrip ==
  ASSUME NEW index \in Nat
  PROVE  LET bytes == IndexBytes(index)
             read  == bytes[1] + 256 * bytes[2]
         IN  /\ Len(bytes) = 2 /\ bytes[1] \in 0..255 /\ bytes[2] \in 0..255
             /\ read \in Nat /\ read <= index
             /\ index <= MAX_INDEX_SIZE => read = index
<1> DEFINE low  == index % 256
           high == index \div 256
<1>1. IndexBytes(index) = <<low, high % 256>>
  BY DEF IndexBytes
<1>2. low \in 0..255 /\ high \in Nat /\ index = 256 * high + low
  OBVIOUS
<1> HIDE DEF low, high
<1>3. high % 256 \in 0..255 /\ high % 256 <= high /\ (high <= 255 => high % 256 = high)
  BY <1>2
<1>4. index <= 65535 => high <= 255
  BY <1>2
<1>5. QED
  BY <1>1, <1>2, <1>3, <1>4 DEF MAX_INDEX_SIZE

-------------------------------------------------------------------------------
(***************************************************************************)
(* Code is decoded in one way only.                                        *)
(***************************************************************************)
LEMMA FunctionFields ==
  ASSUME NEW fs \in Seq(FunctionType)
  PROVE  \A i \in 1..Len(fs) :
           /\ fs[i] \in FunctionType
           /\ fs[i].byte_code \in Seq(0..255) /\ fs[i].upvalue_count \in Nat
           /\ fs[i].constant_pool \in Seq(ConstantValue)
<1>1. \A f \in FunctionType :
        /\ f.byte_code \in Seq(0..255) /\ f.upvalue_count \in Nat
        /\ f.constant_pool \in Seq(ConstantValue)
  BY DEF FunctionType
<1>2. \A i \in 1..Len(fs) : fs[i] \in FunctionType
  OBVIOUS
<1>3. QED
  BY <1>1, <1>2

LEMMA LengthOf ==
  ASSUME NEW fs \in Seq(FunctionType), NEW f, NEW ip, Valid(fs, f, ip)
  PROVE  /\ Length(fs, f, ip) \in Nat \ {0}
         /\ OpOf(f, ip) \in IndexOps => Length(fs, f, ip) >= 3
         /\ OpOf(f, ip) \in IndexOps \ {"OP_CLOSURE"} => Length(fs, f, ip) = 3
         /\ OpOf(f, ip) \in OpCodeName
<1>1. OpOf(f, ip) = "OP_CLOSURE" => fs[InnerId(f, ip)].upvalue_count \in Nat
  <2>1. OpOf(f, ip) = "OP_CLOSURE" => InnerId(f, ip) \in 2..Len(fs)
    BY DEF Valid
  <2>2. \A id \in 2..Len(fs) : fs[id].upvalue_count \in Nat
    BY FunctionFields
  <2>3. QED
    BY <2>1, <2>2
<1>2. OpOf(f, ip) \in OpCodeName
  BY DEF Valid, OpOf, OpAt, OpCodeName
<1>3. QED
  BY <1>1, <1>2 DEF Length, UpvalueSize

LEMMA GreatestBelow ==
  ASSUME NEW n \in Nat, NEW S, S \subseteq 0..n, NEW t \in 0..n, NEW s \in S, s < t
  PROVE  \E m \in S : m < t /\ \A x \in S : x < t => x <= m
<1> DEFINE T == {x \in S : x < t}
<1>1. T \subseteq 0..n /\ T # {}
  OBVIOUS
<1>2. Max(T) \in T /\ \A x \in T : x <= Max(T)
  BY <1>1, MaxIsGreatest
<1>3. QED
  BY <1>2

LEMMA DecodedContains ==
  ASSUME NEW fs \in Seq(FunctionType), NEW f, f.byte_code \in Seq(0..255),
         NEW S, NEW T, Decoded(fs, f, S), Decoded(fs, f, T)
  PROVE  T \subseteq S
<1> DEFINE n == Len(f.byte_code)
<1>1. /\ n \in Nat /\ S \subseteq 0..n /\ T \subseteq 0..n /\ 0 \in S /\ 0 \in T
  BY DEF Decoded
<1> SUFFICES ASSUME NEW t \in T, t \notin S
             PROVE  FALSE
  OBVIOUS
<1>2. S \cap T \subseteq 0..n /\ t \in 0..n /\ 0 \in S \cap T /\ 0 < t
  BY <1>1
<1>3. PICK ip \in S \cap T : ip < t /\ \A x \in S \cap T : x < t => x <= ip
  BY <1>1, <1>2, GreatestBelow
<1>4. ip \in 0..n /\ ip # n /\ ip \in S \ {n} /\ ip \in T \ {n}
  BY <1>1, <1>2, <1>3
<1> DEFINE next == ip + Length(fs, f, ip)
<1>5. /\ Valid(fs, f, ip) /\ next \in S /\ next \in T
      /\ \A x \in T : x <= ip \/ next <= x
  BY <1>4 DEF Decoded
<1>6. next \in Nat /\ ip < next
  <2>1. Length(fs, f, ip) \in Nat \ {0}
    BY <1>5, LengthOf
  <2>2. QED
    BY <1>4, <2>1
<1> HIDE DEF next
<1>7. next <= t
  BY <1>2, <1>3, <1>4, <1>5
<1>8. next # t
  BY <1>5
<1>9. QED
  BY <1>2, <1>3, <1>4, <1>5, <1>6, <1>7, <1>8

LEMMA StartsAre ==
  ASSUME NEW fs \in Seq(FunctionType), NEW f, f.byte_code \in Seq(0..255),
         NEW S, Decoded(fs, f, S)
  PROVE  Starts(fs, f) = S /\ Decodable(fs, f)
<1>1. Decoded(fs, f, Starts(fs, f))
  BY DEF Starts
<1>2. QED
  BY <1>1, DecodedContains DEF Decodable

LEMMA StartsDecode ==
  ASSUME NEW fs, NEW f, Decodable(fs, f)
  PROVE  Decoded(fs, f, Starts(fs, f))
BY DEF Decodable, Starts

-------------------------------------------------------------------------------
(***************************************************************************)
(* A function that grows: more code, constants and upvalues.               *)
(***************************************************************************)
Richer(f, g) ==
  /\ Len(f.constant_pool) <= Len(g.constant_pool)
  /\ \A i \in 1..Len(f.constant_pool) : g.constant_pool[i] = f.constant_pool[i]
  /\ f.upvalue_count <= g.upvalue_count

\* Of the jumps that are open, those in Y land, and those in X are new.
Follows(fs, f, g, X, Y) ==
  /\ Decodable(fs, g) /\ Richer(f, g) /\ Len(f.byte_code) <= Len(g.byte_code)
  /\ Starts(fs, f) \subseteq Starts(fs, g) /\ Jumps(fs, f) \subseteq Jumps(fs, g)
  /\ CodeFits(g) => Open(fs, g) \subseteq (Open(fs, f) \ Y) \cup X

LEMMA OperandOps ==
  /\ \A op : ConstantType(op) # {} => op \in IndexOps
  /\ {"OP_GET_UPVALUE", "OP_SET_UPVALUE", "OP_CLOSURE", "OP_LOOP"} \cup Jump \subseteq IndexOps
  /\ ConstantType("OP_CLOSURE") = {"function"}
  /\ \A op : op \in Jump \cup {"OP_LOOP", "OP_RETURN"} => ConstantType(op) = {}
BY DEF ConstantType, IndexOps, Jump

LEMMA FieldTypes ==
  ASSUME NEW f \in FunctionType
  PROVE  /\ f.byte_code \in Seq(0..255) /\ f.upvalue_count \in Nat
         /\ f.constant_pool \in Seq(ConstantValue)
         /\ Len(f.byte_code) \in Nat /\ Len(f.constant_pool) \in Nat
<1>1. /\ f.byte_code \in Seq(0..255) /\ f.upvalue_count \in Nat
      /\ f.constant_pool \in Seq(ConstantValue)
  BY DEF FunctionType
<1>2. QED
  BY <1>1

LEMMA ElementAt ==
  ASSUME NEW S, NEW s \in Seq(S), NEW i \in 1..Len(s)
  PROVE  s[i] \in S
OBVIOUS

LEMMA BytesRead == \A a, b \in 0..255 : a + 256 * b \in Nat
OBVIOUS

LEMMA SameInstruction ==
  ASSUME NEW fs \in Seq(FunctionType), NEW f \in FunctionType, NEW g \in FunctionType,
         Richer(f, g), NEW ip \in Nat, NEW jp \in Nat, Valid(fs, f, ip),
         ip + Length(fs, f, ip) <= Len(f.byte_code),
         \A i \in 1..Length(fs, f, ip) : g.byte_code[jp + i] = f.byte_code[ip + i]
  PROVE  /\ Valid(fs, g, jp) /\ Length(fs, g, jp) = Length(fs, f, ip)
         /\ OpOf(g, jp) = OpOf(f, ip)
         /\ OpOf(f, ip) \in IndexOps => /\ OperandAt(g, jp) = OperandAt(f, ip)
                                        /\ OperandAt(f, ip) \in Nat
<1> DEFINE op == OpOf(f, ip)
           size == Length(fs, f, ip)
           operand == OperandAt(f, ip)
<1>1. /\ f.byte_code \in Seq(0..255) /\ Len(f.byte_code) \in Nat
      /\ Len(f.constant_pool) \in Nat /\ f.upvalue_count \in Nat /\ g.upvalue_count \in Nat
  BY FieldTypes
<1>2. /\ size \in Nat \ {0}
      /\ op \in IndexOps => size >= 3
      /\ op \in IndexOps \ {"OP_CLOSURE"} => size = 3
  BY LengthOf
<1>3. g.byte_code[jp + 1] = f.byte_code[ip + 1]
  BY <1>2
<1>4. OpOf(g, jp) = op
  BY <1>3 DEF OpOf, OpAt
<1>5. ASSUME op \in IndexOps
      PROVE  OperandAt(g, jp) = operand /\ operand \in Nat
  <2>1. /\ g.byte_code[jp + 2] = f.byte_code[ip + 2] /\ g.byte_code[jp + 3] = f.byte_code[ip + 3]
        /\ ip + 2 \in 1..Len(f.byte_code) /\ ip + 3 \in 1..Len(f.byte_code)
    BY <1>1, <1>2, <1>5
  <2>2. f.byte_code[ip + 2] \in 0..255 /\ f.byte_code[ip + 3] \in 0..255
    BY <1>1, <2>1, ElementAt, Zenon
  <2>3. /\ operand = f.byte_code[ip + 2] + 256 * f.byte_code[ip + 3]
        /\ OperandAt(g, jp) = g.byte_code[jp + 2] + 256 * g.byte_code[jp + 3]
    <3>1. ip + 1 + 1 = ip + 2 /\ ip + 1 + 2 = ip + 3 /\ jp + 1 + 1 = jp + 2 /\ jp + 1 + 2 = jp + 3
      OBVIOUS
    <3>2. QED
      BY <3>1 DEF OperandAt, IndexAt
  <2> HIDE DEF operand
  <2>4. operand \in Nat
    BY <2>2, <2>3, BytesRead, Zenon
  <2>5. QED
    BY <2>1, <2>3, <2>4
<1>6. ASSUME ConstantType(op) # {}
      PROVE  /\ operand < Len(f.constant_pool) /\ OperandAt(g, jp) < Len(g.constant_pool)
             /\ ConstantAt(g, jp + 1) = ConstantAt(f, ip + 1)
             /\ ConstantAt(f, ip + 1).type \in ConstantType(op)
  <2>1. op \in IndexOps
    BY <1>6, OperandOps
  <2>2. operand \in Nat /\ OperandAt(g, jp) = operand
    BY <1>5, <2>1
  <2>3. operand < Len(f.constant_pool) /\ ConstantAt(f, ip + 1).type \in ConstantType(op)
    BY <1>6 DEF Valid
  <2>4. operand + 1 \in 1..Len(f.constant_pool) /\ Len(g.constant_pool) \in Nat
    BY <1>1, <2>2, <2>3, FieldTypes
  <2>5. g.constant_pool[operand + 1] = f.constant_pool[operand + 1]
        /\ Len(f.constant_pool) <= Len(g.constant_pool)
    BY <2>4 DEF Richer
  <2>6. /\ ConstantAt(f, ip + 1) = f.constant_pool[operand + 1]
        /\ ConstantAt(g, jp + 1) = g.constant_pool[OperandAt(g, jp) + 1]
    BY DEF ConstantAt, OperandAt
  <2>7. QED
    BY <1>1, <2>2, <2>3, <2>4, <2>5, <2>6
<1>7. f.upvalue_count <= g.upvalue_count
  BY DEF Richer
<1>8. op \in {"OP_GET_UPVALUE", "OP_SET_UPVALUE"} => OperandAt(g, jp) < g.upvalue_count
  <2>1. op \in {"OP_GET_UPVALUE", "OP_SET_UPVALUE"} =>
          operand < f.upvalue_count /\ OperandAt(g, jp) = operand /\ operand \in Nat
    BY <1>5, OperandOps DEF Valid
  <2>2. QED
    BY <1>1, <1>7, <2>1
<1>9. ASSUME op = "OP_CLOSURE"
      PROVE  /\ InnerId(g, jp) = InnerId(f, ip) /\ InnerId(f, ip) \in 2..Len(fs)
             /\ size = 3 + 3 * fs[InnerId(f, ip)].upvalue_count
             /\ Length(fs, g, jp) = size
             /\ \A u \in 1..fs[InnerId(f, ip)].upvalue_count :
                  LET upvalue == UpvalueAt(g.byte_code, jp + UpvalueSize * u)
                  IN  upvalue.type = 0 => upvalue.index < g.upvalue_count
  <2>1. InnerId(g, jp) = InnerId(f, ip)
    <3>1. ConstantType(op) # {}
      BY <1>9, OperandOps
    <3>2. QED
      BY <1>6, <3>1 DEF InnerId
  <2>2. InnerId(f, ip) \in 2..Len(fs)
    BY <1>9 DEF Valid
  <2> DEFINE count == fs[InnerId(f, ip)].upvalue_count
  <2>3. count \in Nat
    BY <2>2, FunctionFields
  <2>4. size = 3 + 3 * count /\ Length(fs, g, jp) = 3 + 3 * count
    BY <1>4, <1>9, <2>1 DEF Length, UpvalueSize
  <2>5. ASSUME NEW u \in 1..count
        PROVE  LET upvalue == UpvalueAt(g.byte_code, jp + UpvalueSize * u)
               IN  upvalue.type = 0 => upvalue.index < g.upvalue_count
    <3> HIDE DEF count, size
    <3>1. \A i \in 1..3 : /\ 3 * u + i \in 1..size /\ ip + (3 * u + i) = ip + 3 * u + i
                          /\ jp + (3 * u + i) = jp + 3 * u + i
      BY <2>3, <2>4
    <3>2. \A i \in 1..3 : g.byte_code[jp + 3 * u + i] = f.byte_code[ip + 3 * u + i]
      <4>1. \A i \in 1..size : g.byte_code[jp + i] = f.byte_code[ip + i]
        BY DEF size
      <4> HIDE DEF size
      <4>2. QED
        BY <3>1, <4>1
    <3>3. UpvalueAt(g.byte_code, jp + UpvalueSize * u) = UpvalueAt(f.byte_code, ip + UpvalueSize * u)
      <4>1. /\ jp + 3 * u + 1 + 1 = jp + 3 * u + 2 /\ jp + 3 * u + 1 + 2 = jp + 3 * u + 3
            /\ ip + 3 * u + 1 + 1 = ip + 3 * u + 2 /\ ip + 3 * u + 1 + 2 = ip + 3 * u + 3
        OBVIOUS
      <4>2. 1 \in 1..3 /\ 2 \in 1..3 /\ 3 \in 1..3
        OBVIOUS
      <4>3. QED
        BY <3>2, <4>1, <4>2 DEF UpvalueAt, IndexAt, UpvalueSize
    <3>4. LET upvalue == UpvalueAt(f.byte_code, ip + UpvalueSize * u)
          IN  upvalue.type = 0 => upvalue.index < f.upvalue_count
      BY <1>9 DEF Valid, count
    <3>5. LET upvalue == UpvalueAt(f.byte_code, ip + UpvalueSize * u)
          IN  upvalue.index \in Int
      <4>1. ip + size <= Len(f.byte_code) /\ size \in Nat
        BY <1>2 DEF size
      <4>a. ip + 3 * u + 2 \in 1..Len(f.byte_code) /\ ip + 3 * u + 3 \in 1..Len(f.byte_code)
        <5>1. \A n, l \in Nat : ip + l <= n /\ l = 3 + 3 * count =>
                ip + 3 * u + 2 \in 1..n /\ ip + 3 * u + 3 \in 1..n
          BY <2>3
        <5>2. QED
          BY <1>1, <2>4, <4>1, <5>1
      <4>2. f.byte_code[ip + 3 * u + 2] \in 0..255 /\ f.byte_code[ip + 3 * u + 3] \in 0..255
        BY <1>1, <4>a, ElementAt, Zenon
      <4>3. /\ ip + 3 * u + 1 + 1 = ip + 3 * u + 2 /\ ip + 3 * u + 1 + 2 = ip + 3 * u + 3
        OBVIOUS
      <4>4. UpvalueAt(f.byte_code, ip + 3 * u).index
              = f.byte_code[ip + 3 * u + 2] + 256 * f.byte_code[ip + 3 * u + 3]
        BY <4>3 DEF UpvalueAt, IndexAt
      <4> DEFINE low  == f.byte_code[ip + 3 * u + 2]
                 high == f.byte_code[ip + 3 * u + 3]
      <4>b. low \in 0..255 /\ high \in 0..255
        BY <4>2
      <4>c. UpvalueAt(f.byte_code, ip + 3 * u).index = low + 256 * high
        BY <4>4
      <4> HIDE DEF low, high
      <4>d. low + 256 * high \in Nat
        BY <4>b
      <4>5. UpvalueAt(f.byte_code, ip + 3 * u).index \in Nat
        BY <4>c, <4>d
      <4>6. QED
        BY <4>5 DEF UpvalueSize
    <3>6. QED
      BY <1>1, <1>7, <3>3, <3>4, <3>5
  <2>6. QED
    BY <2>1, <2>2, <2>4, <2>5
<1>10. Length(fs, g, jp) = size
  BY <1>4, <1>9 DEF Length
<1>11. Valid(fs, g, jp)
  <2>1. g.byte_code[jp + 1] + 1 \in DOMAIN OpCode
    BY <1>3 DEF Valid
  <2> HIDE DEF op, size, operand
  <2>2. QED
    BY <1>4, <1>6, <1>8, <1>9, <2>1 DEF Valid
<1>12. QED
  BY <1>4, <1>5, <1>10, <1>11

LEMMA SameLanding ==
  ASSUME NEW f, NEW g, NEW ip, OpOf(g, ip) = OpOf(f, ip),
         OpOf(f, ip) \in IndexOps => OperandAt(g, ip) = OperandAt(f, ip)
  PROVE  Landing(g, ip) = Landing(f, ip)
BY OperandOps DEF Landing

\* Where code is the same in g, it is decoded the same.
LEMMA KeptInstruction ==
  ASSUME NEW fs \in Seq(FunctionType), NEW f \in FunctionType, NEW g \in FunctionType,
         Richer(f, g), NEW S, Decoded(fs, f, S), NEW ip \in S \ {Len(f.byte_code)},
         \A i \in 1..Length(fs, f, ip) : g.byte_code[ip + i] = f.byte_code[ip + i]
  PROVE  /\ Valid(fs, g, ip) /\ Length(fs, g, ip) = Length(fs, f, ip)
         /\ OpOf(g, ip) = OpOf(f, ip) /\ Landing(g, ip) = Landing(f, ip)
<1>1. /\ ip \in Nat /\ Valid(fs, f, ip) /\ ip + Length(fs, f, ip) <= Len(f.byte_code)
  <2>1. /\ S \subseteq 0..Len(f.byte_code) /\ Valid(fs, f, ip) /\ ip + Length(fs, f, ip) \in S
    BY DEF Decoded
  <2>2. Len(f.byte_code) \in Nat
    BY FieldTypes
  <2>3. \A n \in Nat : \A s \in 0..n : s \in Nat /\ s <= n
    OBVIOUS
  <2>4. QED
    BY <2>1, <2>2, <2>3
<1>2. /\ Valid(fs, g, ip) /\ Length(fs, g, ip) = Length(fs, f, ip)
      /\ OpOf(g, ip) = OpOf(f, ip)
      /\ OpOf(f, ip) \in IndexOps => OperandAt(g, ip) = OperandAt(f, ip)
  BY <1>1, SameInstruction
<1>3. QED
  BY <1>2, SameLanding

LEMMA AppendDecoded ==
  ASSUME NEW fs \in Seq(FunctionType), NEW f \in FunctionType, NEW g \in FunctionType,
         Richer(f, g), NEW b \in Seq(0..255), g.byte_code = f.byte_code \o b,
         NEW S, Decoded(fs, f, S),
         Valid(fs, g, Len(f.byte_code)), Length(fs, g, Len(f.byte_code)) = Len(b)
  PROVE  /\ Decoded(fs, g, S \cup {Len(f.byte_code) + Len(b)})
         /\ \A ip \in S \ {Len(f.byte_code)} :
              /\ Length(fs, g, ip) = Length(fs, f, ip)
              /\ OpOf(g, ip) = OpOf(f, ip) /\ Landing(g, ip) = Landing(f, ip)
<1> DEFINE n == Len(f.byte_code)
           m == Len(b)
           T == S \cup {n + m}
<1>1. /\ f.byte_code \in Seq(0..255) /\ n \in Nat /\ m \in Nat \ {0}
  BY FieldTypes, LengthOf
<1>2. /\ Len(g.byte_code) = n + m
      /\ \A i \in 1..n : g.byte_code[i] = f.byte_code[i]
  BY <1>1
<1>3. S \subseteq 0..n /\ 0 \in S /\ n \in S
  BY DEF Decoded
<1>4. ASSUME NEW ip \in S \ {n}
      PROVE  /\ Valid(fs, g, ip) /\ Length(fs, g, ip) = Length(fs, f, ip)
             /\ OpOf(g, ip) = OpOf(f, ip) /\ Landing(g, ip) = Landing(f, ip)
             /\ ip + Length(fs, f, ip) \in S
             /\ \A s \in S : s <= ip \/ ip + Length(fs, f, ip) <= s
             /\ ip + Length(fs, f, ip) <= n
  <2>1. /\ Valid(fs, f, ip) /\ ip + Length(fs, f, ip) \in S
        /\ \A s \in S : s <= ip \/ ip + Length(fs, f, ip) <= s
    BY DEF Decoded
  <2>2. Length(fs, f, ip) \in Nat \ {0} /\ ip \in Nat /\ ip + Length(fs, f, ip) <= n
    <3>1. Length(fs, f, ip) \in Nat \ {0}
      BY <2>1, LengthOf
    <3>2. \A s \in 0..n : s \in Nat /\ s <= n
      BY <1>1
    <3>3. QED
      BY <1>3, <2>1, <3>1, <3>2
  <2>3. \A i \in 1..Length(fs, f, ip) : g.byte_code[ip + i] = f.byte_code[ip + i]
    <3>1. \A i \in 1..Length(fs, f, ip) : ip + i \in 1..n
      BY <1>1, <2>2
    <3>2. QED
      BY <1>2, <3>1
  <2>4. /\ Valid(fs, g, ip) /\ Length(fs, g, ip) = Length(fs, f, ip)
        /\ OpOf(g, ip) = OpOf(f, ip) /\ Landing(g, ip) = Landing(f, ip)
    BY <2>3, KeptInstruction, Zenon
  <2>5. QED
    BY <2>1, <2>2, <2>4
<1> HIDE DEF n, m
<1>5. \A s \in S : s \in Nat /\ s <= n
  BY <1>1, <1>3
<1>6. T \subseteq 0..(n + m) /\ 0 \in T /\ n + m \in T
  <2>1. n + m \in 0..(n + m) /\ \A s \in S : s \in 0..(n + m)
    BY <1>1, <1>5
  <2>2. QED
    BY <1>3, <2>1
<1>7. ASSUME NEW ip \in T \ {n + m}
      PROVE  /\ Valid(fs, g, ip) /\ ip + Length(fs, g, ip) \in T
             /\ \A s \in T : s <= ip \/ ip + Length(fs, g, ip) <= s
  <2>1. CASE ip = n
    <3>1. Valid(fs, g, n) /\ Length(fs, g, n) = m
      BY DEF n, m
    <3>2. n <= n /\ n + m <= n + m
      BY <1>1
    <3>3. QED
      BY <1>5, <2>1, <3>1, <3>2
  <2>2. CASE ip # n
    <3>1. ip \in S \ {n}
      BY <2>2 DEF T
    <3>2. /\ Valid(fs, g, ip) /\ Length(fs, g, ip) = Length(fs, f, ip)
          /\ ip + Length(fs, f, ip) \in S
          /\ \A s \in S : s <= ip \/ ip + Length(fs, f, ip) <= s
          /\ ip + Length(fs, f, ip) <= n
      BY <1>4, <3>1
    <3>3. ip + Length(fs, f, ip) \in Nat
      BY <1>5, <3>2
    <3>4. ip + Length(fs, f, ip) <= n + m
      BY <1>1, <3>2, <3>3
    <3>5. QED
      BY <3>2, <3>4
  <2>3. QED
    BY <2>1, <2>2
<1>8. Decoded(fs, g, T)
  <2> HIDE DEF T
  <2>1. QED
    BY <1>2, <1>6, <1>7 DEF Decoded
<1>9. QED
  BY <1>4, <1>8 DEF n, m

\* In g one instruction of m bytes follows the code of f.
Appended(fs, f, g, m) ==
  LET n == Len(f.byte_code) IN
  /\ Follows(fs, f, g, {n + 1}, {})
  /\ Starts(fs, g) = Starts(fs, f) \cup {n + m}
  /\ (CodeFits(g) => Landing(g, n) \subseteq Starts(fs, g)) => Follows(fs, f, g, {}, {})
  /\ OpOf(g, n) \in Jump => n + 1 \in Jumps(fs, g)
  /\ \A ip \in Instructions(fs, f) :
       /\ ip \in Instructions(fs, g)
       /\ OpOf(g, ip) = OpOf(f, ip) /\ Landing(g, ip) = Landing(f, ip)
       /\ Length(fs, g, ip) = Length(fs, f, ip)
  /\ Instructions(fs, g) = Instructions(fs, f) \cup {n}

LEMMA AppendFollows ==
  ASSUME NEW fs \in Seq(FunctionType), NEW f \in FunctionType, NEW g \in FunctionType,
         Richer(f, g), NEW b \in Seq(0..255), g.byte_code = f.byte_code \o b,
         Decodable(fs, f),
         Valid(fs, g, Len(f.byte_code)), Length(fs, g, Len(f.byte_code)) = Len(b)
  PROVE  Appended(fs, f, g, Len(b))
<1> DEFINE n == Len(f.byte_code)
           m == Len(b)
           S == Starts(fs, f)
           T == S \cup {n + m}
<1>1. /\ f.byte_code \in Seq(0..255) /\ g.byte_code \in Seq(0..255)
      /\ n \in Nat /\ m \in Nat \ {0} /\ Len(g.byte_code) = n + m
  BY FieldTypes, LengthOf
<1>2. Decoded(fs, f, S)
  BY StartsDecode
<1>3. /\ Decoded(fs, g, T)
      /\ \A ip \in S \ {n} : /\ Length(fs, g, ip) = Length(fs, f, ip)
                             /\ OpOf(g, ip) = OpOf(f, ip) /\ Landing(g, ip) = Landing(f, ip)
  <2> HIDE DEF S
  <2>1. \A R : Decoded(fs, f, R) =>
          /\ Decoded(fs, g, R \cup {Len(f.byte_code) + Len(b)})
          /\ \A ip \in R \ {Len(f.byte_code)} :
               /\ Length(fs, g, ip) = Length(fs, f, ip)
               /\ OpOf(g, ip) = OpOf(f, ip) /\ Landing(g, ip) = Landing(f, ip)
    BY AppendDecoded, ZenonT(60)
  <2>2. QED
    BY <1>2, <2>1, Zenon
<1>4. Starts(fs, g) = T /\ Decodable(fs, g)
  BY <1>1, <1>3, StartsAre
<1>5. S \subseteq 0..n /\ n \in S
  BY <1>2 DEF Decoded
<1>6. Instructions(fs, f) = S \ {n} /\ Instructions(fs, g) = S
  <2>1. Instructions(fs, g) = T \ {n + m}
    BY <1>1, <1>4 DEF Instructions
  <2>2. n + m \notin S
    BY <1>1, <1>5
  <2>3. QED
    BY <2>1, <2>2 DEF Instructions
<1> HIDE DEF S
<1>7. Jumps(fs, f) \subseteq Jumps(fs, g)
  BY <1>3, <1>6 DEF Jumps
<1>8. Open(fs, g) \subseteq Open(fs, f) \cup {n + 1}
  <2>1. Open(fs, g) = {ip + 1 : ip \in {i \in S : ~(Landing(g, i) \subseteq T)}}
    BY <1>4, <1>6 DEF Open
  <2>2. Open(fs, f) = {ip + 1 : ip \in {i \in S \ {n} : ~(Landing(f, i) \subseteq S)}}
    BY <1>6 DEF Open, S
  <2>3. \A i \in S \ {n} : ~(Landing(g, i) \subseteq T) => ~(Landing(f, i) \subseteq S)
    BY <1>3
  <2>4. QED
    BY <2>1, <2>2, <2>3
<1>9. ASSUME Landing(g, n) \subseteq T
      PROVE  Open(fs, g) \subseteq Open(fs, f)
  <2>1. Open(fs, g) = {ip + 1 : ip \in {i \in S : ~(Landing(g, i) \subseteq T)}}
    BY <1>4, <1>6 DEF Open
  <2>2. Open(fs, f) = {ip + 1 : ip \in {i \in S \ {n} : ~(Landing(f, i) \subseteq S)}}
    BY <1>6 DEF Open, S
  <2>3. \A i \in S : ~(Landing(g, i) \subseteq T) => i \in S \ {n} /\ ~(Landing(f, i) \subseteq S)
    BY <1>3, <1>9
  <2>4. QED
    BY <2>1, <2>2, <2>3
<1>10. OpOf(g, n) \in Jump => n + 1 \in Jumps(fs, g)
  BY <1>5, <1>6 DEF Jumps
<1>11. Len(f.byte_code) <= Len(g.byte_code)
  BY <1>1
<1>12. Starts(fs, f) = S
  BY DEF S
<1> HIDE DEF T, n, m
<1>13. S \subseteq T /\ S = (S \ {n}) \cup {n}
  BY <1>5 DEF T
<1>14. Follows(fs, f, g, {n + 1}, {})
  BY <1>4, <1>7, <1>8, <1>11, <1>12, <1>13 DEF Follows
<1>15. (CodeFits(g) => Landing(g, n) \subseteq Starts(fs, g)) => Follows(fs, f, g, {}, {})
  BY <1>4, <1>7, <1>9, <1>11, <1>12, <1>13 DEF Follows
<1>16. QED
  BY <1>3, <1>4, <1>6, <1>10, <1>12, <1>13, <1>14, <1>15 DEF T, n, m, Appended

\* More constants or upvalues, and the same code.
LEMMA RicherFollows ==
  ASSUME NEW fs \in Seq(FunctionType), NEW f \in FunctionType, NEW g \in FunctionType,
         Richer(f, g), g.byte_code = f.byte_code, Decodable(fs, f)
  PROVE  /\ Follows(fs, f, g, {}, {}) /\ Starts(fs, g) = Starts(fs, f)
         /\ Jumps(fs, g) = Jumps(fs, f) /\ Open(fs, g) = Open(fs, f)
<1> DEFINE S == Starts(fs, f)
<1>1. Decoded(fs, f, S)
  BY StartsDecode
<1> HIDE DEF S
<1>2. \A ip \in S \ {Len(f.byte_code)} :
        /\ Valid(fs, g, ip) /\ Length(fs, g, ip) = Length(fs, f, ip)
        /\ OpOf(g, ip) = OpOf(f, ip) /\ Landing(g, ip) = Landing(f, ip)
  BY <1>1, KeptInstruction, ZenonT(60)
<1>3. Decoded(fs, g, S)
  BY <1>1, <1>2 DEF Decoded
<1>4. Starts(fs, g) = S /\ Decodable(fs, g)
  BY <1>3, FieldTypes, StartsAre
<1>5. Instructions(fs, f) = S \ {Len(f.byte_code)} /\ Instructions(fs, g) = S \ {Len(f.byte_code)}
  BY <1>4 DEF Instructions, S
<1>6. Jumps(fs, g) = Jumps(fs, f)
  BY <1>2, <1>5 DEF Jumps
<1>7. Open(fs, g) = Open(fs, f)
  <2>1. S = Starts(fs, f)
    BY DEF S
  <2>2. QED
    BY <1>2, <1>4, <1>5, <2>1 DEF Open
<1>8. Len(f.byte_code) <= Len(g.byte_code)
  BY FieldTypes
<1>9. QED
  BY <1>4, <1>6, <1>7, <1>8 DEF Follows, S

\* A jump that is patched lands at the end of the code.
LEMMA PatchFollows ==
  ASSUME NEW fs \in Seq(FunctionType), NEW f \in FunctionType, NEW g \in FunctionType,
         Richer(f, g), Decodable(fs, f), NEW offset \in Jumps(fs, f),
         Len(g.byte_code) = Len(f.byte_code),
         \A i \in 1..Len(f.byte_code) :
           i # offset + 1 /\ i # offset + 2 => g.byte_code[i] = f.byte_code[i],
         LET operand == IndexBytes(Len(f.byte_code) - offset - 2)
         IN  g.byte_code[offset + 1] = operand[1] /\ g.byte_code[offset + 2] = operand[2]
  PROVE  /\ Follows(fs, f, g, {}, {offset}) /\ Starts(fs, g) = Starts(fs, f)
         /\ Len(f.byte_code) - offset - 2 \in Nat
<1> DEFINE S == Starts(fs, f)
           n == Len(f.byte_code)
<1>1. Decoded(fs, f, S) /\ n \in Nat /\ f.byte_code \in Seq(0..255)
  BY StartsDecode, FieldTypes
<1>2. PICK ip \in S \ {n} : OpOf(f, ip) \in Jump /\ offset = ip + 1
  BY DEF Jumps, Instructions
<1>3. /\ S \subseteq 0..n /\ n \in S
      /\ \A i \in S \ {n} : /\ Valid(fs, f, i) /\ i + Length(fs, f, i) \in S
                            /\ \A s \in S : s <= i \/ i + Length(fs, f, i) <= s
  BY <1>1 DEF Decoded
<1>4. ip \in 0..n /\ ip # n /\ Length(fs, f, ip) = 3 /\ ip + 3 <= n
  <2>1. Length(fs, f, ip) = 3
    <3>1. OpOf(f, ip) \in IndexOps \ {"OP_CLOSURE"}
      BY <1>2 DEF Jump, IndexOps
    <3>2. QED
      BY <1>2, <1>3, <3>1, LengthOf
  <2>2. ip \in 0..n /\ ip + 3 \in 0..n
    BY <1>2, <1>3, <2>1
  <2>3. QED
    BY <1>1, <1>2, <2>1, <2>2
<1> HIDE DEF S, n
<1>5. /\ \A i \in 1..n : i # ip + 2 /\ i # ip + 3 => g.byte_code[i] = f.byte_code[i]
      /\ g.byte_code[ip + 2] = IndexBytes(n - ip - 3)[1]
      /\ g.byte_code[ip + 3] = IndexBytes(n - ip - 3)[2]
      /\ n - ip - 3 \in Nat /\ n - offset - 2 = n - ip - 3
  <2>1. offset + 1 = ip + 2 /\ offset + 2 = ip + 3 /\ n - offset - 2 = n - ip - 3 /\ n - ip - 3 \in Nat
    BY <1>1, <1>2, <1>4
  <2>2. QED
    BY <2>1 DEF n
<1>6. ASSUME NEW i \in S \ {n}, i # ip
      PROVE  /\ Valid(fs, g, i) /\ Length(fs, g, i) = Length(fs, f, i)
             /\ OpOf(g, i) = OpOf(f, i) /\ Landing(g, i) = Landing(f, i)
  <2>1. i \in 0..n /\ Length(fs, f, i) \in Nat \ {0} /\ i + Length(fs, f, i) \in 0..n
    BY <1>3, LengthOf
  <2>2. ip <= i \/ i + Length(fs, f, i) <= ip
    BY <1>2, <1>3
  <2>3. i <= ip \/ ip + 3 <= i
    BY <1>2, <1>3, <1>4
  <2>4. \A j \in 1..Length(fs, f, i) : i + j \in 1..n /\ i + j # ip + 2 /\ i + j # ip + 3
    BY <1>1, <1>4, <1>6, <2>1, <2>2, <2>3
  <2>5. \A j \in 1..Length(fs, f, i) : g.byte_code[i + j] = f.byte_code[i + j]
    BY <1>5, <2>4
  <2>6. QED
    BY <1>1, <2>5, KeptInstruction, ZenonT(60) DEF n
<1>7. OpOf(g, ip) = OpOf(f, ip)
  <2>1. ip + 1 \in 1..n /\ ip + 1 # ip + 2 /\ ip + 1 # ip + 3
    BY <1>1, <1>4
  <2>2. g.byte_code[ip + 1] = f.byte_code[ip + 1]
    BY <1>5, <2>1
  <2>3. QED
    BY <2>2 DEF OpOf, OpAt
<1>8. Valid(fs, g, ip) /\ Length(fs, g, ip) = 3
  <2>1. g.byte_code[ip + 1] + 1 \in DOMAIN OpCode
    <3>1. ip + 1 \in 1..n /\ ip + 1 # ip + 2 /\ ip + 1 # ip + 3
      BY <1>1, <1>4
    <3>2. QED
      BY <1>2, <1>3, <1>5, <3>1 DEF Valid
  <2>2. OpOf(g, ip) \in Jump
    BY <1>2, <1>7
  <2>3. /\ ConstantType(OpOf(g, ip)) = {}
        /\ OpOf(g, ip) \notin {"OP_GET_UPVALUE", "OP_SET_UPVALUE", "OP_CLOSURE"}
        /\ OpOf(g, ip) \in IndexOps
    BY <2>2 DEF Jump, ConstantType, IndexOps
  <2>4. QED
    BY <2>1, <2>3 DEF Valid, Length
<1>9. Decoded(fs, g, S)
  <2>1. \A i \in S \ {n} : Valid(fs, g, i) /\ Length(fs, g, i) = Length(fs, f, i)
    BY <1>4, <1>6, <1>8
  <2>2. Len(g.byte_code) = n
    BY DEF n
  <2>3. 0 \in S
    BY <1>1 DEF Decoded
  <2>4. QED
    BY <1>3, <2>1, <2>2, <2>3 DEF Decoded
<1>10. Starts(fs, g) = S /\ Decodable(fs, g)
  BY <1>9, FieldTypes, StartsAre
<1>11. /\ Instructions(fs, f) = S \ {n} /\ Instructions(fs, g) = S \ {n} /\ Starts(fs, f) = S
       /\ Len(g.byte_code) = n
  BY <1>10 DEF Instructions, S, n
<1>12. Jumps(fs, f) \subseteq Jumps(fs, g)
  BY <1>2, <1>6, <1>7, <1>11 DEF Jumps
<1>13. ASSUME CodeFits(g)
       PROVE  Open(fs, g) \subseteq Open(fs, f) \ {offset}
  <2>1. Landing(g, ip) = {n}
    <3>1. n <= MAX_INDEX_SIZE
      BY <1>11, <1>13 DEF CodeFits
    <3>2. n - ip - 3 <= MAX_INDEX_SIZE
      BY <1>1, <1>4, <3>1 DEF MAX_INDEX_SIZE
    <3>3. g.byte_code[ip + 2] + 256 * g.byte_code[ip + 3] = n - ip - 3
      BY <1>5, <3>2, IndexRoundTrip
    <3>4. ip + 1 + 1 = ip + 2 /\ ip + 1 + 2 = ip + 3
      BY <1>4
    <3>5. OperandAt(g, ip) = n - ip - 3
      BY <3>3, <3>4 DEF OperandAt, IndexAt
    <3>6. ip + 3 + OperandAt(g, ip) = n
      BY <1>1, <1>4, <3>5
    <3>7. QED
      BY <1>2, <1>7, <3>6 DEF Landing
  <2>2. \A i \in S \ {n} : ~(Landing(g, i) \subseteq S) => i # ip /\ ~(Landing(f, i) \subseteq S)
    BY <1>3, <1>6, <2>1
  <2>3. ASSUME NEW o \in Open(fs, g)
        PROVE  o \in Open(fs, f) /\ o # offset
    <3>1. PICK i \in S \ {n} : ~(Landing(g, i) \subseteq S) /\ o = i + 1
      BY <1>10, <1>11 DEF Open
    <3>2. i # ip /\ ~(Landing(f, i) \subseteq S)
      BY <2>2, <3>1
    <3>3. o \in Open(fs, f)
      BY <1>11, <3>1, <3>2 DEF Open
    <3>4. i \in Nat /\ ip \in Nat
      BY <1>1, <1>3, <1>4
    <3>5. QED
      BY <1>2, <3>1, <3>2, <3>3, <3>4
  <2>4. QED
    BY <2>3
<1>14. Len(f.byte_code) <= Len(g.byte_code)
  BY <1>1, <1>11 DEF n
<1>15. Follows(fs, f, g, {}, {offset})
  BY <1>10, <1>11, <1>12, <1>13, <1>14 DEF Follows
<1>16. QED
  BY <1>5, <1>10, <1>11, <1>15 DEF n

LEMMA FollowsTransitive ==
  ASSUME NEW fs, NEW f \in FunctionType, NEW g \in FunctionType, NEW h \in FunctionType,
         NEW X, NEW Y, NEW V, NEW W, Follows(fs, f, g, X, Y), Follows(fs, g, h, V, W)
  PROVE  Follows(fs, f, h, (X \ W) \cup V, Y \cup W)
<1>1. /\ Len(f.byte_code) \in Nat /\ Len(g.byte_code) \in Nat /\ Len(h.byte_code) \in Nat
      /\ Len(f.constant_pool) \in Nat /\ Len(g.constant_pool) \in Nat /\ Len(h.constant_pool) \in Nat
      /\ f.upvalue_count \in Nat /\ g.upvalue_count \in Nat /\ h.upvalue_count \in Nat
  BY FieldTypes
<1>2. Richer(f, h)
  <2>1. Richer(f, g) /\ Richer(g, h)
    BY DEF Follows
  <2>2. \A i \in 1..Len(f.constant_pool) : i \in 1..Len(g.constant_pool)
    BY <1>1, <2>1 DEF Richer
  <2>3. QED
    BY <1>1, <2>1, <2>2 DEF Richer
<1>3. Len(f.byte_code) <= Len(g.byte_code) /\ Len(g.byte_code) <= Len(h.byte_code)
  BY DEF Follows
<1>4. CodeFits(h) => CodeFits(g)
  BY <1>1, <1>3 DEF CodeFits, MAX_INDEX_SIZE
<1>5. Len(f.byte_code) <= Len(h.byte_code)
  BY <1>1, <1>3
<1>6. QED
  BY <1>2, <1>4, <1>5 DEF Follows

LEMMA FollowsSame ==
  ASSUME NEW fs, NEW f \in FunctionType, Decodable(fs, f)
  PROVE  Follows(fs, f, f, {}, {})
<1>1. Richer(f, f) /\ Len(f.byte_code) <= Len(f.byte_code)
  BY FieldTypes DEF Richer
<1>2. QED
  BY <1>1 DEF Follows

LEMMA FollowsAtMost ==
  ASSUME NEW fs, NEW f, NEW g, NEW X, NEW Y, NEW V, NEW W,
         Follows(fs, f, g, X, Y), X \subseteq V, W \subseteq Y
  PROVE  Follows(fs, f, g, V, W)
BY DEF Follows

-------------------------------------------------------------------------------
(***************************************************************************)
(* What is emitted is whole instructions.                                  *)
(***************************************************************************)
LEMMA PlainIsValid ==
  ASSUME NEW fs, NEW g, NEW ip, NEW op \in PlainOps, g.byte_code[ip + 1] = Byte[op]
  PROVE  Valid(fs, g, ip) /\ Length(fs, g, ip) = 1 /\ OpOf(g, ip) = op /\ Landing(g, ip) = {}
<1>1. op \in OpCodeName /\ op \notin IndexOps
  BY DEF PlainOps
<1>2. OpOf(g, ip) = op /\ g.byte_code[ip + 1] + 1 \in DOMAIN OpCode
  BY <1>1, OpCodeOfByte DEF OpOf, OpAt
<1>3. /\ ConstantType(op) = {} /\ op \notin {"OP_GET_UPVALUE", "OP_SET_UPVALUE", "OP_CLOSURE"}
      /\ op # "OP_LOOP" /\ op \notin Jump
  BY <1>1, OperandOps
<1>4. QED
  BY <1>1, <1>2, <1>3 DEF Valid, Length, Landing

\* At the end of its scope, every local costs one instruction of one byte.
PopByte == {Byte["OP_POP"], Byte["OP_CLOSE_UPVALUE"]}

LEMMA PopOps ==
  /\ "OP_POP" \in PlainOps /\ "OP_CLOSE_UPVALUE" \in PlainOps /\ "OP_RETURN" \in PlainOps
  /\ "OP_NIL" \in PlainOps
BY OpCodeNames DEF PlainOps, IndexOps

LEMMA PopsFollow ==
  ASSUME NEW fs \in Seq(FunctionType), NEW f \in FunctionType, NEW g \in FunctionType,
         Richer(f, g), NEW b \in Seq(0..255), g.byte_code = f.byte_code \o b,
         \A i \in 1..Len(b) : b[i] \in PopByte, Decodable(fs, f)
  PROVE  Follows(fs, f, g, {}, {})
<1> DEFINE n == Len(f.byte_code)
           m == Len(b)
           S == Starts(fs, f)
           T == S \cup n..(n + m)
<1>1. /\ f.byte_code \in Seq(0..255) /\ g.byte_code \in Seq(0..255)
      /\ n \in Nat /\ m \in Nat
  BY FieldTypes
<1>2. /\ Len(g.byte_code) = n + m
      /\ \A i \in 1..n : g.byte_code[i] = f.byte_code[i]
      /\ \A i \in 1..m : g.byte_code[n + i] = b[i]
  BY <1>1
<1>3. Decoded(fs, f, S)
  BY StartsDecode
<1> HIDE DEF S, n, m
<1>4. /\ S \subseteq 0..n /\ 0 \in S /\ n \in S
      /\ \A i \in S \ {n} : /\ Valid(fs, f, i) /\ i + Length(fs, f, i) \in S
                            /\ \A s \in S : s <= i \/ i + Length(fs, f, i) <= s
  BY <1>3 DEF Decoded, n
<1>5. ASSUME NEW i \in S \ {n}
      PROVE  /\ Valid(fs, g, i) /\ Length(fs, g, i) = Length(fs, f, i)
             /\ OpOf(g, i) = OpOf(f, i) /\ Landing(g, i) = Landing(f, i)
             /\ i + Length(fs, f, i) \in 0..n /\ i \in 0..n
  <2>1. Length(fs, f, i) \in Nat \ {0} /\ i \in 0..n /\ i + Length(fs, f, i) \in 0..n
    BY <1>4, LengthOf
  <2>2. \A j \in 1..Length(fs, f, i) : i + j \in 1..n
    BY <1>1, <2>1
  <2>3. \A j \in 1..Length(fs, f, i) : g.byte_code[i + j] = f.byte_code[i + j]
    BY <1>2, <2>2
  <2>4. /\ Valid(fs, g, i) /\ Length(fs, g, i) = Length(fs, f, i)
        /\ OpOf(g, i) = OpOf(f, i) /\ Landing(g, i) = Landing(f, i)
    BY <1>3, <2>3, KeptInstruction, ZenonT(60) DEF n
  <2>5. QED
    BY <2>1, <2>4
<1>6. ASSUME NEW i \in n..(n + m), i # n + m
      PROVE  /\ Valid(fs, g, i) /\ Length(fs, g, i) = 1 /\ Landing(g, i) = {}
             /\ OpOf(g, i) \notin Jump
  <2>1. i - n + 1 \in 1..m /\ n + (i - n + 1) = i + 1
    BY <1>1, <1>6
  <2>2. g.byte_code[i + 1] \in PopByte
    BY <1>2, <2>1 DEF m
  <2>3. PICK op \in {"OP_POP", "OP_CLOSE_UPVALUE"} : g.byte_code[i + 1] = Byte[op]
    BY <2>2 DEF PopByte
  <2>4. op \in PlainOps /\ op \notin Jump
    BY PopOps DEF Jump
  <2>5. QED
    BY <2>3, <2>4, PlainIsValid
<1>7. T \subseteq 0..(n + m) /\ 0 \in T /\ n + m \in T
  <2>1. n + m \in n..(n + m) /\ \A s \in 0..n : s \in 0..(n + m)
    BY <1>1
  <2>2. \A s \in n..(n + m) : s \in 0..(n + m)
    BY <1>1
  <2>3. QED
    BY <1>4, <2>1, <2>2
<1>8. ASSUME NEW i \in T \ {n + m}
      PROVE  /\ Valid(fs, g, i) /\ i + Length(fs, g, i) \in T
             /\ \A s \in T : s <= i \/ i + Length(fs, g, i) <= s
  <2>1. CASE i \in S \ {n}
    <3>1. /\ Valid(fs, g, i) /\ Length(fs, g, i) = Length(fs, f, i)
          /\ i + Length(fs, f, i) \in 0..n
      BY <1>5, <2>1
    <3>2. \A s \in n..(n + m) : i + Length(fs, f, i) <= s
      BY <1>1, <3>1
    <3>3. QED
      BY <1>4, <2>1, <3>1, <3>2
  <2>2. CASE i \notin S \ {n}
    <3>1. i \in n..(n + m) /\ i # n + m
      <4>1. n \in n..(n + m)
        BY <1>1
      <4>2. QED
        BY <2>2, <4>1
    <3>2. Valid(fs, g, i) /\ Length(fs, g, i) = 1
      BY <1>6, <3>1
    <3>3. i + 1 \in n..(n + m)
      BY <1>1, <3>1
    <3>4. \A s \in S : s <= i
      BY <1>1, <1>4, <3>1
    <3>5. \A s \in n..(n + m) : s <= i \/ i + 1 <= s
      BY <1>1, <3>1
    <3>6. QED
      BY <3>2, <3>3, <3>4, <3>5
  <2>3. QED
    BY <2>1, <2>2
<1>9. Decoded(fs, g, T)
  <2> HIDE DEF T
  <2>1. QED
    BY <1>2, <1>7, <1>8 DEF Decoded
<1>10. Starts(fs, g) = T /\ Decodable(fs, g)
  BY <1>1, <1>9, StartsAre
<1>11. /\ Starts(fs, f) = S /\ Instructions(fs, f) = S \ {n} /\ Instructions(fs, g) = T \ {n + m}
  BY <1>2, <1>10 DEF Instructions, S, n
<1>12. \A i \in S \ {n} : i # n + m
  BY <1>1, <1>4
<1>13. Jumps(fs, f) \subseteq Jumps(fs, g)
  BY <1>5, <1>11, <1>12 DEF Jumps
<1>14. \A i \in T \ {n + m} : ~(Landing(g, i) \subseteq T) => i \in S \ {n} /\ ~(Landing(f, i) \subseteq S)
  <2>1. \A i \in T \ {n + m} : i \notin S \ {n} => i \in n..(n + m)
    <3>1. n \in n..(n + m)
      BY <1>1
    <3>2. QED
      BY <3>1
  <2>2. QED
    BY <1>5, <1>6, <2>1
<1> HIDE DEF T
<1>15. Open(fs, g) \subseteq Open(fs, f)
  BY <1>10, <1>11, <1>14 DEF Open
<1>16. Len(f.byte_code) <= Len(g.byte_code)
  BY <1>1, <1>2 DEF n
<1>17. QED
  BY <1>10, <1>11, <1>13, <1>15, <1>16 DEF Follows, T

LEMMA IndexIsValid ==
  ASSUME NEW fs, NEW g \in FunctionType, NEW ip, NEW op \in IndexOps \ {"OP_CLOSURE"}, NEW index \in Nat,
         g.byte_code[ip + 1] = Byte[op],
         g.byte_code[ip + 1 + 1] = IndexBytes(index)[1], g.byte_code[ip + 1 + 2] = IndexBytes(index)[2],
         ConstantType(op) # {} => /\ index <= MAX_INDEX_SIZE /\ index < Len(g.constant_pool)
                                  /\ g.constant_pool[index + 1].type \in ConstantType(op),
         op \in {"OP_GET_UPVALUE", "OP_SET_UPVALUE"} => index < g.upvalue_count
  PROVE  /\ Valid(fs, g, ip) /\ Length(fs, g, ip) = 3 /\ OpOf(g, ip) = op
         /\ index <= MAX_INDEX_SIZE => OperandAt(g, ip) = index
<1>1. op \in OpCodeName /\ op # "OP_CLOSURE"
  BY OpCodeNames DEF IndexOps
<1>2. OpOf(g, ip) = op /\ g.byte_code[ip + 1] + 1 \in DOMAIN OpCode
  BY <1>1, OpCodeOfByte DEF OpOf, OpAt
<1>3. /\ OperandAt(g, ip) \in Nat /\ OperandAt(g, ip) <= index
      /\ index <= MAX_INDEX_SIZE => OperandAt(g, ip) = index
  BY IndexRoundTrip DEF OperandAt, IndexAt
<1>4. ConstantType(op) # {} =>
        OperandAt(g, ip) < Len(g.constant_pool) /\ ConstantAt(g, ip + 1).type \in ConstantType(op)
  BY <1>3 DEF ConstantAt, OperandAt
<1>5. op \in {"OP_GET_UPVALUE", "OP_SET_UPVALUE"} => OperandAt(g, ip) < g.upvalue_count
  BY <1>3, FieldTypes
<1>6. Valid(fs, g, ip)
  BY <1>1, <1>2, <1>4, <1>5 DEF Valid
<1>7. QED
  BY <1>1, <1>2, <1>3, <1>6 DEF Length

LEMMA Prefixed ==
  ASSUME NEW B, NEW b \in B, NEW s \in Seq(B), Len(s) = 2
  PROVE  /\ <<b>> \in Seq(B) /\ Len(<<b>>) = 1 /\ <<b>>[1] = b
         /\ <<b>> \o s \in Seq(B) /\ Len(<<b>> \o s) = 3
         /\ (<<b>> \o s)[1] = b /\ (<<b>> \o s)[2] = s[1] /\ (<<b>> \o s)[3] = s[2]
<1> DEFINE t == <<b>>
<1>1. t \in Seq(B) /\ Len(t) = 1 /\ t[1] = b
  OBVIOUS
<1> HIDE DEF t
<1>2. t \o s \in Seq(B) /\ Len(t \o s) = Len(t) + Len(s)
      /\ \A i \in 1..(Len(t) + Len(s)) :
           (t \o s)[i] = IF i <= Len(t) THEN t[i] ELSE s[i - Len(t)]
  BY <1>1, ConcatProperties, Zenon
<1>3. (t \o s)[1] = t[1] /\ (t \o s)[2] = s[1] /\ (t \o s)[3] = s[2]
  BY <1>1, <1>2
<1>4. QED
  BY <1>1, <1>2, <1>3 DEF t

LEMMA OpBytes ==
  ASSUME NEW op \in OpCodeName, NEW index \in Nat
  PROVE  /\ Op(op) \in Seq(0..255) /\ Len(Op(op)) = 1 /\ Op(op)[1] = Byte[op]
         /\ OpIndex(op, index) \in Seq(0..255) /\ Len(OpIndex(op, index)) = 3
         /\ OpIndex(op, index)[1] = Byte[op]
         /\ OpIndex(op, index)[2] = IndexBytes(index)[1]
         /\ OpIndex(op, index)[3] = IndexBytes(index)[2]
         /\ OpIndex(op, index) = Op(op) \o IndexBytes(index)
         /\ IndexBytes(index) \in Seq(0..255)
<1>1. Op(op) = <<Byte[op]>> /\ OpIndex(op, index) = <<Byte[op]>> \o IndexBytes(index)
  BY DEF Op, OpIndex
<1>2. Byte[op] \in 0..255
  BY OpCodeOfByte
<1>3. IndexBytes(index) \in Seq(0..255) /\ Len(IndexBytes(index)) = 2
  BY IndexBytesType
<1>5. /\ Op(op) \in Seq(0..255) /\ Len(Op(op)) = 1 /\ Op(op)[1] = Byte[op]
      /\ OpIndex(op, index) \in Seq(0..255) /\ Len(OpIndex(op, index)) = 3
      /\ OpIndex(op, index)[1] = Byte[op]
      /\ OpIndex(op, index)[2] = IndexBytes(index)[1]
      /\ OpIndex(op, index)[3] = IndexBytes(index)[2]
  BY <1>1, <1>2, <1>3, Prefixed
<1>6. QED
  BY <1>1, <1>3, <1>5

-------------------------------------------------------------------------------
(***************************************************************************)
(* The helpers of the compiler, by what they do to the function compiled.  *)
(***************************************************************************)
LEMMA Seen ==
  ASSUME NEW c \in CompilerType
  PROVE  LET f == FunctionObject(c) IN
         /\ f \in FunctionType /\ f.byte_code = c.byte_code /\ f.constant_pool = c.constant_pool
         /\ f.upvalue_count = Len(c.upvalues)
         /\ c.byte_code \in Seq(0..255) /\ c.constant_pool \in Seq(ConstantValue)
         /\ Len(c.byte_code) \in Nat /\ Len(c.constant_pool) \in Nat /\ Len(c.upvalues) \in Nat
<1>1. FunctionObject(c) \in FunctionType
  BY FunctionObjectType
<1>2. c.byte_code \in Seq(0..255) /\ c.constant_pool \in Seq(ConstantValue) /\ Len(c.upvalues) \in Nat
  BY DEF CompilerType
<1>3. QED
  BY <1>1, <1>2 DEF FunctionObject

\* d has the constants and upvalues of c.
SamePool(c, d) ==
  /\ d \in CompilerType
  /\ d.constant_pool = c.constant_pool /\ d.upvalues = c.upvalues

LEMMA SamePoolRicher ==
  ASSUME NEW c \in CompilerType, NEW d, SamePool(c, d)
  PROVE  /\ Richer(FunctionObject(c), FunctionObject(d))
         /\ ConstantsFit(FunctionObject(d)) <=> ConstantsFit(FunctionObject(c))
BY Seen DEF SamePool, Richer, ConstantsFit

LEMMA WithCodeOnly ==
  ASSUME NEW c \in CompilerType, NEW code \in Seq(0..255)
  PROVE  LET d == [c EXCEPT !.byte_code = code] IN SamePool(c, d) /\ d.byte_code = code
<1>1. [c EXCEPT !.byte_code = code] \in CompilerType
  BY WithCode DEF Keeps
<1>2. \A new : LET d == [c EXCEPT !.byte_code = new] IN
        d.byte_code = new /\ d.constant_pool = c.constant_pool /\ d.upvalues = c.upvalues
  BY DEF CompilerType
<1>3. QED
  BY <1>1, <1>2 DEF SamePool

LEMMA EmitCode ==
  ASSUME NEW c \in CompilerType, NEW bytes \in Seq(0..255)
  PROVE  SamePool(c, Emit(c, bytes)) /\ Emit(c, bytes).byte_code = c.byte_code \o bytes
<1>1. c.byte_code \o bytes \in Seq(0..255)
  BY Seen
<1>2. Emit(c, bytes) = [c EXCEPT !.byte_code = c.byte_code \o bytes]
  BY DEF Emit
<1>3. QED
  BY <1>1, <1>2, WithCodeOnly

LEMMA PoolCode ==
  ASSUME NEW c \in CompilerType, NEW value \in ConstantValue
  PROVE  LET d == Pool(c, value) IN
         /\ d \in CompilerType /\ d.byte_code = c.byte_code /\ d.upvalues = c.upvalues
         /\ d.constant_pool = Append(c.constant_pool, value)
         /\ Richer(FunctionObject(c), FunctionObject(d))
         /\ ConstantsFit(FunctionObject(d)) => ConstantsFit(FunctionObject(c))
         /\ LastConstant(d) = Len(c.constant_pool) /\ LastConstant(d) \in Nat
         /\ LastConstant(d) < Len(d.constant_pool) /\ d.constant_pool[LastConstant(d) + 1] = value
<1> DEFINE d == Pool(c, value)
<1>1. d \in CompilerType
  BY PoolKeeps DEF Keeps
<1>2. \A new : LET e == [c EXCEPT !.constant_pool = new] IN
        e.constant_pool = new /\ e.byte_code = c.byte_code /\ e.upvalues = c.upvalues
  BY DEF CompilerType
<1>3. d.byte_code = c.byte_code /\ d.upvalues = c.upvalues
      /\ d.constant_pool = Append(c.constant_pool, value)
  BY <1>2 DEF Pool
<1> HIDE DEF d
<1>4. /\ c.constant_pool \in Seq(ConstantValue) /\ Len(c.constant_pool) \in Nat
      /\ Len(c.upvalues) \in Nat
  BY Seen
<1>5. /\ Len(d.constant_pool) = Len(c.constant_pool) + 1
      /\ \A i \in 1..Len(c.constant_pool) : d.constant_pool[i] = c.constant_pool[i]
      /\ d.constant_pool[Len(c.constant_pool) + 1] = value
  BY <1>3, <1>4
<1>6. LastConstant(d) = Len(c.constant_pool)
  BY <1>4, <1>5 DEF LastConstant
<1>7. Richer(FunctionObject(c), FunctionObject(d))
  BY <1>1, <1>3, <1>4, <1>5, Seen DEF Richer
<1>8. ConstantsFit(FunctionObject(d)) => ConstantsFit(FunctionObject(c))
  BY <1>1, <1>4, <1>5, Seen DEF ConstantsFit, MAX_INDEX_SIZE
<1>9. QED
  BY <1>1, <1>3, <1>4, <1>5, <1>6, <1>7, <1>8 DEF d

\* The code of d is that of c and then the bytes.
Behind(c, d, bytes) == SamePool(c, d) /\ d.byte_code = c.byte_code \o bytes

LEMMA BehindAt ==
  ASSUME NEW c \in CompilerType, NEW bytes \in Seq(0..255), NEW d, Behind(c, d, bytes)
  PROVE  /\ Len(d.byte_code) = Len(c.byte_code) + Len(bytes)
         /\ \A i \in 1..Len(bytes) : d.byte_code[Len(c.byte_code) + i] = bytes[i]
BY Seen DEF Behind

Regroups(r, s, t) == (r \o s) \o t = r \o (s \o t)

LEMMA Regrouped == \A B : \A r, s, t \in Seq(B) : Regroups(r, s, t)
<1>1. \A B : \A r, s, t \in Seq(B) : (r \o s) \o t = r \o (s \o t)
  BY ConcatAssociative, Zenon
<1>2. QED
  BY <1>1, Zenon DEF Regroups

LEMMA BehindTwice ==
  ASSUME NEW c \in CompilerType, NEW first \in Seq(0..255), NEW second \in Seq(0..255),
         NEW d, NEW e, Behind(c, d, first), Behind(d, e, second)
  PROVE  Behind(c, e, first \o second)
<1>1. c.byte_code \in Seq(0..255)
  BY Seen
<1>2. (c.byte_code \o first) \o second = c.byte_code \o (first \o second)
  <2>1. Regroups(c.byte_code, first, second)
    BY <1>1, Regrouped, Zenon
  <2>2. QED
    BY <2>1, Zenon DEF Regroups
<1>3. QED
  BY <1>2 DEF Behind, SamePool

LEMMA BehindPlain ==
  ASSUME NEW fs \in Seq(FunctionType), NEW c \in CompilerType, NEW d, NEW op \in PlainOps,
         Decodable(fs, FunctionObject(c)), Behind(c, d, Op(op))
  PROVE  /\ Follows(fs, FunctionObject(c), FunctionObject(d), {}, {})
         /\ ConstantsFit(FunctionObject(d)) <=> ConstantsFit(FunctionObject(c))
         /\ LET f == FunctionObject(c)
                g == FunctionObject(d)
                n == Len(c.byte_code)
            IN  /\ Instructions(fs, g) = Instructions(fs, f) \cup {n}
                /\ OpOf(g, n) = op /\ Landing(g, n) = {} /\ Length(fs, g, n) = 1
                /\ \A ip \in Instructions(fs, f) :
                     /\ OpOf(g, ip) = OpOf(f, ip) /\ Landing(g, ip) = Landing(f, ip)
                     /\ Length(fs, g, ip) = Length(fs, f, ip)
<1> DEFINE f == FunctionObject(c)
           g == FunctionObject(d)
           n == Len(c.byte_code)
<1>1. d \in CompilerType /\ d.byte_code = c.byte_code \o Op(op) /\ SamePool(c, d)
  BY DEF Behind, SamePool
<1>2. /\ f \in FunctionType /\ g \in FunctionType /\ f.byte_code = c.byte_code
      /\ g.byte_code = d.byte_code
      /\ Richer(f, g) /\ (ConstantsFit(g) <=> ConstantsFit(f))
  BY <1>1, Seen, SamePoolRicher
<1>3. Op(op) \in Seq(0..255) /\ Len(Op(op)) = 1 /\ Op(op)[1] = Byte[op]
  BY OpBytes DEF PlainOps
<1>4. g.byte_code[n + 1] = Byte[op]
  <2>1. 1 \in 1..Len(Op(op))
    BY <1>3
  <2>2. d.byte_code[Len(c.byte_code) + 1] = Op(op)[1]
    BY <1>3, <2>1, BehindAt, Zenon
  <2>3. QED
    BY <1>2, <1>3, <2>2
<1> HIDE DEF f, g
<1>5. Valid(fs, g, n) /\ Length(fs, g, n) = 1 /\ OpOf(g, n) = op /\ Landing(g, n) = {}
  BY <1>4, PlainIsValid
<1>6. n = Len(f.byte_code) /\ g.byte_code = f.byte_code \o Op(op) /\ Decodable(fs, f)
  BY <1>1, <1>2 DEF f
<1> HIDE DEF n
<1>7. /\ Follows(fs, f, g, {}, {}) /\ Instructions(fs, g) = Instructions(fs, f) \cup {n}
      /\ \A ip \in Instructions(fs, f) :
           /\ OpOf(g, ip) = OpOf(f, ip) /\ Landing(g, ip) = Landing(f, ip)
           /\ Length(fs, g, ip) = Length(fs, f, ip)
  <2>1. Landing(g, n) \subseteq Starts(fs, g)
    BY <1>5
  <2>2. Valid(fs, g, Len(f.byte_code)) /\ Length(fs, g, Len(f.byte_code)) = Len(Op(op))
    BY <1>3, <1>5, <1>6
  <2>3. Appended(fs, f, g, Len(Op(op)))
    BY <1>2, <1>3, <1>6, <2>2, AppendFollows
  <2>4. QED
    BY <1>6, <2>1, <2>3 DEF Appended
<1>8. QED
  BY <1>2, <1>5, <1>7 DEF f, g, n

\* In d the instruction op, with its operand, follows the code of c.
Gained(fs, c, d, op, index) ==
  LET f == FunctionObject(c)
      g == FunctionObject(d)
      n == Len(c.byte_code)
  IN  /\ Follows(fs, f, g, {n + 1}, {})
      /\ OpOf(g, n) = op /\ (index <= MAX_INDEX_SIZE => OperandAt(g, n) = index)
      /\ Length(fs, g, n) = 3
      /\ op \in Jump => n + 1 \in Jumps(fs, g)
      /\ (CodeFits(g) => Landing(g, n) \subseteq Starts(fs, g)) => Follows(fs, f, g, {}, {})
      /\ Instructions(fs, g) = Instructions(fs, f) \cup {n}
      /\ \A ip \in Instructions(fs, f) :
           /\ OpOf(g, ip) = OpOf(f, ip) /\ Landing(g, ip) = Landing(f, ip)
           /\ Length(fs, g, ip) = Length(fs, f, ip)

LEMMA BehindIndex ==
  ASSUME NEW fs \in Seq(FunctionType), NEW c \in CompilerType, NEW d,
         NEW op \in IndexOps \ {"OP_CLOSURE"}, NEW index \in Nat,
         Decodable(fs, FunctionObject(c)), Behind(c, d, OpIndex(op, index)),
         ConstantType(op) # {} => /\ index <= MAX_INDEX_SIZE /\ index < Len(c.constant_pool)
                                  /\ c.constant_pool[index + 1].type \in ConstantType(op),
         op \in {"OP_GET_UPVALUE", "OP_SET_UPVALUE"} => index < Len(c.upvalues)
  PROVE  Gained(fs, c, d, op, index)
<1> DEFINE f == FunctionObject(c)
           g == FunctionObject(d)
           n == Len(c.byte_code)
           bytes == OpIndex(op, index)
<1>1. /\ d \in CompilerType /\ d.byte_code = c.byte_code \o bytes /\ SamePool(c, d)
      /\ d.constant_pool = c.constant_pool /\ d.upvalues = c.upvalues
  BY DEF Behind, SamePool
<1>2. /\ f \in FunctionType /\ g \in FunctionType /\ f.byte_code = c.byte_code
      /\ g.byte_code = d.byte_code /\ g.constant_pool = c.constant_pool
      /\ g.upvalue_count = Len(c.upvalues) /\ n \in Nat
      /\ Richer(f, g) /\ (ConstantsFit(g) <=> ConstantsFit(f))
  BY <1>1, Seen, SamePoolRicher
<1>3. /\ bytes \in Seq(0..255) /\ Len(bytes) = 3 /\ bytes[1] = Byte[op]
      /\ bytes[2] = IndexBytes(index)[1] /\ bytes[3] = IndexBytes(index)[2]
  <2>1. op \in OpCodeName
    BY OpCodeNames DEF IndexOps
  <2>2. QED
    BY <2>1, OpBytes
<1> HIDE DEF bytes
<1>4. /\ g.byte_code[n + 1] = Byte[op]
      /\ g.byte_code[n + 1 + 1] = IndexBytes(index)[1]
      /\ g.byte_code[n + 1 + 2] = IndexBytes(index)[2]
  <2>1. 1 \in 1..Len(bytes) /\ 2 \in 1..Len(bytes) /\ 3 \in 1..Len(bytes)
        /\ n + 1 + 1 = n + 2 /\ n + 1 + 2 = n + 3
    BY <1>2, <1>3
  <2>2. \A i \in 1..Len(bytes) : d.byte_code[n + i] = bytes[i]
    BY <1>3, BehindAt DEF bytes
  <2>3. QED
    BY <1>2, <1>3, <2>1, <2>2
<1>5. n = Len(f.byte_code) /\ g.byte_code = f.byte_code \o bytes /\ Decodable(fs, f)
  BY <1>1, <1>2
<1> HIDE DEF f, g, n
<1>6. /\ Valid(fs, g, n) /\ Length(fs, g, n) = 3 /\ OpOf(g, n) = op
      /\ index <= MAX_INDEX_SIZE => OperandAt(g, n) = index
  BY <1>2, <1>4, IndexIsValid
<1>7. /\ Follows(fs, f, g, {n + 1}, {}) /\ Instructions(fs, g) = Instructions(fs, f) \cup {n}
      /\ (CodeFits(g) => Landing(g, n) \subseteq Starts(fs, g)) => Follows(fs, f, g, {}, {})
      /\ OpOf(g, n) \in Jump => n + 1 \in Jumps(fs, g)
      /\ \A ip \in Instructions(fs, f) :
           /\ OpOf(g, ip) = OpOf(f, ip) /\ Landing(g, ip) = Landing(f, ip)
           /\ Length(fs, g, ip) = Length(fs, f, ip)
  <2>1. Valid(fs, g, Len(f.byte_code)) /\ Length(fs, g, Len(f.byte_code)) = Len(bytes)
    BY <1>3, <1>5, <1>6
  <2>2. Appended(fs, f, g, Len(bytes))
    BY <1>2, <1>3, <1>5, <2>1, AppendFollows
  <2>3. QED
    BY <1>5, <2>2 DEF Appended
<1>8. QED
  BY <1>2, <1>6, <1>7 DEF f, g, n, Gained

-------------------------------------------------------------------------------
(***************************************************************************)
(* What each helper of the compiler does to the code.                      *)
(***************************************************************************)
\* The code of c goes on as that of d.
Grows(fs, c, d, X, Y) ==
  d \in CompilerType /\ Follows(fs, FunctionObject(c), FunctionObject(d), X, Y)

LEMMA GrowsOn ==
  ASSUME NEW fs, NEW c \in CompilerType, NEW d, NEW X, NEW Y, Grows(fs, c, d, X, Y)
  PROVE  /\ d \in CompilerType /\ Decodable(fs, FunctionObject(d))
         /\ Richer(FunctionObject(c), FunctionObject(d))
         /\ Starts(fs, FunctionObject(c)) \subseteq Starts(fs, FunctionObject(d))
         /\ Jumps(fs, FunctionObject(c)) \subseteq Jumps(fs, FunctionObject(d))
BY DEF Grows, Follows

LEMMA GrowsThen ==
  ASSUME NEW fs, NEW c \in CompilerType, NEW d, NEW e, NEW X, NEW Y, NEW V, NEW W,
         Grows(fs, c, d, X, Y), Grows(fs, d, e, V, W)
  PROVE  \A P, Q : (X \ W) \cup V \subseteq P /\ Q \subseteq Y \cup W => Grows(fs, c, e, P, Q)
<1>1. d \in CompilerType /\ e \in CompilerType
  BY DEF Grows
<1>2. /\ FunctionObject(c) \in FunctionType /\ FunctionObject(d) \in FunctionType
      /\ FunctionObject(e) \in FunctionType
  BY <1>1, Seen
<1>3. Follows(fs, FunctionObject(c), FunctionObject(e), (X \ W) \cup V, Y \cup W)
  BY <1>2, FollowsTransitive DEF Grows
<1>4. QED
  BY <1>1, <1>3, FollowsAtMost DEF Grows

LEMMA SameCodeGrows ==
  ASSUME NEW fs \in Seq(FunctionType), NEW c \in CompilerType, NEW d \in CompilerType,
         d.byte_code = c.byte_code, Richer(FunctionObject(c), FunctionObject(d)),
         Decodable(fs, FunctionObject(c))
  PROVE  /\ Grows(fs, c, d, {}, {})
         /\ Starts(fs, FunctionObject(d)) = Starts(fs, FunctionObject(c))
         /\ Jumps(fs, FunctionObject(d)) = Jumps(fs, FunctionObject(c))
         /\ Open(fs, FunctionObject(d)) = Open(fs, FunctionObject(c))
<1>1. /\ FunctionObject(c) \in FunctionType /\ FunctionObject(d) \in FunctionType
      /\ FunctionObject(c).byte_code = FunctionObject(d).byte_code
  BY Seen
<1>2. QED
  BY <1>1, RicherFollows DEF Grows

LEMMA EmitGrows ==
  ASSUME NEW fs \in Seq(FunctionType), NEW c \in CompilerType, NEW bytes \in Seq(0..255),
         Decodable(fs, FunctionObject(c)), ConstantsFit(FunctionObject(c)),
         Emittable(FunctionObject(c), bytes)
  PROVE  Grows(fs, c, Emit(c, bytes), {}, {})
<1> DEFINE d == Emit(c, bytes)
           f == FunctionObject(c)
           g == FunctionObject(d)
<1>1. Behind(c, d, bytes) /\ d \in CompilerType
  BY EmitCode DEF Behind, SamePool
<1> HIDE DEF d
<1>2. CASE \E op \in PlainOps : bytes = Op(op)
  <2>1. PICK op \in PlainOps : bytes = Op(op)
    BY <1>2
  <2>2. Behind(c, d, Op(op))
    BY <1>1, <2>1
  <2>3. QED
    BY <1>1, <2>2, BehindPlain DEF Grows, d
<1>3. CASE \E op \in IndexOps \ (Jump \cup {"OP_LOOP", "OP_CLOSURE"}), index \in Nat :
             /\ bytes = OpIndex(op, index)
             /\ ConstantType(op) # {} =>
                  /\ index < Len(f.constant_pool)
                  /\ f.constant_pool[index + 1].type \in ConstantType(op)
             /\ op \in {"OP_GET_UPVALUE", "OP_SET_UPVALUE"} => index < f.upvalue_count
  <2>1. PICK op \in IndexOps \ (Jump \cup {"OP_LOOP", "OP_CLOSURE"}), index \in Nat :
             /\ bytes = OpIndex(op, index)
             /\ ConstantType(op) # {} =>
                  /\ index < Len(f.constant_pool)
                  /\ f.constant_pool[index + 1].type \in ConstantType(op)
             /\ op \in {"OP_GET_UPVALUE", "OP_SET_UPVALUE"} => index < f.upvalue_count
    BY <1>3
  <2>2. /\ f.constant_pool = c.constant_pool /\ f.upvalue_count = Len(c.upvalues)
        /\ Len(c.constant_pool) \in Nat
    BY Seen
  <2>3. ConstantType(op) # {} => /\ index <= MAX_INDEX_SIZE /\ index < Len(c.constant_pool)
                                 /\ c.constant_pool[index + 1].type \in ConstantType(op)
    BY <2>1, <2>2 DEF ConstantsFit, MAX_INDEX_SIZE
  <2>4. op \in {"OP_GET_UPVALUE", "OP_SET_UPVALUE"} => index < Len(c.upvalues)
    BY <2>1, <2>2
  <2>5. Behind(c, d, OpIndex(op, index)) /\ op \in IndexOps \ {"OP_CLOSURE"}
    BY <1>1, <2>1
  <2> HIDE DEF f, g
  <2>6. /\ OpOf(FunctionObject(d), Len(c.byte_code)) = op
        /\ (CodeFits(FunctionObject(d)) =>
              Landing(FunctionObject(d), Len(c.byte_code)) \subseteq Starts(fs, FunctionObject(d)))
           => Follows(fs, FunctionObject(c), FunctionObject(d), {}, {})
    <3>1. Gained(fs, c, d, op, index)
      BY <2>3, <2>4, <2>5, BehindIndex
    <3>2. QED
      BY <3>1 DEF Gained
  <2>7. Landing(FunctionObject(d), Len(c.byte_code)) = {}
    BY <2>1, <2>6 DEF Landing
  <2>8. QED
    BY <1>1, <2>6, <2>7 DEF Grows, d
<1>4. QED
  BY <1>2, <1>3 DEF Emittable

LEMMA PlainGrows ==
  ASSUME NEW fs \in Seq(FunctionType), NEW c \in CompilerType, NEW op \in PlainOps,
         Decodable(fs, FunctionObject(c))
  PROVE  SamePool(c, Emit(c, Op(op))) /\ Grows(fs, c, Emit(c, Op(op)), {}, {})
<1>1. Op(op) \in Seq(0..255)
  BY OpBytes DEF PlainOps
<1>2. Behind(c, Emit(c, Op(op)), Op(op)) /\ Emit(c, Op(op)) \in CompilerType
  BY <1>1, EmitCode DEF Behind, SamePool
<1>3. QED
  BY <1>2, BehindPlain DEF Grows, Behind

LEMMA JumpGrows ==
  ASSUME NEW fs \in Seq(FunctionType), NEW c \in CompilerType, NEW op \in Jump,
         Decodable(fs, FunctionObject(c))
  PROVE  LET d == EmitJump(c, op) IN
         /\ SamePool(c, d) /\ Grows(fs, c, d, {JumpOffset(d)}, {})
         /\ JumpOffset(d) \in Jumps(fs, FunctionObject(d))
         /\ JumpOffset(d) = Len(c.byte_code) + 1
<1> DEFINE d == EmitJump(c, op)
           n == Len(c.byte_code)
<1>1. op \in OpCodeName /\ op \in IndexOps \ {"OP_CLOSURE"} /\ ConstantType(op) = {}
      /\ op \notin {"OP_GET_UPVALUE", "OP_SET_UPVALUE"}
  BY OpCodeNames, OperandOps DEF Jump
<1>2. /\ MAX_INDEX_SIZE \in Nat
      /\ EmitJump(c, op) = Emit(c, OpIndex(op, MAX_INDEX_SIZE))
  BY DEF EmitJump, MAX_INDEX_SIZE
<1> DEFINE bytes == OpIndex(op, MAX_INDEX_SIZE)
<1>3. bytes \in Seq(0..255) /\ Len(bytes) = 3
  BY <1>1, <1>2, OpBytes
<1> HIDE DEF bytes
<1>a. d = Emit(c, bytes)
  BY <1>2 DEF bytes
<1> HIDE DEF d
<1>4. Behind(c, d, bytes) /\ d \in CompilerType
  BY <1>3, <1>a, EmitCode DEF Behind, SamePool
<1>5. Gained(fs, c, d, op, MAX_INDEX_SIZE)
  BY <1>1, <1>2, <1>4, BehindIndex DEF bytes
<1>6. JumpOffset(d) = n + 1
  <2>1. Len(d.byte_code) = n + 3
    <3>1. Len(d.byte_code) = n + Len(bytes)
      BY <1>3, <1>4, BehindAt
    <3>2. QED
      BY <1>3, <3>1
  <2>2. QED
    BY <2>1, Seen DEF JumpOffset
<1>7. QED
  BY <1>4, <1>5, <1>6 DEF Grows, d, Behind, Gained

LEMMA JumpsInCode ==
  ASSUME NEW fs \in Seq(FunctionType), NEW f \in FunctionType, Decodable(fs, f),
         NEW offset \in Jumps(fs, f)
  PROVE  offset \in Nat /\ offset + 1 \in 1..Len(f.byte_code) /\ offset + 2 \in 1..Len(f.byte_code)
<1> DEFINE S == Starts(fs, f)
           n == Len(f.byte_code)
<1>1. Decoded(fs, f, S) /\ n \in Nat
  BY StartsDecode, FieldTypes
<1>2. PICK ip \in S \ {n} : OpOf(f, ip) \in Jump /\ offset = ip + 1
  BY DEF Jumps, Instructions
<1>3. S \subseteq 0..n /\ Valid(fs, f, ip) /\ ip + Length(fs, f, ip) \in S
  BY <1>1, <1>2 DEF Decoded
<1>4. Length(fs, f, ip) = 3
  <2>1. OpOf(f, ip) \in IndexOps \ {"OP_CLOSURE"}
    BY <1>2 DEF Jump, IndexOps
  <2>2. QED
    BY <1>3, <2>1, LengthOf
<1> HIDE DEF S, n
<1>5. ip \in 0..n /\ ip + 3 \in 0..n
  BY <1>2, <1>3, <1>4
<1>6. QED
  BY <1>1, <1>2, <1>5 DEF n

LEMMA PatchGrows ==
  ASSUME NEW fs \in Seq(FunctionType), NEW c \in CompilerType,
         Decodable(fs, FunctionObject(c)), NEW offset \in Jumps(fs, FunctionObject(c))
  PROVE  /\ Grows(fs, c, PatchJump(c, offset), {}, {offset})
         /\ Len(PatchJump(c, offset).byte_code) = Len(c.byte_code)
         /\ Starts(fs, FunctionObject(PatchJump(c, offset))) = Starts(fs, FunctionObject(c))
<1> DEFINE f == FunctionObject(c)
           d == PatchJump(c, offset)
           g == FunctionObject(d)
           operand == IndexBytes(Len(c.byte_code) - offset - 2)
           half == [c.byte_code EXCEPT ![offset + 1] = operand[1]]
           code == [half EXCEPT ![offset + 2] = operand[2]]
<1>1. /\ f \in FunctionType /\ f.byte_code = c.byte_code /\ c.byte_code \in Seq(0..255)
      /\ Len(c.byte_code) \in Nat
  BY Seen
<1>2. /\ offset \in Nat /\ offset + 1 \in 1..Len(c.byte_code) /\ offset + 2 \in 1..Len(c.byte_code)
  BY <1>1, JumpsInCode
<1>3. d = [c EXCEPT !.byte_code = code]
  BY DEF PatchJump, CompilerType
<1>4. d \in CompilerType
  BY <1>2, PatchJumpKeeps DEF Keeps
<1>5. /\ d.byte_code = code /\ d.constant_pool = c.constant_pool /\ d.upvalues = c.upvalues
  <2> HIDE DEF code, d
  <2>1. \A new : LET e == [c EXCEPT !.byte_code = new] IN
          e.byte_code = new /\ e.constant_pool = c.constant_pool /\ e.upvalues = c.upvalues
    BY DEF CompilerType
  <2>2. QED
    BY <1>3, <2>1
<1>6. SamePool(c, d)
  BY <1>4, <1>5 DEF SamePool
<1> HIDE DEF operand, d
<1>7. /\ Len(code) = Len(c.byte_code)
      /\ \A i \in 1..Len(c.byte_code) :
           i # offset + 1 /\ i # offset + 2 => code[i] = c.byte_code[i]
      /\ code[offset + 1] = operand[1] /\ code[offset + 2] = operand[2]
  <2>1. offset + 1 # offset + 2
    BY <1>2
  <2>2. QED
    BY <1>1, <1>2, <2>1
<1> HIDE DEF code
<1>8. g \in FunctionType /\ g.byte_code = code /\ Richer(f, g)
  BY <1>4, <1>5, <1>6, Seen, SamePoolRicher
<1>9. Decodable(fs, f) /\ offset \in Jumps(fs, f)
  OBVIOUS
<1> HIDE DEF f, g
<1>10. /\ Len(g.byte_code) = Len(f.byte_code)
       /\ \A i \in 1..Len(f.byte_code) :
            i # offset + 1 /\ i # offset + 2 => g.byte_code[i] = f.byte_code[i]
  BY <1>1, <1>7, <1>8
<1>11. LET bytes == IndexBytes(Len(f.byte_code) - offset - 2)
       IN  g.byte_code[offset + 1] = bytes[1] /\ g.byte_code[offset + 2] = bytes[2]
  BY <1>1, <1>7, <1>8 DEF operand
<1>12. Follows(fs, f, g, {}, {offset}) /\ Starts(fs, g) = Starts(fs, f)
  BY <1>1, <1>8, <1>9, <1>10, <1>11, PatchFollows
<1>13. QED
  BY <1>4, <1>5, <1>7, <1>12 DEF Grows, f, g, d

LEMMA LoopGrows ==
  ASSUME NEW fs \in Seq(FunctionType), NEW c \in CompilerType,
         Decodable(fs, FunctionObject(c)), NEW loop_start \in Starts(fs, FunctionObject(c))
  PROVE  Grows(fs, c, EmitLoop(c, loop_start), {}, {})
<1> DEFINE f == FunctionObject(c)
           n == Len(c.byte_code)
           looped == Emit(c, Op("OP_LOOP"))
           index == Len(looped.byte_code) - loop_start + 2
           d == Emit(looped, IndexBytes(index))
           g == FunctionObject(d)
<1>1. /\ f \in FunctionType /\ f.byte_code = c.byte_code /\ n \in Nat
  BY Seen
<1>2. loop_start \in 0..n
  <2>1. Decoded(fs, f, Starts(fs, f))
    BY StartsDecode
  <2>2. QED
    BY <1>1, <2>1 DEF Decoded
<1>3. /\ "OP_LOOP" \in OpCodeName /\ "OP_LOOP" \in IndexOps \ {"OP_CLOSURE"}
      /\ ConstantType("OP_LOOP") = {}
  BY OpCodeNames, OperandOps
<1>4. Op("OP_LOOP") \in Seq(0..255) /\ Len(Op("OP_LOOP")) = 1
  BY <1>3, OpBytes, 0 \in Nat
<1>5. Behind(c, looped, Op("OP_LOOP")) /\ looped \in CompilerType
  BY <1>4, EmitCode DEF Behind, SamePool
<1> HIDE DEF looped
<1>6. Len(looped.byte_code) = n + 1
  <2>1. Len(looped.byte_code) = n + Len(Op("OP_LOOP"))
    BY <1>4, <1>5, BehindAt
  <2>2. QED
    BY <1>4, <2>1
<1>7. index \in Nat /\ index = n + 3 - loop_start
  BY <1>1, <1>2, <1>6
<1> HIDE DEF index
<1>8. IndexBytes(index) \in Seq(0..255) /\ OpIndex("OP_LOOP", index) = Op("OP_LOOP") \o IndexBytes(index)
  BY <1>3, <1>7, OpBytes
<1>9. Behind(looped, d, IndexBytes(index)) /\ d \in CompilerType
  BY <1>5, <1>8, EmitCode DEF Behind, SamePool
<1>10. d = EmitLoop(c, loop_start)
  BY DEF EmitLoop, looped, index
<1> HIDE DEF d
<1>11. Behind(c, d, OpIndex("OP_LOOP", index))
  BY <1>4, <1>5, <1>8, <1>9, BehindTwice
<1>12. Gained(fs, c, d, "OP_LOOP", index)
  BY <1>3, <1>7, <1>11, BehindIndex
<1>13. Starts(fs, f) \subseteq Starts(fs, g) /\ OpOf(g, n) = "OP_LOOP"
  BY <1>12 DEF Gained, Follows
<1>14. Len(g.byte_code) = n + 3
  <2>1. Len(d.byte_code) = Len(looped.byte_code) + Len(IndexBytes(index))
    BY <1>5, <1>8, <1>9, BehindAt
  <2>2. Len(IndexBytes(index)) = 2
    BY <1>7, IndexBytesType
  <2>3. g.byte_code = d.byte_code
    BY <1>9, Seen
  <2>4. QED
    BY <1>1, <1>6, <2>1, <2>2, <2>3
<1>15. CodeFits(g) => Landing(g, n) \subseteq Starts(fs, g)
  <2>1. CodeFits(g) => index <= MAX_INDEX_SIZE
    BY <1>1, <1>2, <1>7, <1>14 DEF CodeFits, MAX_INDEX_SIZE
  <2>2. CodeFits(g) => OperandAt(g, n) = index
    BY <1>12, <2>1 DEF Gained
  <2>3. n + 3 - index = loop_start
    BY <1>1, <1>2, <1>7
  <2>4. "OP_LOOP" \notin Jump
    BY DEF Jump
  <2>5. CodeFits(g) => Landing(g, n) = {loop_start}
    BY <1>13, <2>2, <2>3, <2>4 DEF Landing
  <2>6. QED
    BY <1>13, <2>5
<1>16. Follows(fs, f, g, {}, {})
  BY <1>12, <1>15 DEF Gained
<1>17. QED
  BY <1>9, <1>10, <1>16 DEF Grows

\* What the helpers leave alone.
LEMMA SamePoolHere ==
  ASSUME NEW c \in CompilerType, NEW d, SamePool(c, d)
  PROVE  /\ \A bytes \in Seq(0..255) : SamePool(c, Emit(d, bytes))
         /\ \A op \in OpCodeName : SamePool(c, Emit(d, Op(op)))
         /\ \A op \in Jump : SamePool(c, EmitJump(d, op))
         /\ \A offset \in Int : SamePool(c, PatchJump(d, offset)) /\ SamePool(c, EmitLoop(d, offset))
<1>1. d \in CompilerType
  BY DEF SamePool
<1>2. \A e : SamePool(d, e) => SamePool(c, e)
  BY DEF SamePool
<1>3. \A bytes \in Seq(0..255) : SamePool(d, Emit(d, bytes))
  BY <1>1, EmitCode
<1>4. \A op \in OpCodeName : Op(op) \in Seq(0..255)
  BY OpType
<1>5. \A op \in Jump : SamePool(d, EmitJump(d, op))
  <2>1. MAX_INDEX_SIZE \in Int /\ \A op : EmitJump(d, op) = Emit(d, OpIndex(op, MAX_INDEX_SIZE))
    BY DEF EmitJump, MAX_INDEX_SIZE
  <2>2. \A op \in Jump : op \in OpCodeName
    BY OpCodeNames DEF Jump
  <2>3. \A op \in Jump : OpIndex(op, MAX_INDEX_SIZE) \in Seq(0..255)
    BY <2>1, <2>2, OpType
  <2>4. QED
    BY <1>3, <2>1, <2>3
<1>6. ASSUME NEW offset \in Int
      PROVE  SamePool(d, PatchJump(d, offset)) /\ SamePool(d, EmitLoop(d, offset))
  <2>1. PatchJump(d, offset) \in CompilerType /\ EmitLoop(d, offset) \in CompilerType
    BY <1>1, PatchJumpKeeps, EmitLoopKeeps DEF Keeps
  <2>2. \A code : LET e == [d EXCEPT !.byte_code = code] IN
          e.constant_pool = d.constant_pool /\ e.upvalues = d.upvalues
    BY <1>1 DEF CompilerType
  <2>3. \E code : PatchJump(d, offset) = [d EXCEPT !.byte_code = code]
    BY <1>1 DEF PatchJump, CompilerType
  <2>4. \E code : EmitLoop(d, offset) = [d EXCEPT !.byte_code = code]
    BY <1>1 DEF EmitLoop, Emit, CompilerType
  <2>5. QED
    BY <2>1, <2>2, <2>3, <2>4 DEF SamePool
<1>7. QED
  BY <1>2, <1>3, <1>4, <1>5, <1>6

-------------------------------------------------------------------------------
(***************************************************************************)
(* Helpers that declare and leave variables, and that add constants.       *)
(***************************************************************************)
SameCode(c, d) ==
  /\ d.byte_code = c.byte_code /\ d.constant_pool = c.constant_pool
  /\ d.upvalues = c.upvalues

LEMMA SameCodeHere ==
  ASSUME NEW c \in CompilerType, NEW d, SameCode(c, d)
  PROVE  /\ \A depth, locals : SameCode(c, Relocated(c, depth, locals))
         /\ SameCode(c, BeginScope(c)) /\ SameCode(c, PopScope(c)) /\ SameCode(c, MarkInitialized(c))
         /\ \A name : SameCode(c, DeclareVariable(c, name))
         /\ \A heights : SameCode(c, [c EXCEPT !.heights = heights])
         /\ \A within : SameCode(c, [c EXCEPT !.within_class = within])
         /\ \A e : SameCode(d, e) => SameCode(c, e)
         /\ d \in CompilerType => SamePool(c, d)
<1>1. /\ \A depth, locals : SameCode(c, Relocated(c, depth, locals))
      /\ \A heights : SameCode(c, [c EXCEPT !.heights = heights])
      /\ \A within : SameCode(c, [c EXCEPT !.within_class = within])
      /\ \A locals : SameCode(c, [c EXCEPT !.locals = locals])
      /\ \A depth : SameCode(c, [c EXCEPT !.current_scope_depth = depth])
      /\ SameCode(c, c)
  BY DEF CompilerType, SameCode, Relocated
<1>2. SameCode(c, BeginScope(c))
  BY <1>1 DEF BeginScope
<1>3. SameCode(c, PopScope(c))
  BY DEF PopScope, CompilerType, SameCode
<1>4. SameCode(c, MarkInitialized(c))
  BY DEF MarkInitialized, CompilerType, SameCode
<1>5. \A name : SameCode(c, DeclareVariable(c, name))
  BY <1>1 DEF DeclareVariable
<1>6. \A e : SameCode(d, e) => SameCode(c, e)
  BY DEF SameCode
<1>7. d \in CompilerType => SamePool(c, d)
  BY DEF SameCode, SamePool
<1>8. QED
  BY <1>1, <1>2, <1>3, <1>4, <1>5, <1>6, <1>7

LEMMA PopCode ==
  ASSUME NEW leaving \in Seq(LocalType)
  PROVE  LET code == FlattenSeq([i \in DOMAIN leaving |-> LeaveScope(leaving[i])])
         IN  \A i \in 1..Len(code) : code[i] \in PopByte
<1> DEFINE pieces == [i \in DOMAIN leaving |-> LeaveScope(leaving[i])]
<1>1. \A local \in LocalType : LeaveScope(local) \in Seq(PopByte)
  BY DEF LeaveScope, Op, PopByte
<1>2. DOMAIN leaving = 1..Len(leaving) /\ \A i \in 1..Len(leaving) : leaving[i] \in LocalType
  OBVIOUS
<1>3. pieces \in Seq(Seq(PopByte))
  BY <1>1, <1>2
<1> HIDE DEF pieces
<1>4. FlattenSeq(pieces) \in Seq(PopByte)
  BY <1>3, FlattenSeqType
<1>5. \A s \in Seq(PopByte) : \A i \in 1..Len(s) : s[i] \in PopByte
  BY ElementAt, Zenon
<1>6. QED
  BY <1>4, <1>5 DEF pieces

LEMMA EndScopeGrows ==
  ASSUME NEW fs \in Seq(FunctionType), NEW c \in CompilerType, Scoped(c), Settled(c),
         c.current_scope_depth > 0
  PROVE  /\ SamePool(c, EndScope(c))
         /\ Decodable(fs, FunctionObject(c)) => Grows(fs, c, EndScope(c), {}, {})
<1> DEFINE kept    == LocalsKept(c)
           leaving == Reverse(SubSeq(c.locals, kept + 1, Len(c.locals)))
           code    == FlattenSeq([i \in DOMAIN leaving |-> LeaveScope(leaving[i])])
           d       == EndScope(c)
<1>1. c.locals \in Seq(LocalType) /\ Len(c.locals) \in Nat
  BY LocalsOf
<1>2. kept \in 0..Len(c.locals)
  <2> DEFINE T == {0} \cup {i \in DOMAIN c.locals : c.locals[i].local_scope_depth < c.current_scope_depth}
  <2>1. T \subseteq 0..Len(c.locals) /\ T # {}
    BY <1>1
  <2>2. kept = Max(T)
    BY DEF LocalsKept
  <2> HIDE DEF T, kept
  <2>3. QED
    BY <1>1, <2>1, <2>2, MaxIsGreatest
<1> HIDE DEF kept
<1>3. leaving \in Seq(LocalType)
  <2>1. SubSeq(c.locals, kept + 1, Len(c.locals)) \in Seq(LocalType)
    BY <1>1, <1>2
  <2>2. \A s \in Seq(LocalType) : Reverse(s) \in Seq(LocalType)
    <3> SUFFICES ASSUME NEW s \in Seq(LocalType)
                 PROVE  Reverse(s) \in Seq(LocalType)
      OBVIOUS
    <3>1. \A i \in 1..Len(s) : (Len(s) - i) + 1 \in 1..Len(s)
      OBVIOUS
    <3>2. \A i \in 1..Len(s) : s[(Len(s) - i) + 1] \in LocalType
      BY <3>1
    <3>3. QED
      BY <3>2 DEF Reverse
  <2>3. QED
    BY <2>1, <2>2
<1> HIDE DEF leaving
<1>4. code \in Seq(0..255) /\ \A i \in 1..Len(code) : code[i] \in PopByte
  BY <1>3, PopCode, EndScopeCode
<1> HIDE DEF code
<1>5. d \in CompilerType
  BY EndScopeScoped DEF Continues
<1>6. d = Emit(PopScope(c), code)
  BY DEF EndScope, code, leaving, kept
<1>7. d.byte_code = c.byte_code \o code /\ d.constant_pool = c.constant_pool /\ d.upvalues = c.upvalues
  <2>1. \E depth, locals : PopScope(c) = Relocated(c, depth, locals)
    BY DEF PopScope, Relocated, CompilerType
  <2>2. \A depth, locals : LET e == Emit(Relocated(c, depth, locals), code) IN
          e.byte_code = c.byte_code \o code /\ e.constant_pool = c.constant_pool
          /\ e.upvalues = c.upvalues
    BY DEF Emit, Relocated, CompilerType
  <2>3. QED
    BY <1>6, <2>1, <2>2
<1> HIDE DEF d
<1>8. SamePool(c, d)
  BY <1>5, <1>7 DEF SamePool
<1>9. ASSUME Decodable(fs, FunctionObject(c))
      PROVE  Follows(fs, FunctionObject(c), FunctionObject(d), {}, {})
  <2>1. /\ FunctionObject(c) \in FunctionType /\ FunctionObject(d) \in FunctionType
        /\ FunctionObject(d).byte_code = FunctionObject(c).byte_code \o code
        /\ Richer(FunctionObject(c), FunctionObject(d))
    BY <1>5, <1>7, <1>8, Seen, SamePoolRicher
  <2>2. QED
    BY <1>4, <1>9, <2>1, PopsFollow
<1>10. QED
  BY <1>5, <1>8, <1>9 DEF d, Grows

NameOps == {"OP_DEFINE_GLOBAL", "OP_GET_GLOBAL", "OP_SET_GLOBAL", "OP_CLASS",
            "OP_GET_PROPERTY", "OP_SET_PROPERTY", "OP_METHOD"}

LEMMA EmittableOps ==
  ASSUME NEW f \in FunctionType
  PROVE  /\ \A op \in PlainOps : Emittable(f, Op(op))
         /\ \A op \in {"OP_GET_LOCAL", "OP_SET_LOCAL", "OP_CALL"}, index \in Nat :
              Emittable(f, OpIndex(op, index))
         /\ \A op \in NameOps : \A index : NamesConstant(f, index) => Emittable(f, OpIndex(op, index))
         /\ \A index \in Nat : index < f.upvalue_count =>
              /\ Emittable(f, OpIndex("OP_GET_UPVALUE", index))
              /\ Emittable(f, OpIndex("OP_SET_UPVALUE", index))
<1>1. \A op \in {"OP_GET_LOCAL", "OP_SET_LOCAL", "OP_CALL"} :
        /\ op \in IndexOps \ (Jump \cup {"OP_LOOP", "OP_CLOSURE"}) /\ ConstantType(op) = {}
        /\ op \notin {"OP_GET_UPVALUE", "OP_SET_UPVALUE"}
  BY DEF IndexOps, Jump, ConstantType
<1>2. \A op \in NameOps :
        /\ op \in IndexOps \ (Jump \cup {"OP_LOOP", "OP_CLOSURE"}) /\ "name" \in ConstantType(op)
        /\ op \notin {"OP_GET_UPVALUE", "OP_SET_UPVALUE"}
  BY DEF IndexOps, Jump, ConstantType, NameOps
<1>3. \A op \in {"OP_GET_UPVALUE", "OP_SET_UPVALUE"} :
        /\ op \in IndexOps \ (Jump \cup {"OP_LOOP", "OP_CLOSURE"}) /\ ConstantType(op) = {}
  BY DEF IndexOps, Jump, ConstantType
<1>4. Len(f.constant_pool) \in Nat
  BY FieldTypes
<1>5. \A index : NamesConstant(f, index) =>
        /\ index \in Nat /\ index < Len(f.constant_pool) /\ f.constant_pool[index + 1].type = "name"
  BY <1>4 DEF NamesConstant
<1>6. QED
  BY <1>1, <1>2, <1>3, <1>5 DEF Emittable

LEMMA RicherAllows ==
  ASSUME NEW f \in FunctionType, NEW g \in FunctionType, Richer(f, g)
  PROVE  /\ \A index : NamesConstant(f, index) => NamesConstant(g, index)
         /\ \A bytes : Emittable(f, bytes) => Emittable(g, bytes)
<1>1. /\ Len(f.constant_pool) \in Nat /\ Len(g.constant_pool) \in Nat
      /\ f.upvalue_count \in Nat /\ g.upvalue_count \in Nat
  BY FieldTypes
<1>2. \A index \in Nat : index < Len(f.constant_pool) =>
        index < Len(g.constant_pool) /\ g.constant_pool[index + 1] = f.constant_pool[index + 1]
  BY <1>1 DEF Richer
<1>3. \A index \in Nat : index < f.upvalue_count => index < g.upvalue_count
  BY <1>1 DEF Richer
<1>4. ASSUME NEW index, NamesConstant(f, index)
      PROVE  NamesConstant(g, index)
  <2>1. index \in 0..(Len(f.constant_pool) - 1) /\ f.constant_pool[index + 1].type = "name"
    BY <1>4 DEF NamesConstant
  <2>2. index \in Nat /\ index < Len(f.constant_pool)
    BY <1>1, <2>1
  <2>3. index < Len(g.constant_pool) /\ g.constant_pool[index + 1] = f.constant_pool[index + 1]
    BY <1>2, <2>2
  <2>4. index \in 0..(Len(g.constant_pool) - 1)
    BY <1>1, <2>2, <2>3
  <2>5. QED
    BY <2>1, <2>3, <2>4 DEF NamesConstant
<1>5. QED
  BY <1>2, <1>3, <1>4 DEF Emittable

LEMMA PooledName ==
  ASSUME NEW c \in CompilerType, NEW name \in Names \cup Members
  PROVE  LET d == Pool(c, Name(name)) IN
         /\ d \in CompilerType /\ d.byte_code = c.byte_code
         /\ Richer(FunctionObject(c), FunctionObject(d))
         /\ NamesConstant(FunctionObject(d), LastConstant(d)) /\ LastConstant(d) \in Nat
<1> DEFINE d == Pool(c, Name(name))
<1>1. Name(name) \in ConstantValue /\ Name(name).type = "name"
  BY ConstantTypes DEF Name
<1>2. /\ d \in CompilerType /\ d.byte_code = c.byte_code
      /\ Richer(FunctionObject(c), FunctionObject(d))
      /\ LastConstant(d) \in Nat /\ LastConstant(d) < Len(d.constant_pool)
      /\ d.constant_pool[LastConstant(d) + 1] = Name(name)
  BY <1>1, PoolCode
<1> HIDE DEF d
<1>3. FunctionObject(d).constant_pool = d.constant_pool /\ Len(d.constant_pool) \in Nat
  BY <1>2, Seen
<1>4. NamesConstant(FunctionObject(d), LastConstant(d))
  BY <1>1, <1>2, <1>3 DEF NamesConstant
<1>5. QED
  BY <1>2, <1>4 DEF d

-------------------------------------------------------------------------------
(***************************************************************************)
(* Resolving a name emits nothing; what it returns can be emitted.         *)
(***************************************************************************)
\* c with more upvalues and constants: the same code.
Enriched(c, d) ==
  /\ d \in CompilerType /\ d.byte_code = c.byte_code
  /\ Richer(FunctionObject(c), FunctionObject(d))

LEMMA EnrichedSame ==
  ASSUME NEW c \in CompilerType, NEW d \in CompilerType, SameCode(c, d)
  PROVE  Enriched(c, d)
BY SameCodeHere, SamePoolRicher DEF Enriched, SameCode

LEMMA ResolvedCode ==
  ASSUME CompilerInv, NEW name, Owner(name) \in 1..(Len(compilers) - 1)
  PROVE  LET owner == Owner(name)
             chain == ResolveUpvalue(name)
         IN  \A k \in owner..Len(compilers) :
               /\ Enriched(compilers[k], chain[k].compiler)
               /\ k # owner => chain[k].index < Len(chain[k].compiler.upvalues)
<1> DEFINE owner == Owner(name)
           slot  == ResolveVariable(compilers[owner], name)
           chain == ResolveUpvalue(name)
           last  == Len(compilers)
<1>1. /\ compilers \in Seq(CompilerType) /\ compilers # <<>> /\ last \in Nat \ {0}
      /\ \A k \in 1..last : Scoped(compilers[k]) /\ compilers[k] \in CompilerType
      /\ EnclosingSettled /\ UpvaluesResolve
  <2>1. Sound(compilers) /\ EnclosingSettled /\ UpvaluesResolve /\ last \in Nat \ {0}
    BY InvariantHere DEF CompilerInv
  <2>2. QED
    BY <2>1 DEF Sound
<1>2. /\ chain[owner] = [compiler |-> Capturing(compilers[owner], slot), index |-> slot]
      /\ \A k \in (owner + 1)..last : chain[k] = Link(owner, k, chain[k - 1].index)
  <2>1. owner \in 1..last
    BY <1>1
  <2>2. QED
    BY <1>1, <2>1, ChainLinks
<1>3. \A k \in owner..last : chain[k].index \in Nat /\ Extends(compilers[k], chain[k].compiler)
  BY <1>1, ChainExtends
<1>4. owner \in 1..last /\ owner \in Nat
  BY <1>1
<1> HIDE DEF chain, slot
<1>5. ASSUME NEW k \in owner..last, k # owner
      PROVE  /\ Enriched(compilers[k], chain[k].compiler)
             /\ chain[k].index < Len(chain[k].compiler.upvalues)
  <2>1. k \in (owner + 1)..last /\ k - 1 \in owner..last /\ k \in 1..last
    BY <1>1, <1>4, <1>5
  <2> DEFINE upvalue == UpvalueTo(owner, k, chain[k - 1].index)
             c == compilers[k]
             d == AddUpvalue(c, upvalue)
  <2>2. chain[k].compiler = d /\ chain[k].index = UpvalueIndex(d, upvalue)
    <3>1. chain[k] = Link(owner, k, chain[k - 1].index)
      BY <1>2, <2>1
    <3>2. chain[k] = [compiler |-> d, index |-> UpvalueIndex(d, upvalue)]
      BY <3>1, Zenon DEF Link
    <3> HIDE DEF d, upvalue
    <3>3. QED
      BY <3>2
  <2>3. upvalue \in UpvalueType
    BY <1>3, <2>1 DEF UpvalueTo, UpvalueType
  <2>4. c \in CompilerType
    BY <1>1, <2>1
  <2> HIDE DEF upvalue, c
  <2>5. Extends(c, d) /\ UpvalueIndex(d, upvalue) \in 0..(Len(d.upvalues) - 1)
    BY <2>3, <2>4, AddUpvalueExtends
  <2>6. d.byte_code = c.byte_code /\ d.constant_pool = c.constant_pool
    BY <2>4 DEF AddUpvalue, CompilerType
  <2>7. d \in CompilerType /\ Len(c.upvalues) <= Len(d.upvalues)
    BY <2>5 DEF Extends
  <2> HIDE DEF d
  <2>8. Richer(FunctionObject(c), FunctionObject(d))
    BY <2>4, <2>6, <2>7, Seen DEF Richer
  <2>9. UpvalueIndex(d, upvalue) < Len(d.upvalues)
    BY <2>5, <2>7, Seen
  <2>10. QED
    BY <2>2, <2>6, <2>7, <2>8, <2>9 DEF Enriched, c
<1>6. Enriched(compilers[owner], chain[owner].compiler)
  <2> DEFINE c == compilers[owner]
             d == chain[owner].compiler
  <2>1. c \in CompilerType /\ d = Capturing(c, slot)
    BY <1>1, <1>2, <1>4
  <2>2. d \in CompilerType
    <3>1. owner \in owner..last
      BY <1>4
    <3>2. QED
      BY <1>3, <3>1 DEF Extends
  <2>3. SameCode(c, Capturing(c, slot))
    <3> HIDE DEF c
    <3>1. QED
      BY <2>1 DEF Capturing, SameCode, CompilerType
  <2> HIDE DEF c, d
  <2>4. Enriched(c, d)
    BY <2>1, <2>2, <2>3, EnrichedSame
  <2>5. QED
    BY <2>4 DEF c, d
<1>7. QED
  BY <1>5, <1>6 DEF chain

LEMMA NamedCode ==
  ASSUME CompilerInv, NEW name, name \in Names \/ Owner(name) # 0
  PROVE  LET named == NamedVariable(name)
             f     == FunctionObject(named.compilers[Len(compilers)])
         IN  /\ \A k \in 1..Len(compilers) : Enriched(compilers[k], named.compilers[k])
             /\ Len(named.compilers) = Len(compilers)
             /\ Emittable(f, named.get) /\ Emittable(f, named.set)
<1> DEFINE owner == Owner(name)
           last  == Len(compilers)
           named == NamedVariable(name)
           c     == named.compilers[last]
           f     == FunctionObject(c)
<1>1. /\ compilers \in Seq(CompilerType) /\ compilers # <<>> /\ last \in Nat \ {0} /\ last \in 1..last
      /\ \A k \in 1..last : Scoped(compilers[k]) /\ compilers[k] \in CompilerType
      /\ Cur = compilers[last]
  <2>1. Sound(compilers) /\ last \in Nat \ {0} /\ Cur = compilers[last]
    BY InvariantHere
  <2>2. QED
    BY <2>1 DEF Sound
<1>2. owner \in 0..last /\ (owner # 0 => Declares(compilers[owner], name))
  BY <1>1, OwnerDeclares
<1>3. ASSUME NEW d \in CompilerType
      PROVE  Enriched(d, d)
  BY EnrichedSame DEF SameCode
<1>4. CASE owner = last
  <2>1. Declares(Cur, name) /\ Scoped(Cur) /\ Cur \in CompilerType
    BY <1>1, <1>2, <1>4
  <2>2. ResolveVariable(Cur, name) \in Nat
    BY <2>1, ResolveVariableType
  <2>3. /\ named.compilers = compilers
        /\ named.get = OpIndex("OP_GET_LOCAL", ResolveVariable(Cur, name))
        /\ named.set = OpIndex("OP_SET_LOCAL", ResolveVariable(Cur, name))
    BY <1>4 DEF NamedVariable
  <2> HIDE DEF named
  <2>4. f \in FunctionType
    BY <1>1, <2>3, Seen
  <2> HIDE DEF f
  <2>5. Emittable(f, named.get) /\ Emittable(f, named.set)
    BY <2>2, <2>3, <2>4, EmittableOps
  <2>6. \A k \in 1..last : Enriched(compilers[k], named.compilers[k])
    BY <1>1, <1>3, <2>3
  <2>7. QED
    BY <2>3, <2>5, <2>6 DEF f, named
<1>5. CASE owner # last /\ owner # 0
  <2> DEFINE chain == ResolveUpvalue(name)
             index == chain[last].index
             ds    == [k \in DOMAIN compilers |-> IF k < owner THEN compilers[k] ELSE chain[k].compiler]
  <2>1. owner \in 1..(last - 1) /\ owner \in Nat
    <3> HIDE DEF owner, last
    <3>1. QED
      BY <1>1, <1>2, <1>5
  <2>2. \A k \in owner..last : /\ Enriched(compilers[k], chain[k].compiler)
                               /\ k # owner => chain[k].index < Len(chain[k].compiler.upvalues)
    BY <2>1, ResolvedCode
  <2>a. owner \in 1..(last - 1) => \A k \in owner..last : chain[k].index \in Nat
    <3>1. EnclosingSettled /\ UpvaluesResolve
      BY DEF CompilerInv
    <3>2. QED
      BY <1>1, <3>1, ChainExtends
  <2>3. /\ named.compilers = ds
        /\ named.get = OpIndex("OP_GET_UPVALUE", index)
        /\ named.set = OpIndex("OP_SET_UPVALUE", index)
    BY <1>5, <2>1 DEF NamedVariable
  <2>4. DOMAIN compilers = 1..last
    BY <1>1
  <2>5. Len(ds) = last /\ \A k \in 1..last : ds[k] = IF k < owner THEN compilers[k] ELSE chain[k].compiler
    BY <1>1, <2>4
  <2> HIDE DEF chain, ds, named, owner, last
  <2>6. \A k \in 1..last : Enriched(compilers[k], ds[k])
    <3> SUFFICES ASSUME NEW k \in 1..last
                 PROVE  Enriched(compilers[k], ds[k])
      OBVIOUS
    <3>1. CASE k < owner
      BY <1>1, <1>3, <2>5, <3>1
    <3>2. CASE ~(k < owner)
      <4>1. k \in owner..last
        BY <1>1, <2>1, <3>2
      <4>2. QED
        BY <2>2, <2>5, <3>2, <4>1
    <3>3. QED
      BY <3>1, <3>2
  <2>7. /\ index \in Nat /\ index < Len(chain[last].compiler.upvalues)
        /\ c = chain[last].compiler /\ c \in CompilerType
    <3>1. last \in owner..last /\ last # owner /\ ~(last < owner)
      BY <1>1, <2>1
    <3>2. QED
      BY <1>1, <2>1, <2>2, <2>3, <2>5, <2>6, <2>a, <3>1 DEF Enriched
  <2> HIDE DEF c, index
  <2>8. f \in FunctionType /\ f.upvalue_count = Len(c.upvalues)
    BY <2>7, Seen
  <2> HIDE DEF f
  <2>9. Emittable(f, named.get) /\ Emittable(f, named.set)
    BY <2>3, <2>7, <2>8, EmittableOps
  <2>10. QED
    BY <2>3, <2>5, <2>6, <2>9 DEF f, c, named, last
<1>6. CASE owner = 0
  <2> DEFINE pooled == Pool(Cur, Name(name))
             index  == LastConstant(pooled)
  <2>1. /\ named.compilers = [compilers EXCEPT ![last] = pooled]
        /\ named.get = OpIndex("OP_GET_GLOBAL", index)
        /\ named.set = OpIndex("OP_SET_GLOBAL", index)
    BY <1>1, <1>6 DEF NamedVariable
  <2>2. Cur \in CompilerType /\ name \in Names \cup Members
    BY <1>1, <1>6
  <2>3. /\ pooled \in CompilerType /\ pooled.byte_code = Cur.byte_code
        /\ Richer(FunctionObject(Cur), FunctionObject(pooled))
        /\ NamesConstant(FunctionObject(pooled), index)
    BY <2>2, PooledName
  <2> HIDE DEF pooled, index, named, owner, last
  <2>4. /\ Len(named.compilers) = last /\ named.compilers[last] = pooled
        /\ \A k \in 1..last : k # last => named.compilers[k] = compilers[k]
    BY <1>1, <2>1 DEF last
  <2>5. \A k \in 1..last : Enriched(compilers[k], named.compilers[k])
    BY <1>1, <1>3, <2>3, <2>4 DEF Enriched
  <2>6. f = FunctionObject(pooled) /\ f \in FunctionType
    BY <2>3, <2>4, Seen
  <2> HIDE DEF f
  <2>7. "OP_GET_GLOBAL" \in NameOps /\ "OP_SET_GLOBAL" \in NameOps
    BY DEF NameOps
  <2>8. Emittable(f, named.get) /\ Emittable(f, named.set)
    BY <2>1, <2>3, <2>6, <2>7, EmittableOps
  <2>9. QED
    BY <2>4, <2>5, <2>8 DEF f, c, named, last
<1>7. QED
  BY <1>4, <1>5, <1>6

-------------------------------------------------------------------------------
(***************************************************************************)
(* A step of the current compiler.                                         *)
(***************************************************************************)
\* The last compiler c becomes d: the rule r ends and those in todo are entered.
AllPending(todo) == UNION {Pending(q) : q \in todo}
Advances(fs, r, c, d, todo) ==
  /\ d \in CompilerType /\ Richer(FunctionObject(c), FunctionObject(d))
  /\ Decodable(fs, FunctionObject(c)) /\ ConstantsFit(FunctionObject(d))
       /\ Carries(fs, r, FunctionObject(c)) =>
       /\ \E X, Y : Grows(fs, c, d, X, Y) /\ X \cup (Pending(r) \ Y) \subseteq AllPending(todo)
       /\ \A q \in todo : Carries(fs, q, FunctionObject(d))

\* A rule that relies on nothing in the code.
Free(r) == r.rule \notin {"patch", "else", "emit"} \cup LoopRule

LEMMA FreeCarries ==
  ASSUME NEW r, Free(r)
  PROVE  Pending(r) = {} /\ \A fs, f : Carries(fs, r, f)
BY DEF Free, Pending, Carries, Returns, LoopRule, ExitRule

LEMMA CarriesOn ==
  ASSUME NEW fs, NEW r, NEW f \in FunctionType, NEW g \in FunctionType, Richer(f, g),
         Starts(fs, f) \subseteq Starts(fs, g), Jumps(fs, f) \subseteq Jumps(fs, g),
         Carries(fs, r, f)
  PROVE  Carries(fs, r, g)
BY RicherAllows DEF Carries

\* Rules on top of others, in one compiler.
OnTop(next, rest, n, K, M) ==
  LET rs == next \o rest IN
  /\ Placed(rs, n, M) /\ Len(rs) = Len(next) + Len(rest)
  /\ \A i \in 1..Len(next) : rs[i] = next[i] /\ M[i] = n
  /\ \A i \in 1..Len(rest) : rs[Len(next) + i] = rest[i] /\ M[Len(next) + i] = K[i]

LEMMA PlacedOn ==
  ASSUME NEW R, NEW next \in Seq(R), NEW rest \in Seq(R), rest # <<>>, NEW n \in Nat, NEW K,
         Placed(rest, n, K), \A i \in 1..Len(next) : next[i].rule \notin {"script", "function"}
  PROVE  \E M : OnTop(next, rest, n, K, M)
<1> DEFINE m == Len(next)
           o == Len(rest)
           qs == next \o rest
           M == [i \in 1..(m + o) |-> IF i <= m THEN n ELSE K[i - m]]
<1>1. /\ K \in Seq(Nat) /\ Len(K) = o /\ K[1] = n
      /\ Last(rest).rule = "script" /\ K[Len(K)] = 1
      /\ \A i \in 1..(Len(K) - 1) :
           rest[i].rule # "script" /\ K[i + 1] = K[i] - IF rest[i].rule = "function" THEN 1 ELSE 0
      /\ \A i, j \in 1..Len(K) : i <= j => K[j] <= K[i]
  BY DEF Placed
<1>2. m \in Nat /\ o \in Nat \ {0}
  OBVIOUS
<1>3. /\ qs \in Seq(R) /\ Len(qs) = m + o
      /\ \A i \in 1..m : qs[i] = next[i]
      /\ \A i \in 1..o : qs[m + i] = rest[i]
  OBVIOUS
<1>4. \A i \in 1..o : K[i] \in Nat
  BY <1>1
<1>5. /\ M \in Seq(Nat) /\ Len(M) = m + o
      /\ \A i \in 1..m : M[i] = n
      /\ \A i \in 1..o : M[m + i] = K[i]
  <2>1. M = [i \in 1..(m + o) |-> IF i <= m THEN n ELSE K[i - m]]
    OBVIOUS
  <2> HIDE DEF m, o, M
  <2>2. \A i \in 1..(m + o) : i <= m \/ i - m \in 1..o
    BY <1>2
  <2>3. \A i \in 1..(m + o) : (IF i <= m THEN n ELSE K[i - m]) \in Nat
    BY <1>4, <2>2
  <2>4. M \in [1..(m + o) -> Nat]
    BY <2>1, <2>3
  <2>5. m + o \in Nat
    BY <1>2
  <2>6. M \in Seq(Nat) /\ Len(M) = m + o
    <3>1. \A p \in Nat : \A h \in [1..p -> Nat] : h \in Seq(Nat) /\ Len(h) = p
      OBVIOUS
    <3>2. QED
      BY <2>4, <2>5, <3>1, Zenon
  <2>7. \A i \in 1..m : i \in 1..(m + o) /\ i <= m
    BY <1>2
  <2>8. \A i \in 1..o : m + i \in 1..(m + o) /\ ~(m + i <= m) /\ (m + i) - m = i
    BY <1>2
  <2>9. QED
    BY <2>1, <2>6, <2>7, <2>8
<1> HIDE DEF m, o, qs, M
<1>6. \A i \in 1..(m + o) : i \in 1..m \/ \E k \in 1..o : i = m + k
  <2>1. \A i \in 1..(m + o) : i \in 1..m \/ (i - m \in 1..o /\ i = m + (i - m))
    BY <1>2
  <2>2. QED
    BY <2>1
<1>7. Last(qs) = Last(rest) /\ M[Len(M)] = 1
  <2>1. o \in 1..o /\ Len(qs) = m + o
    BY <1>2, <1>3
  <2>2. Last(rest) = rest[o]
    BY DEF Last, o
  <2>3. QED
    BY <1>1, <1>3, <1>5, <2>1, <2>2 DEF Last
<1>8. M[1] = n
  <2>1. CASE m = 0
    <3>1. 1 \in 1..o /\ m + 1 = 1
      BY <1>2, <2>1
    <3>2. QED
      BY <1>1, <1>5, <3>1
  <2>2. CASE m # 0
    <3>1. 1 \in 1..m
      BY <1>2, <2>2
    <3>2. QED
      BY <1>5, <3>1
  <2>3. QED
    BY <2>1, <2>2
<1>9. ASSUME NEW i \in 1..(Len(M) - 1)
      PROVE  qs[i].rule # "script" /\ M[i + 1] = M[i] - IF qs[i].rule = "function" THEN 1 ELSE 0
  <2>1. i \in 1..(m + o) /\ i + 1 \in 1..(m + o)
    BY <1>2, <1>5
  <2>2. CASE i \in 1..m
    <3>1. qs[i].rule \notin {"script", "function"} /\ M[i] = n
      BY <1>3, <1>5, <2>2 DEF m
    <3>2. M[i + 1] = n
      <4>1. CASE i + 1 \in 1..m
        BY <1>5, <4>1
      <4>2. CASE i + 1 \notin 1..m
        <5>1. i + 1 = m + 1 /\ 1 \in 1..o
          BY <1>2, <2>2, <4>2
        <5>2. M[m + 1] = K[1]
          BY <1>5, <5>1
        <5>3. QED
          BY <1>1, <5>1, <5>2
      <4>3. QED
        BY <4>1, <4>2
    <3>3. n = n - 0
      OBVIOUS
    <3>4. QED
      BY <3>1, <3>2, <3>3
  <2>3. ASSUME NEW k \in 1..o, i = m + k
        PROVE  qs[i].rule # "script" /\ M[i + 1] = M[i] - IF qs[i].rule = "function" THEN 1 ELSE 0
    <3>1. k \in 1..(Len(K) - 1) /\ k + 1 \in 1..o /\ i + 1 = m + (k + 1)
      BY <1>1, <1>2, <1>5, <2>3
    <3>2. qs[i] = rest[k] /\ M[i] = K[k]
      BY <1>3, <1>5, <2>3
    <3>3. M[i + 1] = K[k + 1]
      BY <1>5, <3>1
    <3>4. QED
      BY <1>1, <3>1, <3>2, <3>3
  <2>4. QED
    BY <1>6, <2>1, <2>2, <2>3
<1>10. ASSUME NEW i \in 1..Len(M), NEW j \in 1..Len(M), i <= j
       PROVE  M[j] <= M[i]
  <2>1. i \in 1..(m + o) /\ j \in 1..(m + o)
    BY <1>5
  <2>2. \A k \in 1..o : K[k] <= n
    <3>1. \A k \in 1..o : 1 <= k /\ 1 \in 1..o
      BY <1>2
    <3>2. QED
      BY <1>1, <3>1
  <2>3. CASE i \in 1..m
    <3>1. M[i] = n
      BY <1>5, <2>3
    <3>2. M[j] <= n
      <4>1. CASE j \in 1..m
        <5>1. n <= n
          OBVIOUS
        <5>2. QED
          BY <1>5, <4>1, <5>1
      <4>2. ASSUME NEW k \in 1..o, j = m + k
            PROVE  M[j] <= n
        BY <1>5, <2>2, <4>2
      <4>3. QED
        BY <1>6, <2>1, <4>1, <4>2
    <3>3. QED
      BY <3>1, <3>2
  <2>4. ASSUME NEW k \in 1..o, i = m + k, i \notin 1..m
        PROVE  M[j] <= M[i]
    <3>1. j - m \in 1..o /\ j = m + (j - m) /\ k <= j - m
      BY <1>2, <1>10, <2>1, <2>4
    <3>2. M[i] = K[k] /\ M[j] = K[j - m]
      BY <1>5, <2>4, <3>1
    <3>3. QED
      BY <1>1, <3>1, <3>2
  <2>5. QED
    BY <1>6, <2>1, <2>3, <2>4
<1>11. Placed(qs, n, M)
  BY <1>1, <1>3, <1>5, <1>7, <1>8, <1>9, <1>10 DEF Placed
<1>12. OnTop(next, rest, n, K, M)
  BY <1>3, <1>5, <1>11 DEF OnTop, qs, m, o
<1>13. QED
  BY <1>12

\* The rule on top ends.
Uncovers(R, rs, n, K) ==
  /\ Placed(Tail(rs), n - IF Head(rs).rule = "function" THEN 1 ELSE 0, Tail(K))
  /\ Tail(rs) \in Seq(R) /\ Tail(rs) # <<>> /\ Len(Tail(rs)) = Len(rs) - 1
  /\ \A i \in 1..(Len(rs) - 1) : Tail(rs)[i] = rs[i + 1] /\ Tail(K)[i] = K[i + 1]

LEMMA PlacedTail ==
  ASSUME NEW R, NEW rs \in Seq(R), rs # <<>>, NEW n \in Nat, NEW K, Placed(rs, n, K),
         Head(rs).rule # "script"
  PROVE  Uncovers(R, rs, n, K)
<1>1. /\ K \in Seq(Nat) /\ Len(K) = Len(rs) /\ K[1] = n
      /\ Last(rs).rule = "script" /\ K[Len(K)] = 1
      /\ \A i \in 1..(Len(K) - 1) :
           rs[i].rule # "script" /\ K[i + 1] = K[i] - IF rs[i].rule = "function" THEN 1 ELSE 0
      /\ \A i, j \in 1..Len(K) : i <= j => K[j] <= K[i]
  BY DEF Placed
<1> DEFINE o == Len(rs)
<1>2. o \in Nat /\ o > 1
  BY <1>1 DEF Last
<1>3. /\ Tail(rs) \in Seq(R) /\ Len(Tail(rs)) = o - 1
      /\ \A i \in 1..(o - 1) : Tail(rs)[i] = rs[i + 1]
  BY <1>2
<1>4. /\ Tail(K) \in Seq(Nat) /\ Len(Tail(K)) = o - 1
      /\ \A i \in 1..(o - 1) : Tail(K)[i] = K[i + 1]
  BY <1>1, <1>2
<1>5. Head(rs) = rs[1]
  OBVIOUS
<1>6. Tail(rs) # <<>>
  <2>1. \A s : Len(s) # 0 => s # <<>>
    OBVIOUS
  <2>2. o - 1 # 0
    <3>1. \A k \in Nat : k > 1 => k - 1 # 0
      OBVIOUS
    <3>2. QED
      BY <1>2, <3>1, Zenon
  <2>3. QED
    BY <1>3, <2>1, <2>2, Zenon
<1> HIDE DEF o
<1>7. 1 \in 1..(o - 1) /\ o - 1 \in 1..(o - 1) /\ (o - 1) + 1 = o /\ 1 + 1 \in 1..o
  BY <1>2
<1>8. Tail(K)[1] = n - IF Head(rs).rule = "function" THEN 1 ELSE 0
  BY <1>1, <1>4, <1>5, <1>7 DEF o
<1>9. Last(Tail(rs)) = Last(rs) /\ Tail(K)[Len(Tail(K))] = 1
  BY <1>1, <1>3, <1>4, <1>7 DEF Last, o
<1>10. ASSUME NEW i \in 1..(o - 1 - 1)
       PROVE  /\ Tail(rs)[i].rule # "script"
              /\ Tail(K)[i + 1] = Tail(K)[i] - IF Tail(rs)[i].rule = "function" THEN 1 ELSE 0
  <2>1. i \in 1..(o - 1) /\ i + 1 \in 1..(o - 1)
    BY <1>2
  <2>2. QED
    BY <1>1, <1>3, <1>4, <2>1 DEF o
<1>11. ASSUME NEW i \in 1..(o - 1), NEW j \in 1..(o - 1), i <= j
       PROVE  Tail(K)[j] <= Tail(K)[i]
  <2>1. i + 1 \in 1..o /\ j + 1 \in 1..o /\ i + 1 <= j + 1
    BY <1>2, <1>11
  <2>2. QED
    BY <1>1, <1>4, <2>1 DEF o
<1>12. Placed(Tail(rs), n - IF Head(rs).rule = "function" THEN 1 ELSE 0, Tail(K))
  <2>1. Len(Tail(K)) - 1 = o - 1 - 1
    BY <1>2, <1>4
  <2>2. QED
    BY <1>1, <1>3, <1>4, <1>8, <1>9, <1>10, <1>11, <2>1 DEF Placed
<1>13. QED
  BY <1>3, <1>4, <1>6, <1>12 DEF o, Uncovers

\* What is next in rs is either on its top already, or under the rule that ends.
Rests(rs, done, rest) ==
  \/ rest = rs /\ Free(done)
  \/ rest = Tail(rs) /\ done = Head(rs) /\ done.rule \notin {"script", "function"}

LEMMA CodeStep ==
  ASSUME NEW fs \in Seq(FunctionType), NEW R, NEW rs \in Seq(R), rs # <<>>,
         NEW cs \in Seq(CompilerType), cs # <<>>,
         NEW ds \in Seq(CompilerType), Len(ds) = Len(cs), Coded(fs, cs, rs),
         \A k \in 1..(Len(cs) - 1) : Enriched(cs[k], ds[k]),
         NEW done, NEW rest, Rests(rs, done, rest),
         NEW next \in Seq(R), \A i \in 1..Len(next) : next[i].rule \notin {"script", "function"},
         Advances(fs, done, Last(cs), Last(ds), Range(next)),
         \A i \in 1..Len(next) : next[i].rule = "define" =>
           \/ NamesConstant(FunctionObject(Last(ds)), next[i].index)
           \/ Inside(next \o rest, i)
  PROVE  Coded(fs, ds, next \o rest)
<1> DEFINE n == Len(cs)
           c == Last(cs)
           d == Last(ds)
           F(k) == FunctionObject(cs[k])
           G(k) == FunctionObject(ds[k])
           shift == IF rest = rs THEN 0 ELSE 1
<1>1. PICK K : Placed(rs, n, K) /\ Promises(fs, cs, rs, K)
  BY DEF Coded
<1>2. n \in Nat \ {0} /\ c = cs[n] /\ d = ds[n]
  BY DEF Last
<1>3. PICK J : /\ rest \in Seq(R) /\ rest # <<>> /\ Placed(rest, n, J)
               /\ Len(rest) = Len(rs) - shift
               /\ \A i \in 1..Len(rest) : rest[i] = rs[i + shift] /\ J[i] = K[i + shift]
  <2>1. CASE rest = rs
    <3>1. \A i \in 1..Len(rs) : i + 0 = i
      OBVIOUS
    <3>2. Len(rs) = Len(rs) - 0
      OBVIOUS
    <3>3. QED
      BY <1>1, <2>1, <3>1, <3>2
  <2>2. CASE rest # rs
    <3>1. rest = Tail(rs) /\ Head(rs).rule \notin {"script", "function"}
      BY <2>2 DEF Rests
    <3>2. n \in Nat /\ n - 0 = n
      BY <1>2
    <3>3. Uncovers(R, rs, n, K)
      <4>1. Head(rs).rule # "script"
        BY <3>1
      <4> HIDE DEF n
      <4>2. QED
        BY <1>1, <3>2, <4>1, PlacedTail
    <3>4. /\ Tail(rs) \in Seq(R) /\ Tail(rs) # <<>> /\ Len(Tail(rs)) = Len(rs) - 1
          /\ \A i \in 1..(Len(rs) - 1) : Tail(rs)[i] = rs[i + 1] /\ Tail(K)[i] = K[i + 1]
          /\ Placed(Tail(rs), n - 0, Tail(K))
      BY <3>1, <3>3 DEF Uncovers
    <3>5. shift = 1
      BY <2>2
    <3> HIDE DEF shift, n
    <3>6. QED
      BY <3>1, <3>2, <3>4, <3>5
  <2>3. QED
    BY <2>1, <2>2
<1>4. /\ shift \in {0, 1}
      /\ \A j \in 1..Len(rs) : \/ j - shift \in 1..Len(rest) /\ (j - shift) + shift = j
                               \/ j = 1 /\ rs[1] = done
      /\ \A i \in 1..Len(rest) : i + shift \in 1..Len(rs)
  <2>1. CASE rest = rs
    <3>1. \A j \in 1..Len(rs) : j - 0 \in 1..Len(rs) /\ (j - 0) + 0 = j /\ j + 0 \in 1..Len(rs)
      OBVIOUS
    <3>2. QED
      BY <2>1, <3>1
  <2>2. CASE rest # rs
    <3>1. shift = 1 /\ rs[1] = done
      BY <2>2 DEF Rests
    <3>2. Len(rest) = Len(rs) - 1
      BY <1>3, <3>1
    <3> DEFINE a == Len(rs)
               b == Len(rest)
    <3>3. a \in Nat /\ b = a - 1
      BY <3>2
    <3> HIDE DEF a, b, shift
    <3>4. \A j \in 1..a : (j - 1 \in 1..b /\ (j - 1) + 1 = j) \/ j = 1
      BY <3>3
    <3>5. \A i \in 1..b : i + 1 \in 1..a
      BY <3>3
    <3>6. QED
      BY <3>1, <3>4, <3>5 DEF a, b
  <2>3. QED
    BY <2>1, <2>2
<1> HIDE DEF shift
<1> DEFINE m == Len(next)
           qs == next \o rest
<1>5. PICK M : /\ Placed(qs, n, M) /\ Len(qs) = m + Len(rest)
               /\ \A i \in 1..m : qs[i] = next[i] /\ M[i] = n
               /\ \A i \in 1..Len(rest) : qs[m + i] = rest[i] /\ M[m + i] = J[i]
  <2>1. n \in Nat
    BY <1>2
  <2> HIDE DEF n
  <2>2. \E M : OnTop(next, rest, n, J, M)
    BY <1>3, <2>1, PlacedOn
  <2>3. QED
    BY <2>2 DEF OnTop
<1>6. m \in Nat /\ Len(rest) \in Nat
  BY <1>3
<1> HIDE DEF m
\* What a rule on the stack was, or that it is new; and where an old one is now.
<1>7. \A i \in 1..Len(qs) :
        \/ i \in 1..m /\ qs[i] = next[i] /\ M[i] = n
        \/ \E j \in 1..Len(rs) : /\ qs[i] = rs[j] /\ M[i] = K[j]
                                 /\ i = m + (j - shift) /\ j - shift \in 1..Len(rest)
  <2> TAKE i \in 1..Len(qs)
  <2>1. CASE i \in 1..m
    BY <1>5, <2>1
  <2>2. CASE i \notin 1..m
    <3>1. i - m \in 1..Len(rest) /\ i = m + (i - m)
      BY <1>5, <1>6, <2>2
    <3>2. (i - m) + shift \in 1..Len(rs) /\ ((i - m) + shift) - shift = i - m
      <4>1. i - m + shift = (i - m) + shift /\ shift \in Int
        BY <1>4, <1>6
      <4>2. \A x, y \in Int : (x + y) - y = x
        OBVIOUS
      <4>3. i - m \in Int
        BY <1>6
      <4>4. QED
        BY <1>4, <3>1, <4>1, <4>2, <4>3
    <3>3. qs[i] = rs[(i - m) + shift] /\ M[i] = K[(i - m) + shift]
      BY <1>3, <1>5, <3>1
    <3>4. QED
      BY <3>1, <3>2, <3>3
  <2>3. QED
    BY <2>1, <2>2
<1>8. \A j \in 1..Len(rs) :
        \/ j = 1 /\ rs[j] = done
        \/ /\ m + (j - shift) \in 1..Len(qs)
           /\ qs[m + (j - shift)] = rs[j] /\ M[m + (j - shift)] = K[j]
  <2> TAKE j \in 1..Len(rs)
  <2>1. ASSUME j - shift \in 1..Len(rest), (j - shift) + shift = j
        PROVE  /\ m + (j - shift) \in 1..Len(qs)
               /\ qs[m + (j - shift)] = rs[j] /\ M[m + (j - shift)] = K[j]
    <3>1. rest[j - shift] = rs[j] /\ J[j - shift] = K[j]
      BY <1>3, <2>1
    <3>2. m + (j - shift) \in 1..Len(qs)
      BY <1>5, <1>6, <2>1
    <3>3. QED
      BY <1>5, <2>1, <3>1, <3>2
  <2>2. QED
    BY <1>4, <2>1
<1> HIDE DEF qs
\* What the code of each compiler was, and is.
<1>9. ASSUME NEW k \in 1..n
      PROVE  /\ cs[k] \in CompilerType /\ ds[k] \in CompilerType
             /\ F(k) \in FunctionType /\ G(k) \in FunctionType /\ Richer(F(k), G(k))
  <2>1. cs[k] \in CompilerType /\ ds[k] \in CompilerType
    OBVIOUS
  <2>2. Richer(F(k), G(k))
    <3>1. CASE k = n
      BY <1>2, <3>1 DEF Advances
    <3>2. CASE k # n
      <4>1. k \in 1..(n - 1)
        BY <1>2, <3>2
      <4>2. QED
        BY <4>1 DEF Enriched
    <3>3. QED
      BY <3>1, <3>2
  <2>3. QED
    BY <2>1, <2>2, Seen
<1>10. ASSUME NEW k \in 1..n, ConstantsFit(G(k))
       PROVE  ConstantsFit(F(k)) /\ Decodable(fs, F(k))
  <2>1. ConstantsFit(F(k))
    <3>1. /\ Len(F(k).constant_pool) \in Nat /\ Len(G(k).constant_pool) \in Nat
          /\ Len(F(k).constant_pool) <= Len(G(k).constant_pool)
      BY <1>9, FieldTypes DEF Richer
    <3>2. \A x, y \in Nat : x <= y /\ y <= MAX_INDEX_SIZE => x <= MAX_INDEX_SIZE
      BY DEF MAX_INDEX_SIZE
    <3>3. QED
      BY <1>10, <3>1, <3>2, Zenon DEF ConstantsFit
  <2>2. QED
    BY <2>1 DEF Coded, CompilersCoded
<1>11. ASSUME NEW k \in 1..n, k # n, ConstantsFit(G(k))
       PROVE  /\ Decodable(fs, G(k)) /\ Len(G(k).byte_code) = Len(F(k).byte_code)
              /\ Starts(fs, G(k)) = Starts(fs, F(k)) /\ Jumps(fs, G(k)) = Jumps(fs, F(k))
              /\ Open(fs, G(k)) = Open(fs, F(k))
  <2>1. k \in 1..(n - 1)
    BY <1>2, <1>11
  <2>2. Enriched(cs[k], ds[k])
    BY <2>1
  <2>3. ds[k].byte_code = cs[k].byte_code /\ Richer(F(k), G(k))
    BY <2>2 DEF Enriched
  <2>4. Grows(fs, cs[k], ds[k], {}, {})
        /\ Starts(fs, G(k)) = Starts(fs, F(k)) /\ Jumps(fs, G(k)) = Jumps(fs, F(k))
        /\ Open(fs, G(k)) = Open(fs, F(k))
    BY <1>9, <1>10, <1>11, <2>3, SameCodeGrows
  <2>5. QED
    BY <1>9, <2>3, <2>4, Seen DEF Grows, Follows
<1>12. ASSUME ConstantsFit(G(n))
       PROVE  /\ \E X, Y : Grows(fs, c, d, X, Y) /\ X \cup (Pending(done) \ Y) \subseteq AllPending(Range(next))
              /\ \A q \in Range(next) : Carries(fs, q, G(n))
  <2>1. n \in 1..n
    BY <1>2
  <2>2. ConstantsFit(F(n)) /\ Decodable(fs, F(n))
    BY <1>10, <1>12, <2>1
  <2>3. Carries(fs, done, F(n))
    <3>1. CASE Free(done)
      BY <3>1, FreeCarries
    <3>2. CASE done = Head(rs)
      <4>1. 1 \in 1..Len(rs) /\ K[1] = n /\ done = rs[1]
        BY <1>1, <3>2 DEF Placed
      <4>2. QED
        BY <1>1, <2>2, <4>1 DEF Promises
    <3>3. QED
      BY <3>1, <3>2 DEF Rests
  <2>4. QED
    BY <1>2, <1>12, <2>2, <2>3 DEF Advances
<1>13. ASSUME NEW k \in 1..n, ConstantsFit(G(k))
       PROVE  /\ Decodable(fs, G(k))
              /\ Starts(fs, F(k)) \subseteq Starts(fs, G(k)) /\ Jumps(fs, F(k)) \subseteq Jumps(fs, G(k))
  <2>1. CASE k = n
    BY <1>2, <1>12, <1>13, <2>1 DEF Grows, Follows
  <2>2. CASE k # n
    BY <1>11, <1>13, <2>2
  <2>3. QED
    BY <2>1, <2>2
<1>14. \A j \in 1..Len(rs) : K[j] \in 1..n
  <2>1. /\ K \in Seq(Nat) /\ Len(K) = Len(rs) /\ K[1] = n /\ K[Len(K)] = 1
        /\ \A i, j \in 1..Len(K) : i <= j => K[j] <= K[i]
    BY <1>1 DEF Placed
  <2>2. \A j \in 1..Len(K) : K[j] \in Nat /\ 1 <= j /\ j <= Len(K) /\ 1 \in 1..Len(K) /\ Len(K) \in 1..Len(K)
    BY <2>1
  <2>3. \A j \in 1..Len(K) : K[j] <= n /\ 1 <= K[j]
    BY <2>1, <2>2
  <2>4. n \in Nat
    BY <1>2
  <2> HIDE DEF n
  <2>5. QED
    BY <2>1, <2>2, <2>3, <2>4
<1>15. CompilersCoded(fs, ds)
  BY <1>13 DEF CompilersCoded
<1>16. \A q \in Range(next) : q \in {next[i] : i \in 1..m}
  BY DEF Range, m
<1>17. ASSUME NEW i \in 1..Len(qs), ConstantsFit(G(M[i]))
       PROVE  Carries(fs, qs[i], G(M[i]))
  <2>1. CASE i \in 1..m /\ qs[i] = next[i] /\ M[i] = n
    <3>1. qs[i] \in Range(next)
      BY <2>1 DEF Range, m
    <3>2. QED
      BY <1>12, <1>17, <2>1, <3>1
  <2>2. ASSUME NEW j \in 1..Len(rs), qs[i] = rs[j], M[i] = K[j]
        PROVE  Carries(fs, qs[i], G(M[i]))
    <3>1. K[j] \in 1..n /\ ConstantsFit(G(K[j]))
      BY <1>14, <1>17, <2>2
    <3>2. ConstantsFit(F(K[j]))
      BY <1>10, <3>1
    <3>3. Carries(fs, rs[j], F(K[j]))
      BY <1>1, <3>2 DEF Promises
    <3>4. Carries(fs, rs[j], G(K[j]))
      BY <1>9, <1>13, <3>1, <3>3, CarriesOn
    <3>5. QED
      BY <2>2, <3>4
  <2>3. QED
    BY <1>7, <2>1, <2>2
<1>18. ASSUME NEW i \in 1..Len(qs), qs[i].rule = "define"
       PROVE  NamesConstant(G(M[i]), qs[i].index) \/ Inside(qs, i)
  <2>1. CASE i \in 1..m /\ qs[i] = next[i] /\ M[i] = n
    BY <1>2, <1>18, <2>1 DEF qs, m
  <2>2. ASSUME NEW j \in 1..Len(rs), qs[i] = rs[j], M[i] = K[j], i = m + (j - shift)
        PROVE  NamesConstant(G(M[i]), qs[i].index) \/ Inside(qs, i)
    <3>1. NamesConstant(F(K[j]), rs[j].index) \/ Inside(rs, j)
      BY <1>1, <1>18, <2>2 DEF Promises
    <3>2. CASE NamesConstant(F(K[j]), rs[j].index)
      <4>1. NamesConstant(G(K[j]), rs[j].index)
        BY <1>9, <1>14, <3>2, RicherAllows
      <4>2. QED
        BY <2>2, <4>1
    <3>3. CASE Inside(rs, j)
      <4>1. PICK p \in 1..Len(rs) : j < p /\ rs[p].rule \in ScopedRule \cup {"function"}
        BY <3>3 DEF Inside
      <4>2. p # 1
        BY <4>1
      <4>3. m + (p - shift) \in 1..Len(qs) /\ qs[m + (p - shift)] = rs[p]
        BY <1>8, <4>2
      <4>4. i < m + (p - shift)
        BY <1>4, <1>6, <2>2, <4>1
      <4>5. QED
        BY <4>1, <4>3, <4>4 DEF Inside
    <3>4. QED
      BY <3>1, <3>2, <3>3
  <2>3. QED
    BY <1>7, <2>1, <2>2
<1>19. ASSUME NEW k \in 1..n, ConstantsFit(G(k)), CodeFits(G(k)), NEW offset \in Open(fs, G(k))
       PROVE  \E i \in 1..Len(qs) : M[i] = k /\ offset \in Pending(qs[i])
  <2>1. /\ Len(F(k).byte_code) \in Nat /\ Len(G(k).byte_code) \in Nat
    BY <1>9, FieldTypes
  <2>2. ASSUME Len(F(k).byte_code) <= Len(G(k).byte_code)
        PROVE  CodeFits(F(k))
    <3>1. \A x, y \in Nat : x <= y /\ y <= MAX_INDEX_SIZE => x <= MAX_INDEX_SIZE
      BY DEF MAX_INDEX_SIZE
    <3>2. QED
      BY <1>19, <2>1, <2>2, <3>1, Zenon DEF CodeFits
  <2>3. CodeFits(F(k)) => \A o \in Open(fs, F(k)) : \E j \in 1..Len(rs) : K[j] = k /\ o \in Pending(rs[j])
    BY <1>1, <1>10, <1>19 DEF Promises
  <2>4. CASE k # n
    <3>1. offset \in Open(fs, F(k)) /\ CodeFits(F(k))
      BY <1>11, <1>19, <2>1, <2>2, <2>4
    <3>2. PICK j \in 1..Len(rs) : K[j] = k /\ offset \in Pending(rs[j])
      BY <2>3, <3>1
    <3>3. j # 1
      BY <1>1, <2>4, <3>2 DEF Placed
    <3>4. QED
      BY <1>8, <3>2, <3>3
  <2>5. CASE k = n
    <3>1. PICK X, Y : Grows(fs, c, d, X, Y) /\ X \cup (Pending(done) \ Y) \subseteq AllPending(Range(next))
      BY <1>12, <1>19, <2>5
    <3>2. Len(F(k).byte_code) <= Len(G(k).byte_code) /\ Open(fs, G(k)) \subseteq (Open(fs, F(k)) \ Y) \cup X
      BY <1>2, <1>19, <2>5, <3>1 DEF Grows, Follows
    <3>3. ASSUME offset \in AllPending(Range(next))
          PROVE  \E i \in 1..Len(qs) : M[i] = k /\ offset \in Pending(qs[i])
      <4>1. PICK i \in 1..m : offset \in Pending(next[i])
        BY <1>16, <3>3 DEF AllPending
      <4>2. i \in 1..Len(qs)
        BY <1>5, <1>6
      <4>3. QED
        BY <1>5, <2>5, <4>1, <4>2
    <3>4. CASE offset \in X
      BY <3>1, <3>3, <3>4
    <3>5. CASE offset \notin X
      <4>1. PICK j \in 1..Len(rs) : K[j] = k /\ offset \in Pending(rs[j])
        BY <2>2, <2>3, <3>2, <3>5
      <4>2. CASE rs[j] = done
        BY <3>1, <3>2, <3>3, <3>5, <4>1, <4>2
      <4>3. CASE rs[j] # done
        BY <1>8, <4>1, <4>3
      <4>4. QED
        BY <4>2, <4>3
    <3>6. QED
      BY <3>4, <3>5
  <2>6. QED
    BY <2>4, <2>5
<1>20. Promises(fs, ds, qs, M)
  <2>1. Len(ds) = n
    OBVIOUS
  <2>2. QED
    BY <1>17, <1>18, <1>19, <2>1 DEF Promises
<1>21. Coded(fs, ds, qs)
  <2>1. FunctionsCoded(fs)
    BY DEF Coded
  <2>2. QED
    BY <1>5, <1>15, <1>20, <2>1 DEF Coded
<1>22. QED
  BY <1>21 DEF qs

-------------------------------------------------------------------------------
(***************************************************************************)
(* How the invariant reaches the next state: the current rule goes on, or  *)
(* a declaration or statement begins.                                      *)
(***************************************************************************)
LEMMA DepthByRules ==
  ASSUME CompilerInv, rules # <<>>
  PROVE  Cur.current_scope_depth > 0
           <=> \E j \in 1..Len(rules) : rules[j].rule \in ScopedRule \cup {"function"}
<1> DEFINE Scope(j) == rules[j].rule \in ScopedRule \cup {"function"}
<1>1. PICK l \in Situation : Expects(rules, compilers, l) /\ l.compiler = Len(compilers) /\ Fits(compilers, l)
  BY DEF CompilerInv, RulesNest, Nested
<1>2. PICK L \in Seq(Situation) : L # <<>> /\ Situations(rules, compilers, L) /\ L[1] = l
  BY <1>1 DEF Expects
<1>3. Cur.current_scope_depth = l.depth
  BY <1>1 DEF Fits, Cur, Last
<1>4. /\ Len(L) = Len(rules) /\ Len(L) \in Nat \ {0}
      /\ \A i \in 1..Len(L) : L[i] \in Situation /\ L[i].depth \in Nat /\ Accepts(rules[i], L[i])
      /\ \A i \in 1..(Len(L) - 1) : Leads(compilers, rules[i], L[i], L[i + 1])
  <2>1. Len(L) \in Nat \ {0} /\ \A i \in 1..Len(L) : L[i] \in Situation
    BY <1>2
  <2>2. \A m \in Situation : m.depth \in Nat
    BY DEF Situation
  <2>3. QED
    BY <1>2, <2>1, <2>2 DEF Situations
<1> DEFINE Known == {n \in Nat : n + 1 \in 1..Len(L) =>
                       \/ L[n + 1].depth = l.depth /\ \A j \in 1..n : ~Scope(j)
                       \/ l.depth > 0 /\ \E j \in 1..n : Scope(j)}
<1>5. 0 \in Known
  BY <1>2
<1>6. ASSUME NEW n \in Nat, n \in Known
      PROVE  n + 1 \in Known
  <2> SUFFICES ASSUME (n + 1) + 1 \in 1..Len(L)
               PROVE  \/ L[(n + 1) + 1].depth = l.depth /\ \A j \in 1..(n + 1) : ~Scope(j)
                      \/ l.depth > 0 /\ \E j \in 1..(n + 1) : Scope(j)
    OBVIOUS
  <2>1. n + 1 \in 1..(Len(L) - 1) /\ n + 1 \in 1..Len(L)
    BY <1>4
  <2>2. 1..(n + 1) = (1..n) \cup {n + 1}
    OBVIOUS
  <2>3. CASE l.depth > 0 /\ \E j \in 1..n : Scope(j)
    BY <2>2, <2>3
  <2>4. CASE L[n + 1].depth = l.depth /\ \A j \in 1..n : ~Scope(j)
    <3> HIDE DEF Known
    <3>1. CASE Scope(n + 1)
      <4>1. L[n + 1].depth > 0
        BY <1>4, <2>1, <3>1 DEF Accepts
      <4>2. QED
        BY <2>2, <2>4, <3>1, <4>1
    <3>2. CASE ~Scope(n + 1)
      <4>1. L[(n + 1) + 1] = L[n + 1] \/ L[(n + 1) + 1] = [L[n + 1] EXCEPT !.at = "statement"]
        BY <1>4, <2>1, <3>2 DEF Leads
      <4>2. \A m \in Situation : [m EXCEPT !.at = "statement"].depth = m.depth
        BY DEF Situation
      <4>3. L[(n + 1) + 1].depth = L[n + 1].depth
        BY <1>4, <2>1, <4>1, <4>2
      <4>4. QED
        BY <2>2, <2>4, <3>2, <4>3
    <3>3. QED
      BY <3>1, <3>2
  <2>5. QED
    BY <1>6, <2>1, <2>3, <2>4
<1>7. Len(L) - 1 \in Known
  <2> HIDE DEF Known
  <2>1. Nat \subseteq Known
    BY <1>5, <1>6, Induction
  <2>2. QED
    BY <1>4, <2>1
<1>8. L[Len(L)].depth = 0 /\ ~Scope(Len(L))
  <2>1. rules[Len(L)].rule = "script"
    BY <1>2, <1>4 DEF Situations, Last
  <2>2. Accepts(rules[Len(L)], L[Len(L)])
    BY <1>4
  <2>3. QED
    BY <2>1, <2>2 DEF Accepts, ScopedRule
<1>9. \/ l.depth = 0 /\ \A j \in 1..(Len(L) - 1) : ~Scope(j)
      \/ l.depth > 0 /\ \E j \in 1..(Len(L) - 1) : Scope(j)
  <2>1. (Len(L) - 1) + 1 = Len(L) /\ Len(L) \in 1..Len(L)
    BY <1>4
  <2>2. QED
    BY <1>7, <1>8, <2>1
<1>10. \A j \in 1..Len(L) : j = Len(L) \/ j \in 1..(Len(L) - 1)
  BY <1>4
<1>11. \A j \in 1..(Len(L) - 1) : j \in 1..Len(L)
  BY <1>4
<1> HIDE DEF Scope
<1>12. l.depth > 0 <=> \E j \in 1..Len(rules) : Scope(j)
  BY <1>4, <1>8, <1>9, <1>10, <1>11
<1>13. QED
  BY <1>3, <1>12 DEF Scope

\* The rules of a sequence are those in todo.
Todo(next, todo) == next \in Seq(todo) /\ Range(next) = todo

LEMMA Todos ==
  /\ Todo(<<>>, {})
  /\ \A a : Todo(<<a>>, {a})
  /\ \A a, b : Todo(<<a, b>>, {a, b})
  /\ \A a, b, c : Todo(<<a, b, c>>, {a, b, c})
  /\ \A a, b, c, d : Todo(<<a, b, c, d>>, {a, b, c, d})
<1>1. Todo(<<>>, {})
  BY DEF Todo, Range
<1>2. \A a : Todo(<<a>>, {a})
  BY DEF Todo, Range
<1>3. \A a, b : Todo(<<a, b>>, {a, b})
  BY DEF Todo, Range
<1>4. \A a, b, c : Todo(<<a, b, c>>, {a, b, c})
  BY DEF Todo, Range
<1>5. \A a, b, c, d : Todo(<<a, b, c, d>>, {a, b, c, d})
  BY DEF Todo, Range
<1>6. QED
  BY <1>1, <1>2, <1>3, <1>4, <1>5

LEMMA CodeOn ==
  ASSUME CompilerInv, CodeInv, rules # <<>>, UNCHANGED functions,
         compilers' \in Seq(CompilerType), Len(compilers') = Len(compilers),
         \A k \in 1..(Len(compilers) - 1) : Enriched(compilers[k], compilers'[k]),
         NEW done, NEW rest, Rests(rules, done, rest),
         NEW next, NEW todo, Todo(next, todo), \A q \in todo : q.rule \notin {"script", "function"},
         rules' = next \o rest, Advances(functions, done, Cur, Last(compilers'), todo),
         \A i \in 1..Len(next) : next[i].rule = "define" =>
           \/ NamesConstant(FunctionObject(Last(compilers')), next[i].index)
           \/ Inside(rules', i)
  PROVE  CodeInv'
<1> DEFINE R == RuleType \cup todo
           fs == functions
           cs == compilers
           ds == compilers'
           rs == rules
<1>1. /\ fs \in Seq(FunctionType) /\ cs \in Seq(CompilerType) /\ cs # <<>>
      /\ ds \in Seq(CompilerType) /\ rs \in Seq(RuleType)
  BY DEF CompilerInv, TypeOK
<1>2. \A S, U : \A s \in Seq(S) : S \subseteq U => s \in Seq(U)
  OBVIOUS
<1>3. rs \in Seq(R) /\ next \in Seq(R)
  BY <1>1, <1>2 DEF Todo
<1>4. \A i \in 1..Len(next) : next[i].rule \notin {"script", "function"}
  BY DEF Todo
<1>5. Range(next) = todo /\ Last(cs) = Cur
  BY DEF Todo, Cur
<1>6. Coded(fs, cs, rs)
  BY DEF CodeInv
<1> HIDE DEF R
<1>7. Coded(fs, ds, next \o rest)
  <2>1. \A i \in 1..Len(next) : next[i].rule = "define" =>
           NamesConstant(FunctionObject(Last(ds)), next[i].index) \/ Inside(next \o rest, i)
    OBVIOUS
  <2>2. Advances(fs, done, Last(cs), Last(ds), Range(next))
    BY <1>5
  <2>3. /\ rs # <<>> /\ Len(ds) = Len(cs)
        /\ \A k \in 1..(Len(cs) - 1) : Enriched(cs[k], ds[k])
        /\ Rests(rs, done, rest)
    OBVIOUS
  <2> HIDE DEF fs, cs, ds, rs
  <2>4. QED
    BY <1>1, <1>3, <1>4, <1>6, <2>1, <2>2, <2>3, CodeStep
<1>8. QED
  BY <1>7 DEF CodeInv

LEMMA OnlyLast ==
  ASSUME CompilerInv, NEW d
  PROVE  LET ds == WithLast(d) IN
         /\ Len(ds) = Len(compilers) /\ Last(ds) = d
         /\ \A k \in 1..(Len(compilers) - 1) : Enriched(compilers[k], ds[k])
         /\ d \in CompilerType => ds \in Seq(CompilerType)
         /\ WithLast(Cur) = compilers
         /\ Cur \in CompilerType
<1>1. compilers \in Seq(CompilerType) /\ compilers # <<>>
  BY DEF CompilerInv, TypeOK
<1>2. Len(compilers) \in Nat \ {0}
  BY <1>1
<1>3. LET ds == WithLast(d) IN
      /\ Len(ds) = Len(compilers) /\ ds[Len(compilers)] = d
      /\ \A k \in 1..(Len(compilers) - 1) : ds[k] = compilers[k]
  BY <1>1, <1>2 DEF WithLast
<1>4. \A k \in 1..(Len(compilers) - 1) : Enriched(compilers[k], compilers[k])
  <2>1. \A k \in 1..(Len(compilers) - 1) : compilers[k] \in CompilerType
    BY <1>1
  <2>2. QED
    BY <2>1, EnrichedSame DEF SameCode
<1>5. WithLast(Cur) = compilers /\ Cur \in CompilerType
  BY <1>1, <1>2 DEF WithLast, Cur, Last
<1>6. d \in CompilerType => WithLast(d) \in Seq(CompilerType)
  BY <1>1, <1>2 DEF WithLast
<1>7. QED
  BY <1>3, <1>4, <1>5, <1>6 DEF Last

\* The current rule goes on.
LEMMA CodeContinue ==
  ASSUME CompilerInv, CodeInv, rules # <<>>,
         Head(rules).rule \notin {"script", "function"},
         NEW d, NEW next, NEW todo, Continue(WithLast(d), next), Todo(next, todo),
         \A q \in todo : q.rule \notin {"script", "function", "define"},
         Advances(functions, Head(rules), Cur, d, todo)
  PROVE  CodeInv'
<1>1. compilers' = WithLast(d) /\ rules' = next \o Tail(rules) /\ UNCHANGED functions
  BY DEF Continue
<1>2. /\ Len(compilers') = Len(compilers) /\ Last(compilers') = d
      /\ compilers' \in Seq(CompilerType)
      /\ \A k \in 1..(Len(compilers) - 1) : Enriched(compilers[k], compilers'[k])
  BY <1>1, OnlyLast DEF Advances
<1>3. Rests(rules, Head(rules), Tail(rules))
  BY DEF Rests
<1>4. \A i \in 1..Len(next) : next[i].rule # "define"
  BY DEF Todo
<1>5. \A q \in todo : q.rule \notin {"script", "function"}
  OBVIOUS
<1>6. Advances(functions, Head(rules), Cur, Last(compilers'), todo)
  BY <1>2
<1>7. QED
  BY <1>1, <1>2, <1>3, <1>4, <1>5, <1>6, CodeOn

\* Where a declaration or a statement begins, what else is to do.
LEMMA RestOf ==
  ASSUME CompilerInv, InLoop \/ At("declaration") \/ At("statement")
  PROVE  /\ rules # <<>> /\ rules \in Seq(RuleType) /\ Rest \in Seq(RuleType)
         /\ \E last : Rests(rules, last, Rest) /\ Free(last)
         /\ Cur.current_scope_depth > 0 =>
              \E p \in 1..Len(Rest) : Rest[p].rule \in ScopedRule \cup {"function"}
<1>1. rules # <<>> /\ rules \in Seq(RuleType)
  BY DEF InLoop, At, CompilerInv
<1>2. Rest \in Seq(RuleType)
  BY <1>1 DEF Rest
<1>3. \E last : Rests(rules, last, Rest) /\ Free(last)
  <2>1. CASE InLoop
    <3>1. Free(Rule("statement"))
      BY DEF Free, Rule, LoopRule, ExitRule
    <3>2. QED
      BY <2>1, <3>1 DEF Rests, Rest
  <2>2. CASE ~InLoop
    <3>1. Head(rules).rule \in {"declaration", "statement"} /\ Rest = Tail(rules)
      BY <2>2 DEF At, Rest
    <3>2. Free(Head(rules))
      BY <3>1 DEF Free, LoopRule, ExitRule
    <3>3. QED
      BY <3>1, <3>2 DEF Rests
  <2>3. QED
    BY <2>1, <2>2
<1>4. ASSUME Cur.current_scope_depth > 0
      PROVE  \E p \in 1..Len(Rest) : Rest[p].rule \in ScopedRule \cup {"function"}
  <2>1. PICK j \in 1..Len(rules) : rules[j].rule \in ScopedRule \cup {"function"}
    BY <1>1, <1>4, DepthByRules
  <2>2. CASE InLoop
    BY <2>1, <2>2 DEF Rest
  <2>3. CASE ~InLoop
    <3>1. rules[1].rule \in {"declaration", "statement"} /\ Rest = Tail(rules)
      BY <1>1, <2>3 DEF At, Rest
    <3>2. j # 1
      BY <2>1, <3>1 DEF ScopedRule
    <3>3. j - 1 \in 1..Len(Tail(rules)) /\ Tail(rules)[j - 1] = rules[j]
      <4>1. Len(Tail(rules)) = Len(rules) - 1 /\ Len(rules) \in Nat
            /\ \A p \in 1..(Len(rules) - 1) : Tail(rules)[p] = rules[p + 1]
        BY <1>1
      <4>2. j - 1 \in 1..(Len(rules) - 1) /\ (j - 1) + 1 = j
        BY <3>2, <4>1
      <4>3. QED
        BY <4>1, <4>2
    <3>4. QED
      BY <2>1, <3>1, <3>3
  <2>4. QED
    BY <2>2, <2>3
<1>5. QED
  BY <1>1, <1>2, <1>3, <1>4

\* A declaration or a statement begins.
LEMMA CodeBegin ==
  ASSUME CompilerInv, CodeInv, InLoop \/ At("declaration") \/ At("statement"),
         NEW d, NEW next, NEW todo, Begin(WithLast(d), next), Todo(next, todo),
         \A q \in todo : q.rule \notin {"script", "function"},
         Advances(functions, Rule("statement"), Cur, d, todo),
         \A i \in 1..Len(next) : next[i].rule = "define" =>
           \/ NamesConstant(FunctionObject(d), next[i].index)
           \/ Inside(next, i) \/ Cur.current_scope_depth > 0
  PROVE  CodeInv'
<1> DEFINE done == Rule("statement")
<1>1. compilers' = WithLast(d) /\ rules' = next \o Rest /\ UNCHANGED functions
  BY DEF Begin, Rest
<1>2. /\ Len(compilers') = Len(compilers) /\ Last(compilers') = d
      /\ compilers' \in Seq(CompilerType)
      /\ \A k \in 1..(Len(compilers) - 1) : Enriched(compilers[k], compilers'[k])
  BY <1>1, OnlyLast DEF Advances
<1>3. rules # <<>> /\ rules \in Seq(RuleType) /\ Rest \in Seq(RuleType)
  BY RestOf
<1>4. Free(done)
  BY DEF Free, Rule, LoopRule, ExitRule
<1>5. PICK last : Rests(rules, last, Rest) /\ Free(last)
  BY RestOf
<1>6. Advances(functions, last, Cur, Last(compilers'), todo)
  BY <1>2, <1>4, <1>5, FreeCarries DEF Advances
<1>7. ASSUME NEW i \in 1..Len(next), next[i].rule = "define"
      PROVE  NamesConstant(FunctionObject(d), next[i].index) \/ Inside(rules', i)
  <2>1. next \in Seq(todo) /\ Len(next) \in Nat
    BY DEF Todo
  <2>2. PICK S : next \in Seq(S) /\ Rest \in Seq(S)
    <3>1. \A U, V : \A s \in Seq(U) : s \in Seq(U \cup V) /\ s \in Seq(V \cup U)
      OBVIOUS
    <3>2. QED
      BY <1>3, <2>1, <3>1
  <2>3. Len(Rest) \in Nat
    BY <1>3
  <2>4. /\ Len(rules') = Len(next) + Len(Rest)
        /\ \A j \in 1..Len(next) : rules'[j] = next[j]
        /\ \A j \in 1..Len(Rest) : rules'[Len(next) + j] = Rest[j]
    BY <1>1, <2>1, <2>2, <2>3
  <2>5. CASE Inside(next, i)
    <3>1. PICK j \in 1..Len(next) : i < j /\ next[j].rule \in ScopedRule \cup {"function"}
      BY <2>5 DEF Inside
    <3>2. j \in 1..Len(rules') /\ rules'[j] = next[j]
      BY <2>1, <2>3, <2>4
    <3>3. QED
      BY <3>1, <3>2 DEF Inside
  <2>6. CASE Cur.current_scope_depth > 0
    <3>1. PICK p \in 1..Len(Rest) : Rest[p].rule \in ScopedRule \cup {"function"}
      BY <2>6, RestOf
    <3>2. /\ Len(next) + p \in 1..Len(rules') /\ i < Len(next) + p
          /\ rules'[Len(next) + p] = Rest[p]
      BY <2>1, <2>3, <2>4
    <3>3. QED
      BY <3>1, <3>2 DEF Inside
  <2>7. QED
    BY <2>5, <2>6, <1>7
<1>8. QED
  BY <1>1, <1>2, <1>3, <1>5, <1>6, <1>7, CodeOn

-------------------------------------------------------------------------------
(***************************************************************************)
(* What the rules rely on, and the code that several statements share.     *)
(***************************************************************************)
FreeRule == {"script", "declaration", "statement", "block", "function", "class", "then", "for",
             "grouping", "argument", "parsePrecedence", "infix", "define"}

LEMMA FreeRules ==
  /\ \A r : r.rule \in FreeRule => Free(r)
  /\ \A name \in FreeRule : Free(Rule(name)) /\ Rule(name).rule = name
  /\ Free(Expression) /\ Expression.rule = "parsePrecedence"
  /\ \A index : Free(Defines(index)) /\ Defines(index).rule = "define"
<1>1. \A r : r.rule \in FreeRule => Free(r)
  BY DEF Free, FreeRule, LoopRule, ExitRule
<1>2. \A name : Rule(name).rule = name
  BY DEF Rule
<1>3. Expression.rule = "parsePrecedence"
  BY DEF Expression
<1>4. \A index : Defines(index).rule = "define"
  BY DEF Defines
<1>5. "parsePrecedence" \in FreeRule /\ "define" \in FreeRule
  BY DEF FreeRule
<1>6. QED
  BY <1>1, <1>2, <1>3, <1>4, <1>5

LEMMA RuleNeeds ==
  /\ \A bytes : LET r == Emits(bytes) IN
       /\ r.rule = "emit" /\ Pending(r) = {}
       /\ \A fs, f : Emittable(f, bytes) => Carries(fs, r, f)
  /\ \A name \in {"patch", "else"} : \A offset : LET r == [rule |-> name, offset |-> offset] IN
       /\ r.rule = name /\ Pending(r) = {offset}
       /\ \A fs, f : offset \in Jumps(fs, f) => Carries(fs, r, f)
  /\ \A name \in LoopRule \ {"forLoop"} : \A loop_start, exit : LET r == Loop(name, loop_start, exit) IN
       /\ r.rule = name
       /\ Pending(r) = IF name \in ExitRule THEN {exit} \ {NoExit} ELSE {}
       /\ \A fs, f : loop_start \in Starts(fs, f) /\ Pending(r) \subseteq Jumps(fs, f) => Carries(fs, r, f)
  /\ \A loop_start, body_jump :
       LET r == [rule |-> "forLoop", loop_start |-> loop_start, body_jump |-> body_jump] IN
       /\ r.rule = "forLoop" /\ Pending(r) = {body_jump}
       /\ \A fs, f : loop_start \in Starts(fs, f) /\ body_jump \in Jumps(fs, f) => Carries(fs, r, f)
<1>1. \A bytes : LET r == Emits(bytes) IN
        /\ r.rule = "emit" /\ Pending(r) = {}
        /\ \A fs, f : Emittable(f, bytes) => Carries(fs, r, f)
  BY DEF Emits, Pending, Returns, Carries, LoopRule, ExitRule
<1>2. \A name \in {"patch", "else"} : \A offset : LET r == [rule |-> name, offset |-> offset] IN
        /\ r.rule = name /\ Pending(r) = {offset}
        /\ \A fs, f : offset \in Jumps(fs, f) => Carries(fs, r, f)
  BY DEF Pending, Returns, Carries, LoopRule, ExitRule
<1>3. \A name \in LoopRule \ {"forLoop"} : \A loop_start, exit : LET r == Loop(name, loop_start, exit) IN
        /\ r.rule = name
        /\ Pending(r) = IF name \in ExitRule THEN {exit} \ {NoExit} ELSE {}
        /\ \A fs, f : loop_start \in Starts(fs, f) /\ Pending(r) \subseteq Jumps(fs, f) => Carries(fs, r, f)
  <2> TAKE name \in LoopRule \ {"forLoop"}
  <2> TAKE loop_start, exit
  <2> DEFINE r == Loop(name, loop_start, exit)
  <2>1. r.rule = name /\ r.loop_start = loop_start /\ r.exit = exit
    BY DEF Loop
  <2> HIDE DEF r
  <2>2. Pending(r) = (IF name \in ExitRule THEN {exit} \ {NoExit} ELSE {}) /\ Returns(r) = {loop_start}
        /\ r.rule # "emit"
    BY <2>1 DEF Pending, Returns, LoopRule, ExitRule
  <2>3. \A fs, f : loop_start \in Starts(fs, f) /\ Pending(r) \subseteq Jumps(fs, f) => Carries(fs, r, f)
    BY <2>2 DEF Carries
  <2>4. QED
    BY <2>1, <2>2, <2>3 DEF r
<1>4. \A loop_start, body_jump :
        LET r == [rule |-> "forLoop", loop_start |-> loop_start, body_jump |-> body_jump] IN
        /\ r.rule = "forLoop" /\ Pending(r) = {body_jump}
        /\ \A fs, f : loop_start \in Starts(fs, f) /\ body_jump \in Jumps(fs, f) => Carries(fs, r, f)
  BY DEF Pending, Returns, Carries, LoopRule, ExitRule
<1>5. QED
  BY <1>1, <1>2, <1>3, <1>4

LEMMA CodeHere ==
  ASSUME CompilerInv
  PROVE  /\ functions \in Seq(FunctionType) /\ Cur \in CompilerType /\ Here \in CompilerType
         /\ SameCode(Cur, Here) /\ SameCode(Cur, Cur)
         /\ Scoped(Cur) /\ Scoped(Here)
<1>1. Keeps(Cur, Here) /\ Keeps(Cur, Cur)
  BY Emitting
<1>2. functions \in Seq(FunctionType) /\ Cur \in CompilerType
  BY OnlyLast DEF CompilerInv
<1>3. SameCode(Cur, Here) /\ SameCode(Cur, Cur)
  <2>1. SameCode(Cur, Cur)
    BY DEF SameCode
  <2>2. \A heights : SameCode(Cur, [Cur EXCEPT !.heights = heights])
    BY <1>2, <2>1, SameCodeHere
  <2>3. QED
    BY <2>1, <2>2 DEF Here
<1>4. Scoped(Cur)
  <2>1. compilers \in Seq(CompilerType) /\ compilers # <<>>
    BY DEF CompilerInv, TypeOK
  <2>2. Len(compilers) \in DOMAIN compilers
    BY <2>1
  <2>3. QED
    BY <2>2, ScopedEverywhere DEF CompilerInv, Cur, Last
<1>5. Scoped(Here) /\ Here \in CompilerType
  BY <1>1, <1>4, KeepsContinues DEF Continues
<1>6. QED
  BY <1>2, <1>3, <1>4, <1>5

\* A compiler with the same code: rules are entered that rely on nothing.
LEMMA AdvanceSame ==
  ASSUME NEW fs \in Seq(FunctionType), NEW c \in CompilerType, NEW d \in CompilerType,
         SameCode(c, d), NEW r, NEW todo,
         Decodable(fs, FunctionObject(c)) /\ Carries(fs, r, FunctionObject(c)) =>
           /\ Pending(r) \subseteq AllPending(todo)
           /\ \A q \in todo : Carries(fs, q, FunctionObject(d))
  PROVE  Advances(fs, r, c, d, todo)
<1>1. SamePool(c, d) /\ d.byte_code = c.byte_code
  BY SameCodeHere DEF SameCode
<1>2. Richer(FunctionObject(c), FunctionObject(d))
  BY <1>1, SamePoolRicher
<1>3. Decodable(fs, FunctionObject(c)) => Grows(fs, c, d, {}, {})
  BY <1>1, <1>2, SameCodeGrows
<1>4. Pending(r) \subseteq AllPending(todo) => {} \cup (Pending(r) \ {}) \subseteq AllPending(todo)
  OBVIOUS
<1>5. QED
  BY <1>2, <1>3, <1>4 DEF Advances

\* A compiler with more code, in which what r had to patch is patched.
LEMMA AdvanceGrown ==
  ASSUME NEW fs \in Seq(FunctionType), NEW c \in CompilerType, NEW d,
         SamePool(c, d), NEW r, NEW todo, NEW X, NEW Y,
         Decodable(fs, FunctionObject(c)) /\ ConstantsFit(FunctionObject(c))
           /\ Carries(fs, r, FunctionObject(c)) =>
           /\ Grows(fs, c, d, X, Y)
           /\ X \subseteq AllPending(todo) /\ Pending(r) \ Y \subseteq AllPending(todo)
           /\ \A q \in todo : Carries(fs, q, FunctionObject(d))
  PROVE  Advances(fs, r, c, d, todo)
BY SamePoolRicher DEF Advances, SamePool

\* Where the code of a function ends an instruction may begin.
LEMMA EndIsStart ==
  ASSUME NEW fs, NEW c \in CompilerType, Decodable(fs, FunctionObject(c))
  PROVE  Len(c.byte_code) \in Starts(fs, FunctionObject(c))
BY StartsDecode, Seen DEF Decoded

\* A jump that is left open, and the pop behind it.
LEMMA LeaveOpen ==
  ASSUME NEW fs \in Seq(FunctionType), NEW c \in CompilerType, NEW op \in Jump
  PROVE  LET jumping == EmitJump(c, op)
             d == Emit(jumping, Op("OP_POP"))
             offset == JumpOffset(jumping)
         IN  /\ SamePool(c, d)
             /\ Decodable(fs, FunctionObject(c)) =>
                  /\ Grows(fs, c, d, {offset}, {}) /\ offset \in Jumps(fs, FunctionObject(d))
                  /\ offset \in Int /\ offset # NoExit
<1> DEFINE jumping == EmitJump(c, op)
           d == Emit(jumping, Op("OP_POP"))
           offset == JumpOffset(jumping)
<1>1. SamePool(c, c)
  BY DEF SamePool
<1>2. SamePool(c, jumping)
  BY <1>1, SamePoolHere
<1>3. SamePool(c, d)
  BY <1>2, SamePoolHere, PopOps DEF PlainOps
<1>4. ASSUME Decodable(fs, FunctionObject(c))
      PROVE  /\ Grows(fs, c, d, {offset}, {}) /\ offset \in Jumps(fs, FunctionObject(d))
             /\ offset \in Int /\ offset # NoExit
  <2>1. /\ Grows(fs, c, jumping, {offset}, {}) /\ offset \in Jumps(fs, FunctionObject(jumping))
        /\ offset = Len(c.byte_code) + 1
    BY <1>4, JumpGrows
  <2> HIDE DEF jumping, offset
  <2>2. jumping \in CompilerType /\ Decodable(fs, FunctionObject(jumping))
    BY <2>1, GrowsOn
  <2>3. Grows(fs, jumping, d, {}, {})
    BY <2>2, PlainGrows, PopOps
  <2> HIDE DEF d
  <2>4. Grows(fs, c, d, {offset}, {})
    BY <2>1, <2>3, GrowsThen
  <2>5. offset \in Jumps(fs, FunctionObject(d))
    BY <2>1, <2>2, <2>3, GrowsOn
  <2>6. offset \in Int /\ offset # NoExit
    <3>1. Len(c.byte_code) \in Nat
      BY Seen
    <3>2. QED
      BY <2>1, <3>1 DEF NoExit
  <2>7. QED
    BY <2>4, <2>5, <2>6
<1>5. QED
  BY <1>3, <1>4

\* The end of a loop.
LEMMA CloseLoopGrows ==
  ASSUME NEW fs \in Seq(FunctionType), NEW c \in CompilerType, NEW loop,
         loop.exit \in Int, loop.loop_start \in Int
  PROVE  LET d == CloseLoop(c, loop) IN
         /\ SamePool(c, d)
         /\ /\ Decodable(fs, FunctionObject(c)) /\ loop.loop_start \in Starts(fs, FunctionObject(c))
            /\ {loop.exit} \ {NoExit} \subseteq Jumps(fs, FunctionObject(c))
            => Grows(fs, c, d, {}, {loop.exit} \ {NoExit})
<1> DEFINE looped == EmitLoop(c, loop.loop_start)
           patched == PatchJump(looped, loop.exit)
           popped == Emit(patched, Op("OP_POP"))
           d == CloseLoop(c, loop)
<1>1. SamePool(c, looped) /\ SamePool(c, patched) /\ SamePool(c, popped)
  <2>1. SamePool(c, c)
    BY DEF SamePool
  <2>2. SamePool(c, looped)
    BY <2>1, SamePoolHere
  <2>3. SamePool(c, patched)
    BY <2>2, SamePoolHere
  <2>4. QED
    BY <2>2, <2>3, SamePoolHere, PopOps DEF PlainOps
<1>2. d = IF loop.exit = NoExit THEN looped ELSE popped
  BY DEF CloseLoop
<1>3. ASSUME Decodable(fs, FunctionObject(c)), loop.loop_start \in Starts(fs, FunctionObject(c)),
             {loop.exit} \ {NoExit} \subseteq Jumps(fs, FunctionObject(c))
      PROVE  Grows(fs, c, d, {}, {loop.exit} \ {NoExit})
  <2>1. Grows(fs, c, looped, {}, {})
    BY <1>3, LoopGrows
  <2> HIDE DEF looped, d
  <2>2. CASE loop.exit = NoExit
    <3>1. {loop.exit} \ {NoExit} = {}
      BY <2>2
    <3>2. QED
      BY <1>2, <2>1, <2>2, <3>1
  <2>3. CASE loop.exit # NoExit
    <3>1. {loop.exit} \ {NoExit} = {loop.exit}
      BY <2>3
    <3>2. looped \in CompilerType /\ Decodable(fs, FunctionObject(looped))
          /\ loop.exit \in Jumps(fs, FunctionObject(looped))
      BY <1>3, <2>1, <3>1, GrowsOn
    <3>3. Grows(fs, looped, patched, {}, {loop.exit})
      BY <3>2, PatchGrows
    <3> HIDE DEF patched
    <3>4. Grows(fs, c, patched, {}, {loop.exit})
      BY <2>1, <3>2, <3>3, GrowsThen
    <3>5. patched \in CompilerType /\ Decodable(fs, FunctionObject(patched))
      BY <3>2, <3>3, GrowsOn
    <3>6. Grows(fs, patched, popped, {}, {})
      BY <3>5, PlainGrows, PopOps
    <3> HIDE DEF popped
    <3>7. Grows(fs, c, popped, {}, {loop.exit})
      BY <3>4, <3>5, <3>6, GrowsThen
    <3>8. QED
      BY <1>2, <2>3, <3>1, <3>7
  <2>4. QED
    BY <2>2, <2>3
<1>4. QED
  BY <1>1, <1>2, <1>3

-------------------------------------------------------------------------------
(***************************************************************************)
(* Statements.                                                             *)
(***************************************************************************)
\* A statement that leaves the code alone, and enters rules that rely on nothing
\* or emit an instruction without an operand.
LEMMA BeginSame ==
  ASSUME CompilerInv, CodeInv, StatementExpected,
         NEW d \in CompilerType, SameCode(Cur, d), NEW next, NEW todo, Todo(next, todo),
         Begin(WithLast(d), next),
         \A q \in todo : \/ q.rule \in FreeRule \ {"script", "function", "define"}
                         \/ \E op \in PlainOps : q = Emits(Op(op))
  PROVE  CodeInv'
<1>1. \A q \in todo : q.rule \notin {"script", "function", "define"}
  BY RuleNeeds
<1>2. \A q \in todo : Carries(functions, q, FunctionObject(d))
  <2>1. \A q \in todo : q.rule \in FreeRule => Carries(functions, q, FunctionObject(d))
    BY FreeRules, FreeCarries
  <2>2. \A op \in PlainOps : Carries(functions, Emits(Op(op)), FunctionObject(d))
    BY Seen, EmittableOps, RuleNeeds
  <2>3. QED
    BY <2>1, <2>2
<1>3. Pending(Rule("statement")) = {}
  BY FreeRules, FreeCarries DEF FreeRule
<1>4. Advances(functions, Rule("statement"), Cur, d, todo)
  BY <1>2, <1>3, CodeHere, AdvanceSame
<1>5. InLoop \/ At("declaration") \/ At("statement")
  BY DEF StatementExpected
<1>6. \A i \in 1..Len(next) : next[i] \in todo
  BY DEF Todo
<1>7. QED
  BY <1>1, <1>4, <1>5, <1>6, CodeBegin

LEMMA PlainStatementCode ==
  ASSUME CompilerInv, CodeInv, PrintStatement \/ ExpressionStatement \/ IfStatement
  PROVE  CodeInv'
<1>1. Here \in CompilerType /\ SameCode(Cur, Here)
  BY CodeHere
<1>2. ASSUME NEW op \in PlainOps, StatementExpected,
             Begin(WithLast(Here), <<Expression, Emits(Op(op))>>)
      PROVE  CodeInv'
  <2>1. Todo(<<Expression, Emits(Op(op))>>, {Expression, Emits(Op(op))})
    BY Todos
  <2>2. QED
    BY <1>1, <1>2, <2>1, FreeRules, BeginSame DEF FreeRule
<1>3. ASSUME StatementExpected, Begin(WithLast(Here), <<Expression, Rule("then")>>)
      PROVE  CodeInv'
  <2>1. Todo(<<Expression, Rule("then")>>, {Expression, Rule("then")})
    BY Todos
  <2>2. QED
    BY <1>1, <1>3, <2>1, FreeRules, BeginSame DEF FreeRule
<1>4. "OP_PRINT" \in PlainOps /\ "OP_POP" \in PlainOps
  BY OpCodeNames DEF PlainOps, IndexOps
<1>5. QED
  BY <1>2, <1>3, <1>4 DEF PrintStatement, ExpressionStatement, IfStatement

LEMMA ErrorCode ==
  ASSUME CodeInv, ReportError
  PROVE  CodeInv'
BY DEF ReportError, CodeInv, Coded

LEMMA ReturnStatementCode ==
  ASSUME CompilerInv, CodeInv, ReturnStatement
  PROVE  CodeInv'
<1> DEFINE nil == Emit(Here, Op("OP_NIL"))
           d   == Emit(Here, Op("OP_NIL") \o Op("OP_RETURN"))
           fs  == functions
<1>1. /\ Here \in CompilerType /\ SameCode(Cur, Here) /\ Cur \in CompilerType
      /\ fs \in Seq(FunctionType)
  BY CodeHere
<1>2. StatementExpected
  BY Expected DEF ReturnStatement
<1>3. CASE Begin(WithLast(d), <<>>)
  <2>1. Op("OP_NIL") \in Seq(0..255) /\ Op("OP_RETURN") \in Seq(0..255)
    BY OpBytes, PopOps DEF PlainOps
  <2>2. \A s, t \in Seq(0..255) : s \o t \in Seq(0..255)
    OBVIOUS
  <2>3. SamePool(Here, nil) /\ nil.byte_code = Here.byte_code \o Op("OP_NIL")
        /\ SamePool(Here, d) /\ d.byte_code = Here.byte_code \o (Op("OP_NIL") \o Op("OP_RETURN"))
    BY <1>1, <2>1, <2>2, EmitCode
  <2>4. Regroups(Here.byte_code, Op("OP_NIL"), Op("OP_RETURN"))
    BY <1>1, <2>1, Seen, Regrouped
  <2> HIDE DEF nil, d
  <2>5. Behind(Here, nil, Op("OP_NIL")) /\ Behind(nil, d, Op("OP_RETURN"))
    BY <2>3, <2>4 DEF Behind, Regroups, SamePool
  <2>6. nil \in CompilerType /\ d \in CompilerType
    BY <2>3 DEF SamePool
  <2>7. ASSUME Decodable(fs, FunctionObject(Cur))
        PROVE  Grows(fs, Cur, d, {}, {})
    <3>1. Grows(fs, Cur, Here, {}, {})
      BY <1>1, <2>7, SameCodeGrows, SameCodeHere, SamePoolRicher DEF SameCode
    <3>2. Decodable(fs, FunctionObject(Here))
      BY <1>1, <3>1, GrowsOn
    <3>3. Grows(fs, Here, nil, {}, {})
      BY <1>1, <2>5, <2>6, <3>2, PopOps, BehindPlain DEF Grows
    <3>4. Decodable(fs, FunctionObject(nil))
      BY <1>1, <3>3, GrowsOn
    <3>5. Grows(fs, nil, d, {}, {})
      BY <1>1, <2>5, <2>6, <3>4, PopOps, BehindPlain DEF Grows
    <3>6. Grows(fs, Cur, nil, {}, {})
      BY <1>1, <3>1, <3>3, GrowsThen
    <3>7. QED
      BY <1>1, <3>5, <3>6, GrowsThen
  <2>8. SamePool(Cur, d)
    BY <1>1, <2>3 DEF SamePool, SameCode
  <2>9. Pending(Rule("statement")) = {}
    BY FreeRules, FreeCarries DEF FreeRule
  <2>10. Advances(fs, Rule("statement"), Cur, d, {})
    BY <1>1, <2>7, <2>8, <2>9, AdvanceGrown
  <2>11. Todo(<<>>, {})
    BY Todos
  <2>12. InLoop \/ At("declaration") \/ At("statement")
    BY <1>2 DEF StatementExpected
  <2>13. QED
    BY <1>3, <2>10, <2>11, <2>12, CodeBegin
<1>4. CASE Begin(WithLast(Here), <<Expression, Emits(Op("OP_RETURN"))>>)
  <2>1. Todo(<<Expression, Emits(Op("OP_RETURN"))>>, {Expression, Emits(Op("OP_RETURN"))})
    BY Todos
  <2>2. QED
    BY <1>1, <1>2, <1>4, <2>1, FreeRules, BeginSame, PopOps DEF FreeRule
<1>5. QED
  BY <1>3, <1>4, ErrorCode DEF ReturnStatement

LEMMA BlockCode ==
  ASSUME CompilerInv, CodeInv, Block
  PROVE  CodeInv'
<1>1. Here \in CompilerType /\ SameCode(Cur, Here) /\ Scoped(Here)
  BY CodeHere
<1>2. BeginScope(Here) \in CompilerType /\ SameCode(Cur, BeginScope(Here))
  <2>1. SameCode(Here, BeginScope(Here))
    BY <1>1, SameCodeHere DEF SameCode
  <2>2. QED
    BY <1>1, <2>1, BeginScopeScoped DEF Continues, SameCode
<1>3. Todo(<<Rule("block")>>, {Rule("block")})
  BY Todos
<1>4. StatementExpected /\ Begin(WithLast(BeginScope(Here)), <<Rule("block")>>)
  BY DEF Block
<1>5. QED
  BY <1>2, <1>3, <1>4, FreeRules, BeginSame DEF FreeRule

LEMMA WhileStatementCode ==
  ASSUME CompilerInv, CodeInv, WhileStatement
  PROVE  CodeInv'
<1> DEFINE loop == Loop("while", Len(Cur.byte_code), NoExit)
           todo == {Expression, loop}
           fs   == functions
<1>1. /\ Here \in CompilerType /\ SameCode(Cur, Here) /\ Cur \in CompilerType
      /\ fs \in Seq(FunctionType)
  BY CodeHere
<1>2. loop.rule = "while" /\ Pending(loop) = {}
      /\ \A f : Len(Cur.byte_code) \in Starts(fs, f) => Carries(fs, loop, f)
  BY RuleNeeds DEF LoopRule, ExitRule
<1>3. ASSUME Decodable(fs, FunctionObject(Cur))
      PROVE  \A q \in todo : Carries(fs, q, FunctionObject(Here))
  <2>1. Decodable(fs, FunctionObject(Here))
    BY <1>1, <1>3, SameCodeGrows, SameCodeHere, SamePoolRicher DEF SameCode, Grows, Follows
  <2>2. Len(Cur.byte_code) \in Starts(fs, FunctionObject(Here))
    BY <1>1, <2>1, EndIsStart DEF SameCode
  <2> HIDE DEF loop
  <2>3. QED
    BY <1>2, <2>2, FreeRules, FreeCarries
<1>4. Pending(Rule("statement")) = {}
  BY FreeRules, FreeCarries DEF FreeRule
<1>5. Todo(<<Expression, loop>>, todo)
  BY Todos
<1>6. \A q \in todo : q.rule \notin {"script", "function", "define"}
  BY <1>2, FreeRules
<1>7. (InLoop \/ At("declaration") \/ At("statement")) /\ Begin(WithLast(Here), <<Expression, loop>>)
  BY DEF WhileStatement, StatementExpected
<1> HIDE DEF todo, loop, fs
<1>8. Advances(fs, Rule("statement"), Cur, Here, todo)
  BY <1>1, <1>3, <1>4, AdvanceSame
<1>9. \A i \in 1..Len(<<Expression, loop>>) : <<Expression, loop>>[i] \in todo
  BY <1>5 DEF Todo
<1>10. QED
  BY <1>5, <1>6, <1>7, <1>8, <1>9, CodeBegin DEF fs

LEMMA RuleRelies ==
  ASSUME NEW r
  PROVE  /\ r.rule \in {"patch", "else"} => Pending(r) = {r.offset}
         /\ r.rule \in ExitRule => Pending(r) = {r.exit} \ {NoExit} /\ Returns(r) = {r.loop_start}
         /\ r.rule \in {"while", "forExit"} => Pending(r) = {} /\ Returns(r) = {r.loop_start}
         /\ r.rule = "forLoop" => Pending(r) = {r.body_jump} /\ Returns(r) = {r.loop_start}
         /\ r.rule = "emit" => Pending(r) = {}
         /\ \A fs, f : Carries(fs, r, f) => /\ Pending(r) \subseteq Jumps(fs, f)
                                            /\ Returns(r) \subseteq Starts(fs, f)
                                            /\ r.rule = "emit" => Emittable(f, r.bytes)
BY DEF Pending, Returns, Carries, LoopRule, ExitRule

\* A rule that leaves no others.
LEMMA EndsCode ==
  ASSUME CompilerInv, CodeInv, rules # <<>>, Head(rules).rule \notin {"script", "function"},
         NEW d, Continue(WithLast(d), <<>>), SamePool(Cur, d),
         Decodable(functions, FunctionObject(Cur)) /\ ConstantsFit(FunctionObject(Cur))
           /\ Carries(functions, Head(rules), FunctionObject(Cur)) =>
           Grows(functions, Cur, d, {}, Pending(Head(rules)))
  PROVE  CodeInv'
<1>1. Advances(functions, Head(rules), Cur, d, {})
  <2>1. {} \subseteq AllPending({}) /\ Pending(Head(rules)) \ Pending(Head(rules)) \subseteq AllPending({})
    OBVIOUS
  <2>2. functions \in Seq(FunctionType) /\ Cur \in CompilerType
    BY CodeHere
  <2>3. QED
    BY <2>1, <2>2, AdvanceGrown
<1>2. Todo(<<>>, {})
  BY Todos
<1>3. QED
  BY <1>1, <1>2, CodeContinue

LEMMA LeaveCode ==
  ASSUME CompilerInv, CodeInv, rules # <<>>, Head(rules).rule \in ScopedRule,
         NEW c, Keeps(Cur, c), SamePool(Cur, c), Continue(WithLast(EndScope(c)), <<>>),
         Decodable(functions, FunctionObject(Cur))
           /\ Carries(functions, Head(rules), FunctionObject(Cur)) =>
           Grows(functions, Cur, c, {}, Pending(Head(rules)))
  PROVE  CodeInv'
<1>1. functions \in Seq(FunctionType) /\ Cur \in CompilerType /\ Scoped(Cur)
  BY CodeHere
<1>2. Cur.current_scope_depth > 0 /\ Settled(Cur)
  BY InScopeRule
<1>3. /\ c \in CompilerType /\ Scoped(c) /\ Settled(c) /\ c.current_scope_depth > 0
  BY <1>1, <1>2, KeepsContinues DEF Keeps, Continues, Settled
<1>4. /\ SamePool(c, EndScope(c))
      /\ Decodable(functions, FunctionObject(c)) => Grows(functions, c, EndScope(c), {}, {})
  BY <1>1, <1>3, EndScopeGrows
<1>5. SamePool(Cur, EndScope(c))
  BY <1>4 DEF SamePool
<1>6. ASSUME Decodable(functions, FunctionObject(Cur)),
             Carries(functions, Head(rules), FunctionObject(Cur))
      PROVE  Grows(functions, Cur, EndScope(c), {}, Pending(Head(rules)))
  <2>1. Grows(functions, Cur, c, {}, Pending(Head(rules)))
    BY <1>6
  <2>2. Grows(functions, c, EndScope(c), {}, {})
    BY <1>1, <1>4, <2>1, GrowsOn
  <2>3. QED
    BY <1>1, <2>1, <2>2, GrowsThen
<1>7. Head(rules).rule \notin {"script", "function"}
  BY DEF ScopedRule
<1>8. QED
  BY <1>5, <1>6, <1>7, EndsCode

LEMMA EndBlockCode ==
  ASSUME CompilerInv, CodeInv, EndBlock
  PROVE  CodeInv'
<1>1. rules # <<>> /\ Head(rules).rule = "block" /\ Continue(WithLast(EndScope(Cur)), <<>>)
  BY DEF EndBlock, At
<1>2. Head(rules).rule \in ScopedRule /\ Head(rules).rule \in FreeRule
  BY <1>1 DEF ScopedRule, FreeRule
<1>3. Keeps(Cur, Cur) /\ SamePool(Cur, Cur) /\ Pending(Head(rules)) = {}
  BY <1>2, Emitting, CodeHere, FreeRules, FreeCarries DEF SamePool
<1>4. Decodable(functions, FunctionObject(Cur)) => Grows(functions, Cur, Cur, {}, {})
  BY CodeHere, SameCodeGrows, <1>3, SamePoolRicher
<1>5. QED
  BY <1>1, <1>2, <1>3, <1>4, LeaveCode

LEMMA CloseLoopCode ==
  ASSUME CompilerInv, rules # <<>>, Head(rules).rule \in {"endWhile", "endFor"}
  PROVE  LET c == CloseLoop(Cur, Head(rules)) IN
         /\ Keeps(Cur, c) /\ SamePool(Cur, c)
         /\ Decodable(functions, FunctionObject(Cur))
              /\ Carries(functions, Head(rules), FunctionObject(Cur)) =>
              Grows(functions, Cur, c, {}, Pending(Head(rules)))
<1> DEFINE r == Head(rules)
<1>1. r \in RuleType /\ r.rule \in {"endWhile", "endFor"}
  BY HeadType
<1>2. \E i, j \in Int : r = Loop(r.rule, i, j) /\ i = r.loop_start /\ j = r.exit
  BY <1>1, RuleFields
<1>3. Keeps(Cur, CloseLoop(Cur, r))
  BY <1>1, <1>2, Emitting, LoopEmitters
<1>4. functions \in Seq(FunctionType) /\ Cur \in CompilerType
  BY CodeHere
<1>5. Pending(r) = {r.exit} \ {NoExit} /\ Returns(r) = {r.loop_start}
  BY <1>1, RuleRelies DEF ExitRule
<1> HIDE DEF r
<1>6. r.exit \in Int /\ r.loop_start \in Int
  BY <1>2
<1> DEFINE c == CloseLoop(Cur, r)
           fs == functions
<1>7. /\ SamePool(Cur, c)
      /\ Decodable(fs, FunctionObject(Cur)) /\ r.loop_start \in Starts(fs, FunctionObject(Cur))
         /\ {r.exit} \ {NoExit} \subseteq Jumps(fs, FunctionObject(Cur))
         => Grows(fs, Cur, c, {}, {r.exit} \ {NoExit})
  BY <1>4, <1>6, CloseLoopGrows
<1> HIDE DEF c, fs
<1>8. Carries(fs, r, FunctionObject(Cur)) =>
        /\ r.loop_start \in Starts(fs, FunctionObject(Cur))
        /\ {r.exit} \ {NoExit} \subseteq Jumps(fs, FunctionObject(Cur))
  BY <1>5, RuleRelies
<1>9. QED
  BY <1>3, <1>5, <1>7, <1>8 DEF r, c, fs

LEMMA EndLoopsCode ==
  ASSUME CompilerInv, CodeInv, EndWhile \/ EndFor
  PROVE  CodeInv'
<1>1. rules # <<>> /\ Head(rules).rule \in {"endWhile", "endFor"}
  BY DEF EndWhile, EndFor, At
<1> DEFINE c == CloseLoop(Cur, Head(rules))
<1>2. /\ Keeps(Cur, c) /\ SamePool(Cur, c)
      /\ Decodable(functions, FunctionObject(Cur))
           /\ Carries(functions, Head(rules), FunctionObject(Cur)) =>
           Grows(functions, Cur, c, {}, Pending(Head(rules)))
  BY <1>1, CloseLoopCode
<1>3. CASE EndWhile
  <2>1. Continue(WithLast(c), <<>>)
    BY <1>3 DEF EndWhile
  <2> HIDE DEF c
  <2>2. QED
    BY <1>1, <1>2, <2>1, EndsCode
<1>4. CASE EndFor
  <2>1. Continue(WithLast(EndScope(c)), <<>>) /\ Head(rules).rule \in ScopedRule
    BY <1>4 DEF EndFor, At, ScopedRule
  <2> HIDE DEF c
  <2>2. QED
    BY <1>1, <1>2, <2>1, LeaveCode
<1>5. QED
  BY <1>3, <1>4

\* A rule that leaves a jump open and has a rule of todo patch it.
LEMMA OpensCode ==
  ASSUME CompilerInv, CodeInv, rules # <<>>, Head(rules).rule \notin {"script", "function"},
         NEW op \in Jump, Pending(Head(rules)) = {}, NEW next, NEW todo, Todo(next, todo),
         Continue(WithLast(Emit(EmitJump(Cur, op), Op("OP_POP"))), next),
         \A q \in todo : q.rule \notin {"script", "function", "define"},
         LET d == Emit(EmitJump(Cur, op), Op("OP_POP"))
             offset == JumpOffset(EmitJump(Cur, op))
             f == FunctionObject(Cur)
             g == FunctionObject(d)
         IN  /\ Returns(Head(rules)) \subseteq Starts(functions, f)
             /\ Starts(functions, f) \subseteq Starts(functions, g)
             /\ offset \in Jumps(functions, g) /\ offset \in Int /\ offset # NoExit
             => offset \in AllPending(todo) /\ \A q \in todo : Carries(functions, q, g)
  PROVE  CodeInv'
<1> DEFINE fs == functions
           d == Emit(EmitJump(Cur, op), Op("OP_POP"))
           offset == JumpOffset(EmitJump(Cur, op))
<1>1. fs \in Seq(FunctionType) /\ Cur \in CompilerType
  BY CodeHere
<1>2. /\ SamePool(Cur, d)
      /\ Decodable(fs, FunctionObject(Cur)) =>
           /\ Grows(fs, Cur, d, {offset}, {}) /\ offset \in Jumps(fs, FunctionObject(d))
           /\ offset \in Int /\ offset # NoExit
  BY <1>1, LeaveOpen
<1>3. /\ Returns(Head(rules)) \subseteq Starts(fs, FunctionObject(Cur))
      /\ Starts(fs, FunctionObject(Cur)) \subseteq Starts(fs, FunctionObject(d))
      /\ offset \in Jumps(fs, FunctionObject(d)) /\ offset \in Int /\ offset # NoExit
      => offset \in AllPending(todo) /\ \A q \in todo : Carries(fs, q, FunctionObject(d))
  OBVIOUS
<1>4. Continue(WithLast(d), next)
  OBVIOUS
<1> HIDE DEF d, offset
<1>5. ASSUME Decodable(fs, FunctionObject(Cur)), Carries(fs, Head(rules), FunctionObject(Cur))
      PROVE  /\ Grows(fs, Cur, d, {offset}, {})
             /\ {offset} \subseteq AllPending(todo) /\ Pending(Head(rules)) \ {} \subseteq AllPending(todo)
             /\ \A q \in todo : Carries(fs, q, FunctionObject(d))
  <2>1. Starts(fs, FunctionObject(Cur)) \subseteq Starts(fs, FunctionObject(d))
    BY <1>1, <1>2, <1>5, GrowsOn
  <2>2. Returns(Head(rules)) \subseteq Starts(fs, FunctionObject(Cur))
    BY <1>5, RuleRelies
  <2>3. QED
    BY <1>2, <1>3, <1>5, <2>1, <2>2
<1>6. Advances(fs, Head(rules), Cur, d, todo)
  BY <1>1, <1>2, <1>5, AdvanceGrown
<1> HIDE DEF fs
<1>7. QED
  BY <1>4, <1>6, CodeContinue DEF fs

LEMMA ThenCode ==
  ASSUME CompilerInv, CodeInv, Then
  PROVE  CodeInv'
<1> DEFINE jumping == EmitJump(Cur, "OP_JUMP_IF_FALSE")
           offset  == JumpOffset(jumping)
           else    == [rule |-> "else", offset |-> offset]
           todo    == {Rule("declaration"), else}
           next    == <<Rule("declaration"), else>>
<1>1. rules # <<>> /\ Head(rules).rule = "then"
  BY DEF Then, At
<1>2. Continue(WithLast(Emit(jumping, Op("OP_POP"))), next)
  BY DEF Then
<1>3. Todo(next, todo)
  BY Todos
<1>4. else.rule = "else" /\ Pending(else) = {offset}
      /\ \A fs, f : offset \in Jumps(fs, f) => Carries(fs, else, f)
  BY RuleNeeds
<1>5. Free(Rule("declaration")) /\ Rule("declaration").rule = "declaration"
  BY FreeRules DEF FreeRule
<1>6. Pending(Head(rules)) = {} /\ "OP_JUMP_IF_FALSE" \in Jump
  BY <1>1, FreeRules, FreeCarries DEF FreeRule, Jump
<1> HIDE DEF next, else
<1>7. \A g : offset \in Jumps(functions, g) =>
        offset \in AllPending(todo) /\ \A q \in todo : Carries(functions, q, g)
  BY <1>4, <1>5, FreeCarries DEF AllPending
<1>8. \A q \in todo : q.rule \notin {"script", "function", "define"}
  BY <1>4, <1>5
<1> HIDE DEF todo
<1>9. QED
  BY <1>1, <1>2, <1>3, <1>6, <1>7, <1>8, OpensCode

LEMMA ElseCode ==
  ASSUME CompilerInv, CodeInv, Else
  PROVE  CodeInv'
<1> DEFINE fs        == functions
           r         == Head(rules)
           jumping   == EmitJump(Cur, "OP_JUMP")
           patched   == PatchJump(jumping, r.offset)
           otherwise == Emit(patched, Op("OP_POP"))
           offset    == JumpOffset(jumping)
           done      == PatchJump(otherwise, offset)
<1>1. rules # <<>> /\ r.rule = "else" /\ r.offset \in Int
  BY HeadType, RuleFields DEF Else, At
<1>2. fs \in Seq(FunctionType) /\ Cur \in CompilerType
  BY CodeHere
<1>3. Pending(r) = {r.offset} /\ \A f : Carries(fs, r, f) => r.offset \in Jumps(fs, f)
  BY <1>1, RuleRelies
<1>4. SamePool(Cur, otherwise) /\ SamePool(Cur, done) /\ offset \in Int
  <2>1. SamePool(Cur, jumping) /\ offset \in Int
    BY <1>2, SamePoolHere, Emitting, EmittedHere DEF SamePool, Jump
  <2>2. SamePool(Cur, patched)
    BY <1>1, <1>2, <2>1, SamePoolHere
  <2>3. SamePool(Cur, otherwise)
    BY <1>2, <2>2, SamePoolHere, PopOps DEF PlainOps
  <2> HIDE DEF otherwise, offset
  <2>4. QED
    BY <1>2, <2>1, <2>3, SamePoolHere
<1>5. /\ Continue(WithLast(done), <<>>)
         \/ Continue(WithLast(otherwise), <<Rule("statement"), Patches(offset)>>)
  BY DEF Else
<1>6. ASSUME Decodable(fs, FunctionObject(Cur)), Carries(fs, r, FunctionObject(Cur))
      PROVE  /\ Grows(fs, Cur, otherwise, {offset}, {r.offset})
             /\ Grows(fs, Cur, done, {}, {r.offset})
             /\ offset \in Jumps(fs, FunctionObject(otherwise))
  <2>1. Grows(fs, Cur, jumping, {offset}, {}) /\ offset \in Jumps(fs, FunctionObject(jumping))
    BY <1>2, <1>6, JumpGrows DEF Jump
  <2> HIDE DEF jumping, offset
  <2>2. /\ jumping \in CompilerType /\ Decodable(fs, FunctionObject(jumping))
        /\ r.offset \in Jumps(fs, FunctionObject(jumping))
    BY <1>2, <1>3, <1>6, <2>1, GrowsOn
  <2>3. Grows(fs, jumping, patched, {}, {r.offset})
    BY <1>2, <2>2, PatchGrows
  <2> HIDE DEF patched
  <2>4. patched \in CompilerType /\ Decodable(fs, FunctionObject(patched))
        /\ offset \in Jumps(fs, FunctionObject(patched))
    BY <2>1, <2>2, <2>3, GrowsOn
  <2>5. Grows(fs, patched, otherwise, {}, {})
    BY <1>2, <2>4, PlainGrows, PopOps
  <2> HIDE DEF otherwise
  <2>6. otherwise \in CompilerType /\ Decodable(fs, FunctionObject(otherwise))
        /\ offset \in Jumps(fs, FunctionObject(otherwise))
    BY <2>4, <2>5, GrowsOn
  <2>7. Grows(fs, otherwise, done, {}, {offset})
    BY <1>2, <2>6, PatchGrows
  <2> HIDE DEF done, fs, r
  <2>8. Grows(fs, Cur, patched, {offset}, {r.offset})
    <3>1. ({offset} \ {r.offset}) \cup {} \subseteq {offset} /\ {r.offset} \subseteq {} \cup {r.offset}
      OBVIOUS
    <3>2. QED
      BY <1>2, <2>1, <2>3, <3>1, GrowsThen
  <2>9. Grows(fs, Cur, otherwise, {offset}, {r.offset})
    <3>1. ({offset} \ {}) \cup {} \subseteq {offset} /\ {r.offset} \subseteq {r.offset} \cup {}
      OBVIOUS
    <3>2. QED
      BY <1>2, <2>4, <2>5, <2>8, <3>1, GrowsThen
  <2>10. Grows(fs, Cur, done, {}, {r.offset})
    <3>1. ({offset} \ {offset}) \cup {} \subseteq {} /\ {r.offset} \subseteq {r.offset} \cup {offset}
      OBVIOUS
    <3>2. QED
      BY <1>2, <2>6, <2>7, <2>9, <3>1, GrowsThen
  <2>11. QED
    BY <2>6, <2>9, <2>10
<1> HIDE DEF otherwise, done, offset
<1>7. CASE Continue(WithLast(done), <<>>)
  <2>1. r.rule \notin {"script", "function"}
    BY <1>1
  <2>2. Decodable(fs, FunctionObject(Cur)) /\ Carries(fs, r, FunctionObject(Cur)) =>
          Grows(fs, Cur, done, {}, Pending(r))
    BY <1>3, <1>6
  <2>3. QED
    BY <1>1, <1>4, <1>7, <2>1, <2>2, EndsCode
<1>8. CASE Continue(WithLast(otherwise), <<Rule("statement"), Patches(offset)>>)
  <2> DEFINE todo == {Rule("statement"), Patches(offset)}
  <2>1. Todo(<<Rule("statement"), Patches(offset)>>, todo)
    BY Todos
  <2>2. Patches(offset).rule = "patch" /\ Pending(Patches(offset)) = {offset}
        /\ \A f : offset \in Jumps(fs, f) => Carries(fs, Patches(offset), f)
    BY RuleNeeds DEF Patches
  <2>3. Free(Rule("statement")) /\ Rule("statement").rule = "statement"
    BY FreeRules DEF FreeRule
  <2>4. {offset} \subseteq AllPending(todo)
    BY <2>2 DEF AllPending
  <2>5. \A f : offset \in Jumps(fs, f) => \A q \in todo : Carries(fs, q, f)
    BY <2>2, <2>3, FreeCarries
  <2>6. \A q \in todo : q.rule \notin {"script", "function", "define"}
    BY <2>2, <2>3
  <2> HIDE DEF todo, fs, r
  <2>7. Pending(r) \ {r.offset} \subseteq AllPending(todo)
    BY <1>3
  <2>8. Advances(fs, r, Cur, otherwise, todo)
    <3>1. Decodable(fs, FunctionObject(Cur)) /\ ConstantsFit(FunctionObject(Cur))
            /\ Carries(fs, r, FunctionObject(Cur)) =>
            /\ Grows(fs, Cur, otherwise, {offset}, {r.offset})
            /\ {offset} \subseteq AllPending(todo) /\ Pending(r) \ {r.offset} \subseteq AllPending(todo)
            /\ \A q \in todo : Carries(fs, q, FunctionObject(otherwise))
      BY <1>6, <2>4, <2>5, <2>7
    <3>2. QED
      BY <1>2, <1>4, <3>1, SamePoolRicher DEF Advances, SamePool
  <2>9. r.rule \notin {"script", "function"}
    BY <1>1
  <2>10. QED
    BY <1>1, <1>8, <2>1, <2>6, <2>8, <2>9, CodeContinue DEF fs, r
<1>9. QED
  BY <1>5, <1>7, <1>8

\* A loop goes on behind its condition: the exit is open, and closed at its end.
LEMMA ExitCode ==
  ASSUME CompilerInv, CodeInv, rules # <<>>, Head(rules).rule \in {"while", "forExit"},
         NEW name \in {"endWhile", "forIncrement"}, NEW next, NEW todo, Todo(next, todo),
         [Head(rules) EXCEPT !.rule = name, !.exit = ExitOffset(Cur)] \in todo,
         \A q \in todo : \/ q = [Head(rules) EXCEPT !.rule = name, !.exit = ExitOffset(Cur)]
                         \/ q = Rule("statement"),
         Continue(WithLast(ExitJump(Cur)), next)
  PROVE  CodeInv'
<1> DEFINE r == Head(rules)
           exit == ExitOffset(Cur)
           loop == [r EXCEPT !.rule = name, !.exit = exit]
           fs == functions
<1>1. r \in RuleType /\ exit \in Int
  BY HeadType, Emitting, LoopEmitters
<1>2. loop = Loop(name, r.loop_start, exit)
  <2> HIDE DEF r, exit
  <2>1. r.rule \in {"while", "endWhile", "forIncrement", "forExit", "endFor"}
        /\ name \in {"while", "endWhile", "forIncrement", "forExit", "endFor"}
    BY DEF r
  <2>2. \A i \in Int : [r EXCEPT !.rule = name, !.exit = i] = Loop(name, r.loop_start, i)
    BY <1>1, <2>1, LoopUpdates
  <2>3. QED
    BY <1>1, <2>2
<1>3. Pending(r) = {} /\ Returns(r) = {r.loop_start} /\ r.rule \notin {"script", "function"}
  BY RuleRelies
<1>4. Continue(WithLast(Emit(EmitJump(Cur, "OP_JUMP_IF_FALSE"), Op("OP_POP"))), next)
      /\ exit = JumpOffset(EmitJump(Cur, "OP_JUMP_IF_FALSE")) /\ "OP_JUMP_IF_FALSE" \in Jump
  BY DEF ExitJump, ExitOffset, Jump
<1>5. loop \in todo /\ \A q \in todo : q = loop \/ q = Rule("statement")
  OBVIOUS
<1>6. /\ loop.rule = name /\ Pending(loop) = {exit} \ {NoExit}
      /\ \A f : r.loop_start \in Starts(fs, f) /\ Pending(loop) \subseteq Jumps(fs, f) => Carries(fs, loop, f)
  <2> HIDE DEF r, exit, loop, fs
  <2>1. name \in LoopRule \ {"forLoop"} /\ name \in ExitRule
    BY DEF LoopRule, ExitRule
  <2>2. QED
    BY <1>2, <2>1, RuleNeeds
<1> HIDE DEF loop, exit, fs
<1>7. Rule("statement").rule = "statement" /\ Free(Rule("statement"))
  BY FreeRules DEF FreeRule
<1>8. \A q \in todo : q.rule \notin {"script", "function", "define"}
  BY <1>5, <1>6, <1>7
<1>9. \A f, g : /\ Returns(r) \subseteq Starts(fs, f) /\ Starts(fs, f) \subseteq Starts(fs, g)
                /\ exit \in Jumps(fs, g) /\ exit \in Int /\ exit # NoExit
                => exit \in AllPending(todo) /\ \A q \in todo : Carries(fs, q, g)
  BY <1>3, <1>5, <1>6, <1>7, FreeCarries DEF AllPending
<1> HIDE DEF r
<1>10. QED
  BY <1>3, <1>4, <1>8, <1>9, OpensCode DEF fs, exit, r

LEMMA ConditionCode ==
  ASSUME CompilerInv, CodeInv, WhileBody \/ ForExit
  PROVE  CodeInv'
<1> DEFINE While == [Head(rules) EXCEPT !.rule = "endWhile", !.exit = ExitOffset(Cur)]
           For   == [Head(rules) EXCEPT !.rule = "forIncrement", !.exit = ExitOffset(Cur)]
<1>1. CASE WhileBody
  <2>1. rules # <<>> /\ Head(rules).rule = "while"
        /\ Continue(WithLast(ExitJump(Cur)), <<Rule("statement"), While>>)
    BY <1>1 DEF WhileBody, At
  <2>2. Todo(<<Rule("statement"), While>>, {Rule("statement"), While})
    BY Todos
  <2>3. QED
    BY <2>1, <2>2, ExitCode
<1>2. CASE ForExit
  <2>1. rules # <<>> /\ Head(rules).rule = "forExit"
        /\ Continue(WithLast(ExitJump(Cur)), <<For>>)
    BY <1>2 DEF ForExit, At
  <2>2. Todo(<<For>>, {For})
    BY Todos
  <2>3. QED
    BY <2>1, <2>2, ExitCode
<1>3. QED
  BY <1>1, <1>2

\* The current rule goes on in the same compiler.
LEMMA SameOn ==
  ASSUME CompilerInv, CodeInv, rules # <<>>, Head(rules).rule \notin {"script", "function"},
         NEW next, NEW todo, Todo(next, todo), Continue(compilers, next),
         \A q \in todo : q.rule \notin {"script", "function", "define"},
         Decodable(functions, FunctionObject(Cur)) /\ Carries(functions, Head(rules), FunctionObject(Cur)) =>
           /\ Pending(Head(rules)) \subseteq AllPending(todo)
           /\ \A q \in todo : Carries(functions, q, FunctionObject(Cur))
  PROVE  CodeInv'
<1>1. Continue(WithLast(Cur), next)
  BY OnlyLast
<1>2. Advances(functions, Head(rules), Cur, Cur, todo)
  BY CodeHere, AdvanceSame
<1>3. QED
  BY <1>1, <1>2, CodeContinue

LEMMA ForConditionCode ==
  ASSUME CompilerInv, CodeInv, ForCondition
  PROVE  CodeInv'
<1> DEFINE start == Len(Cur.byte_code)
           increment == Loop("forIncrement", start, NoExit)
           exit == Loop("forExit", start, NoExit)
           fs == functions
<1>1. rules # <<>> /\ Head(rules).rule = "for" /\ Pending(Head(rules)) = {}
  BY FreeRules, FreeCarries DEF ForCondition, At, FreeRule
<1>2. Continue(compilers, <<increment>>) \/ Continue(compilers, <<Expression, exit>>)
  BY DEF ForCondition
<1>3. /\ increment.rule = "forIncrement" /\ exit.rule = "forExit"
      /\ \A f : start \in Starts(fs, f) => Carries(fs, increment, f) /\ Carries(fs, exit, f)
  <2>1. {"forIncrement", "forExit"} \subseteq LoopRule \ {"forLoop"} /\ {NoExit} \ {NoExit} = {}
    BY DEF LoopRule, ExitRule
  <2> HIDE DEF start, fs
  <2>2. QED
    BY <2>1, RuleNeeds
<1>4. Decodable(fs, FunctionObject(Cur)) => start \in Starts(fs, FunctionObject(Cur))
  BY CodeHere, EndIsStart
<1> HIDE DEF start, increment, exit
<1>5. Free(Expression) /\ Expression.rule = "parsePrecedence"
  BY FreeRules
<1>6. Todo(<<increment>>, {increment}) /\ Todo(<<Expression, exit>>, {Expression, exit})
  BY Todos
<1>7. CASE Continue(compilers, <<increment>>)
  <2>1. Decodable(fs, FunctionObject(Cur)) => \A q \in {increment} : Carries(fs, q, FunctionObject(Cur))
    BY <1>3, <1>4
  <2>2. \A q \in {increment} : q.rule \notin {"script", "function", "define"}
    BY <1>3
  <2>3. Pending(Head(rules)) \subseteq AllPending({increment}) /\ Head(rules).rule \notin {"script", "function"}
    BY <1>1
  <2>4. QED
    BY <1>1, <1>6, <1>7, <2>1, <2>2, <2>3, SameOn
<1>8. CASE Continue(compilers, <<Expression, exit>>)
  <2>1. Decodable(fs, FunctionObject(Cur)) => \A q \in {Expression, exit} : Carries(fs, q, FunctionObject(Cur))
    BY <1>3, <1>4, <1>5, FreeCarries
  <2>2. \A q \in {Expression, exit} : q.rule \notin {"script", "function", "define"}
    BY <1>3, <1>5
  <2>3. Pending(Head(rules)) \subseteq AllPending({Expression, exit}) /\ Head(rules).rule \notin {"script", "function"}
    BY <1>1
  <2>4. QED
    BY <1>1, <1>6, <1>8, <2>1, <2>2, <2>3, SameOn
<1>9. QED
  BY <1>2, <1>7, <1>8

LEMMA ForIncrementCode ==
  ASSUME CompilerInv, CodeInv, ForIncrement
  PROVE  CodeInv'
<1> DEFINE r       == Head(rules)
           body    == [r EXCEPT !.rule = "endFor"]
           jumping == EmitJump(Cur, "OP_JUMP")
           offset  == JumpOffset(jumping)
           loop    == [rule |-> "forLoop", loop_start |-> body.loop_start, body_jump |-> offset]
           jumped  == [body EXCEPT !.loop_start = Len(jumping.byte_code)]
           fs      == functions
<1>1. /\ rules # <<>> /\ r.rule = "forIncrement" /\ r \in RuleType
      /\ r.loop_start \in Int /\ r.exit \in Int
  BY HeadType, RuleFields DEF ForIncrement, At
<1>2. fs \in Seq(FunctionType) /\ Cur \in CompilerType
  BY CodeHere
<1>3. \/ Continue(compilers, <<Rule("statement"), body>>)
      \/ Continue(WithLast(jumping), <<Expression, loop, Rule("statement"), jumped>>)
  BY DEF ForIncrement
<1>4. SamePool(Cur, jumping)
  <2>1. SamePool(Cur, Cur)
    BY <1>2 DEF SamePool
  <2>2. QED
    BY <1>2, <2>1, SamePoolHere DEF Jump
<1>5. Decodable(fs, FunctionObject(Cur)) =>
        /\ Grows(fs, Cur, jumping, {offset}, {}) /\ offset \in Jumps(fs, FunctionObject(jumping))
        /\ Len(jumping.byte_code) \in Starts(fs, FunctionObject(jumping))
        /\ Starts(fs, FunctionObject(Cur)) \subseteq Starts(fs, FunctionObject(jumping))
        /\ Jumps(fs, FunctionObject(Cur)) \subseteq Jumps(fs, FunctionObject(jumping))
  <2> SUFFICES ASSUME Decodable(fs, FunctionObject(Cur))
               PROVE  /\ Grows(fs, Cur, jumping, {offset}, {}) /\ offset \in Jumps(fs, FunctionObject(jumping))
                      /\ Len(jumping.byte_code) \in Starts(fs, FunctionObject(jumping))
                      /\ Starts(fs, FunctionObject(Cur)) \subseteq Starts(fs, FunctionObject(jumping))
                      /\ Jumps(fs, FunctionObject(Cur)) \subseteq Jumps(fs, FunctionObject(jumping))
    OBVIOUS
  <2>1. Grows(fs, Cur, jumping, {offset}, {}) /\ offset \in Jumps(fs, FunctionObject(jumping))
    BY <1>2, JumpGrows DEF Jump
  <2> HIDE DEF jumping, offset
  <2>2. QED
    BY <1>2, <2>1, GrowsOn, EndIsStart
<1>6. offset \in Int /\ Len(jumping.byte_code) \in Int
  BY <1>1, Emitting, EmittedHere
<1>7. body = Loop("endFor", r.loop_start, r.exit)
  BY <1>1, LoopUpdates
<1>8. jumped = Loop("endFor", Len(jumping.byte_code), r.exit)
  <2>1. \A i \in Int :
          [Loop("endFor", r.loop_start, r.exit) EXCEPT !.loop_start = i] = Loop("endFor", i, r.exit)
    BY <1>1, LoopUpdates
  <2> HIDE DEF body, jumping
  <2>2. QED
    BY <1>6, <1>7, <2>1, ZenonT(60)
<1>9. body.loop_start = r.loop_start
  BY <1>7 DEF Loop
<1> HIDE DEF body, jumping, offset, jumped
<1>10. /\ \A i, j : LET q == Loop("endFor", i, j) IN
            /\ q.rule = "endFor" /\ Pending(q) = {j} \ {NoExit}
            /\ \A f : i \in Starts(fs, f) /\ Pending(q) \subseteq Jumps(fs, f) => Carries(fs, q, f)
  <2>1. "endFor" \in LoopRule \ {"forLoop"} /\ "endFor" \in ExitRule
    BY DEF LoopRule, ExitRule
  <2>2. QED
    BY <2>1, RuleNeeds
<1>11. /\ body.rule = "endFor" /\ Pending(body) = {r.exit} \ {NoExit}
       /\ \A f : r.loop_start \in Starts(fs, f) /\ Pending(body) \subseteq Jumps(fs, f) => Carries(fs, body, f)
  BY <1>7, <1>10
<1>12. /\ jumped.rule = "endFor" /\ Pending(jumped) = {r.exit} \ {NoExit}
       /\ \A f : Len(jumping.byte_code) \in Starts(fs, f) /\ Pending(jumped) \subseteq Jumps(fs, f)
                 => Carries(fs, jumped, f)
  BY <1>8, <1>10
<1>13. /\ loop.rule = "forLoop" /\ Pending(loop) = {offset}
       /\ \A f : r.loop_start \in Starts(fs, f) /\ offset \in Jumps(fs, f) => Carries(fs, loop, f)
  BY <1>9, RuleNeeds
<1> HIDE DEF loop
<1>14. Pending(r) = {r.exit} \ {NoExit} /\ Returns(r) = {r.loop_start}
       /\ \A f : Carries(fs, r, f) => Pending(r) \subseteq Jumps(fs, f) /\ Returns(r) \subseteq Starts(fs, f)
  BY <1>1, RuleRelies DEF ExitRule
<1>15. /\ Free(Rule("statement")) /\ Rule("statement").rule = "statement"
       /\ Free(Expression) /\ Expression.rule = "parsePrecedence"
  BY FreeRules DEF FreeRule
<1>16. r.rule \notin {"script", "function"}
  BY <1>1
<1> HIDE DEF r
<1>17. CASE Continue(compilers, <<Rule("statement"), body>>)
  <2> DEFINE todo == {Rule("statement"), body}
  <2>1. Todo(<<Rule("statement"), body>>, todo)
    BY Todos
  <2>2. \A q \in todo : q.rule \notin {"script", "function", "define"}
    BY <1>11, <1>15
  <2>3. Carries(fs, r, FunctionObject(Cur)) =>
          /\ Pending(r) \subseteq AllPending(todo)
          /\ \A q \in todo : Carries(fs, q, FunctionObject(Cur))
    BY <1>11, <1>14, <1>15, FreeCarries DEF AllPending
  <2> HIDE DEF todo
  <2>4. QED
    BY <1>1, <1>16, <1>17, <2>1, <2>2, <2>3, SameOn DEF r, fs
<1>18. CASE Continue(WithLast(jumping), <<Expression, loop, Rule("statement"), jumped>>)
  <2> DEFINE todo == {Expression, loop, Rule("statement"), jumped}
  <2>1. Todo(<<Expression, loop, Rule("statement"), jumped>>, todo)
    BY Todos
  <2>2. \A q \in todo : q.rule \notin {"script", "function", "define"}
    BY <1>12, <1>13, <1>15
  <2>3. {offset} \subseteq AllPending(todo) /\ Pending(r) \subseteq AllPending(todo)
    BY <1>12, <1>13, <1>14 DEF AllPending
  <2>4. \A f : /\ r.loop_start \in Starts(fs, f) /\ offset \in Jumps(fs, f)
               /\ Len(jumping.byte_code) \in Starts(fs, f) /\ Pending(jumped) \subseteq Jumps(fs, f)
               => \A q \in todo : Carries(fs, q, f)
    BY <1>12, <1>13, <1>15, FreeCarries
  <2> HIDE DEF todo, fs
  <2>5. ASSUME Decodable(fs, FunctionObject(Cur)), Carries(fs, r, FunctionObject(Cur))
        PROVE  /\ Grows(fs, Cur, jumping, {offset}, {})
               /\ {offset} \subseteq AllPending(todo) /\ Pending(r) \ {} \subseteq AllPending(todo)
               /\ \A q \in todo : Carries(fs, q, FunctionObject(jumping))
    <3>1. r.loop_start \in Starts(fs, FunctionObject(Cur)) /\ Pending(r) \subseteq Jumps(fs, FunctionObject(Cur))
      BY <1>14, <2>5
    <3>2. Pending(jumped) = Pending(r)
      BY <1>12, <1>14
    <3>3. QED
      BY <1>5, <2>3, <2>4, <2>5, <3>1, <3>2
  <2>6. Advances(fs, r, Cur, jumping, todo)
    BY <1>2, <1>4, <2>5, AdvanceGrown
  <2>7. QED
    BY <1>1, <1>16, <1>18, <2>1, <2>2, <2>6, CodeContinue DEF r, fs
<1>19. QED
  BY <1>3, <1>17, <1>18

LEMMA ForLoopCode ==
  ASSUME CompilerInv, CodeInv, ForLoop
  PROVE  CodeInv'
<1> DEFINE r      == Head(rules)
           popped == Emit(Cur, Op("OP_POP"))
           looped == EmitLoop(popped, r.loop_start)
           d      == PatchJump(looped, r.body_jump)
           fs     == functions
<1>1. /\ rules # <<>> /\ r.rule = "forLoop" /\ r.loop_start \in Int /\ r.body_jump \in Int
  BY HeadType, RuleFields DEF ForLoop, At
<1>2. fs \in Seq(FunctionType) /\ Cur \in CompilerType
  BY CodeHere
<1>3. Continue(WithLast(d), <<>>)
  BY DEF ForLoop
<1>4. Pending(r) = {r.body_jump} /\ Returns(r) = {r.loop_start}
      /\ \A f : Carries(fs, r, f) => Pending(r) \subseteq Jumps(fs, f) /\ Returns(r) \subseteq Starts(fs, f)
  BY <1>1, RuleRelies
<1>5. SamePool(Cur, d)
  <2>1. SamePool(Cur, Cur)
    BY <1>2 DEF SamePool
  <2>2. SamePool(Cur, popped)
    BY <1>2, <2>1, SamePoolHere, PopOps DEF PlainOps
  <2> HIDE DEF popped, r
  <2>3. SamePool(Cur, looped)
    BY <1>1, <1>2, <2>2, SamePoolHere
  <2> HIDE DEF looped
  <2>4. QED
    BY <1>1, <1>2, <2>3, SamePoolHere
<1>6. r.rule \notin {"script", "function"}
  BY <1>1
<1>7. ASSUME Decodable(fs, FunctionObject(Cur)), Carries(fs, r, FunctionObject(Cur))
      PROVE  Grows(fs, Cur, d, {}, Pending(r))
  <2> HIDE DEF r
  <2>1. r.body_jump \in Jumps(fs, FunctionObject(Cur)) /\ r.loop_start \in Starts(fs, FunctionObject(Cur))
    BY <1>4, <1>7
  <2>2. Grows(fs, Cur, popped, {}, {})
    BY <1>2, <1>7, PlainGrows, PopOps
  <2> HIDE DEF popped
  <2>3. /\ popped \in CompilerType /\ Decodable(fs, FunctionObject(popped))
        /\ r.body_jump \in Jumps(fs, FunctionObject(popped))
        /\ r.loop_start \in Starts(fs, FunctionObject(popped))
    BY <1>2, <2>1, <2>2, GrowsOn
  <2>4. Grows(fs, popped, looped, {}, {})
    BY <1>2, <2>3, LoopGrows
  <2> HIDE DEF looped
  <2>5. /\ looped \in CompilerType /\ Decodable(fs, FunctionObject(looped))
        /\ r.body_jump \in Jumps(fs, FunctionObject(looped))
    BY <2>3, <2>4, GrowsOn
  <2>6. Grows(fs, looped, d, {}, {r.body_jump})
    BY <1>2, <2>5, PatchGrows
  <2> HIDE DEF d
  <2>7. Grows(fs, Cur, looped, {}, {})
    BY <1>2, <2>2, <2>4, GrowsThen
  <2>8. Grows(fs, Cur, d, {}, {r.body_jump})
    BY <1>2, <2>6, <2>7, GrowsThen
  <2>9. QED
    BY <1>4, <2>8
<1> HIDE DEF d
<1>8. QED
  BY <1>1, <1>3, <1>5, <1>6, <1>7, EndsCode

-------------------------------------------------------------------------------
(***************************************************************************)
(* Expressions.                                                            *)
(***************************************************************************)
OperandRule == {"parsePrecedence", "infix", "argument", "grouping"}

\* A rule that may be entered while an expression is compiled to f.
Harmless(f, q) ==
  \/ q.rule \in OperandRule
  \/ \E bytes : q = Emits(bytes) /\ Emittable(f, bytes)

LEMMA HarmlessCarries ==
  ASSUME NEW f, NEW q, Harmless(f, q)
  PROVE  q.rule \notin {"script", "function", "define"} /\ \A fs : Carries(fs, q, f)
<1>1. CASE q.rule \in OperandRule
  <2>1. Free(q)
    BY <1>1, FreeRules DEF OperandRule, FreeRule
  <2>2. QED
    BY <1>1, <2>1, FreeCarries DEF OperandRule
<1>2. ASSUME NEW bytes, q = Emits(bytes), Emittable(f, bytes)
      PROVE  q.rule \notin {"script", "function", "define"} /\ \A fs : Carries(fs, q, f)
  BY <1>2, RuleNeeds
<1>3. QED
  BY <1>1, <1>2 DEF Harmless

\* Such a rule leaves code behind in which nothing is open.
LEMMA OperandOn ==
  ASSUME CompilerInv, CodeInv, rules # <<>>, Head(rules).rule \in OperandRule,
         NEW d \in CompilerType, NEW next, NEW todo, Todo(next, todo), Continue(WithLast(d), next),
         \A q \in todo : Harmless(FunctionObject(d), q),
         Richer(FunctionObject(Cur), FunctionObject(d)),
         Decodable(functions, FunctionObject(Cur)) /\ ConstantsFit(FunctionObject(d)) =>
           Grows(functions, Cur, d, {}, {})
  PROVE  CodeInv'
<1>1. Pending(Head(rules)) = {} /\ Head(rules).rule \notin {"script", "function"}
  <2>1. Head(rules).rule \in FreeRule
    BY DEF OperandRule, FreeRule
  <2>2. QED
    BY <2>1, FreeRules, FreeCarries DEF OperandRule
<1>2. \A q \in todo : q.rule \notin {"script", "function", "define"}
                      /\ \A fs : Carries(fs, q, FunctionObject(d))
  BY HarmlessCarries
<1>3. {} \cup ({} \ {}) \subseteq AllPending(todo)
  OBVIOUS
<1>4. Advances(functions, Head(rules), Cur, d, todo)
  BY <1>1, <1>2, <1>3 DEF Advances
<1>5. QED
  BY <1>1, <1>2, <1>4, CodeContinue

LEMMA OperandStays ==
  ASSUME CompilerInv, CodeInv, rules # <<>>, Head(rules).rule \in OperandRule,
         NEW next, NEW todo, Todo(next, todo), Continue(compilers, next),
         \A q \in todo : Harmless(FunctionObject(Cur), q)
  PROVE  CodeInv'
<1>1. functions \in Seq(FunctionType) /\ Cur \in CompilerType /\ SameCode(Cur, Cur)
  BY CodeHere
<1>2. Richer(FunctionObject(Cur), FunctionObject(Cur))
  BY <1>1, SameCodeHere, SamePoolRicher
<1>3. Decodable(functions, FunctionObject(Cur)) => Grows(functions, Cur, Cur, {}, {})
  BY <1>1, <1>2, SameCodeGrows
<1>4. Continue(WithLast(Cur), next)
  BY OnlyLast
<1>5. QED
  BY <1>1, <1>2, <1>3, <1>4, OperandOn

LEMMA OperandEmits ==
  ASSUME CompilerInv, CodeInv, rules # <<>>, Head(rules).rule \in OperandRule,
         NEW bytes \in Seq(0..255), Emittable(FunctionObject(Cur), bytes),
         NEW next, NEW todo, Todo(next, todo), Continue(WithLast(Emit(Cur, bytes)), next),
         \A q \in todo : q.rule \in OperandRule
  PROVE  CodeInv'
<1> DEFINE d == Emit(Cur, bytes)
<1>1. functions \in Seq(FunctionType) /\ Cur \in CompilerType
  BY CodeHere
<1>2. SamePool(Cur, d)
  BY <1>1, EmitCode
<1>3. d \in CompilerType /\ Richer(FunctionObject(Cur), FunctionObject(d))
      /\ (ConstantsFit(FunctionObject(d)) <=> ConstantsFit(FunctionObject(Cur)))
  BY <1>1, <1>2, SamePoolRicher DEF SamePool
<1>4. Decodable(functions, FunctionObject(Cur)) /\ ConstantsFit(FunctionObject(Cur)) =>
        Grows(functions, Cur, d, {}, {})
  BY <1>1, EmitGrows
<1>5. Continue(WithLast(d), next) /\ \A q \in todo : Harmless(FunctionObject(d), q)
  BY DEF Harmless
<1> HIDE DEF d
<1>6. QED
  BY <1>3, <1>4, <1>5, OperandOn

LEMMA RicherThen ==
  ASSUME NEW c \in CompilerType, NEW d \in CompilerType, NEW e \in CompilerType,
         Richer(FunctionObject(c), FunctionObject(d)), Richer(FunctionObject(d), FunctionObject(e))
  PROVE  Richer(FunctionObject(c), FunctionObject(e))
<1> DEFINE f == FunctionObject(c)
           g == FunctionObject(d)
           h == FunctionObject(e)
<1>1. /\ Len(f.constant_pool) \in Nat /\ Len(g.constant_pool) \in Nat /\ Len(h.constant_pool) \in Nat
      /\ f.upvalue_count \in Nat /\ g.upvalue_count \in Nat /\ h.upvalue_count \in Nat
  BY Seen
<1>2. Richer(f, g) /\ Richer(g, h)
  OBVIOUS
<1> HIDE DEF f, g, h
<1>3. \A i \in 1..Len(f.constant_pool) : i \in 1..Len(g.constant_pool)
  BY <1>1, <1>2 DEF Richer
<1>4. Richer(f, h)
  BY <1>1, <1>2, <1>3 DEF Richer
<1>5. QED
  BY <1>4 DEF f, h

\* A constant, and an instruction that may refer to it.
LEMMA PooledGrows ==
  ASSUME NEW fs \in Seq(FunctionType), NEW c \in CompilerType, NEW value \in ConstantValue,
         NEW bytes \in Seq(0..255), Emittable(FunctionObject(Pool(c, value)), bytes)
  PROVE  LET d == Emit(Pool(c, value), bytes) IN
         /\ d \in CompilerType /\ Richer(FunctionObject(c), FunctionObject(d))
         /\ Decodable(fs, FunctionObject(c)) /\ ConstantsFit(FunctionObject(d)) => Grows(fs, c, d, {}, {})
<1> DEFINE pooled == Pool(c, value)
           d == Emit(pooled, bytes)
<1>1. /\ pooled \in CompilerType /\ pooled.byte_code = c.byte_code
      /\ Richer(FunctionObject(c), FunctionObject(pooled))
  BY PoolCode
<1>2. Emittable(FunctionObject(pooled), bytes)
  OBVIOUS
<1> HIDE DEF pooled
<1>3. SamePool(pooled, d)
  BY <1>1, EmitCode
<1>4. /\ d \in CompilerType /\ Richer(FunctionObject(pooled), FunctionObject(d))
      /\ (ConstantsFit(FunctionObject(d)) <=> ConstantsFit(FunctionObject(pooled)))
  BY <1>1, <1>3, SamePoolRicher DEF SamePool
<1>5. Richer(FunctionObject(c), FunctionObject(d))
  BY <1>1, <1>4, RicherThen
<1>6. ASSUME Decodable(fs, FunctionObject(c)), ConstantsFit(FunctionObject(d))
      PROVE  Grows(fs, c, d, {}, {})
  <2>1. Grows(fs, c, pooled, {}, {})
    BY <1>1, <1>6, SameCodeGrows
  <2>2. Decodable(fs, FunctionObject(pooled))
    BY <2>1, GrowsOn
  <2>3. Grows(fs, pooled, d, {}, {})
    BY <1>1, <1>2, <1>4, <1>6, <2>2, EmitGrows
  <2> HIDE DEF d
  <2>4. QED
    BY <2>1, <2>3, GrowsThen
<1>7. QED
  BY <1>4, <1>5, <1>6 DEF pooled

LEMMA InfixHere ==
  ASSUME CompilerInv, OperandExpected
  PROVE  /\ rules # <<>> /\ Head(rules).rule \in OperandRule /\ Infix.rule \in OperandRule
         /\ [Head(rules) EXCEPT !.level = "UNARY"].rule \in OperandRule
         /\ Expression.rule \in OperandRule /\ Rule("grouping").rule \in OperandRule
<1>1. rules # <<>> /\ Head(rules).rule = "parsePrecedence" /\ Head(rules) \in RuleType
  BY HeadType DEF OperandExpected, At
<1>2. Infix.rule = "infix" /\ [Head(rules) EXCEPT !.level = "UNARY"].rule = "parsePrecedence"
  BY <1>1, InfixType DEF Infix
<1>3. Expression.rule = "parsePrecedence" /\ Rule("grouping").rule = "grouping"
  BY DEF Expression, Rule
<1>4. QED
  BY <1>1, <1>2, <1>3 DEF OperandRule

LEMMA LiteralCode ==
  ASSUME CompilerInv, CodeInv,
         \/ \E op \in {"OP_NIL", "OP_TRUE", "OP_FALSE"} : Literal(op)
         \/ \E n \in Numbers : NumberLiteral(n)
  PROVE  CodeInv'
<1>1. functions \in Seq(FunctionType) /\ Cur \in CompilerType
  BY CodeHere
<1>2. Todo(<<Infix>>, {Infix})
  BY Todos
<1>3. ASSUME NEW op \in {"OP_NIL", "OP_TRUE", "OP_FALSE"}, Literal(op)
      PROVE  CodeInv'
  <2>1. op \in PlainOps /\ op \in OpCodeName
    BY OpCodeNames DEF PlainOps, IndexOps
  <2>2. Op(op) \in Seq(0..255) /\ Emittable(FunctionObject(Cur), Op(op))
    BY <1>1, <2>1, OpType, Seen, EmittableOps
  <2>3. OperandExpected /\ Continue(WithLast(Emit(Cur, Op(op))), <<Infix>>)
    BY <1>3 DEF Literal, Terminal
  <2>4. QED
    BY <1>2, <2>2, <2>3, InfixHere, OperandEmits
<1>4. ASSUME NEW n \in Numbers, NumberLiteral(n)
      PROVE  CodeInv'
  <2> DEFINE index  == Len(Cur.constant_pool)
             pooled == Pool(Cur, Number(n))
             bytes  == OpIndex("OP_CONSTANT", index)
             d      == Emit(pooled, bytes)
  <2>1. Number(n) \in ConstantValue /\ Number(n).type = "double" /\ index \in Nat
    BY <1>1, ConstantTypes, Seen DEF Number
  <2>2. /\ pooled \in CompilerType /\ LastConstant(pooled) = index
        /\ LastConstant(pooled) < Len(pooled.constant_pool)
        /\ pooled.constant_pool[LastConstant(pooled) + 1] = Number(n)
    BY <1>1, <2>1, PoolCode
  <2>3. bytes \in Seq(0..255)
    <3>1. "OP_CONSTANT" \in OpCodeName
      BY OpCodeNames
    <3> HIDE DEF index
    <3>2. QED
      BY <2>1, <3>1, OpBytes
  <2>4. Emittable(FunctionObject(pooled), bytes)
    <3>1. "OP_CONSTANT" \in IndexOps \ (Jump \cup {"OP_LOOP", "OP_CLOSURE"})
      BY DEF IndexOps, Jump
    <3>2. ConstantType("OP_CONSTANT") = {"double"}
      BY DEF ConstantType
    <3> HIDE DEF pooled, index
    <3>3. FunctionObject(pooled).constant_pool = pooled.constant_pool
      BY <2>2, Seen
    <3>4. QED
      BY <2>1, <2>2, <3>1, <3>2, <3>3 DEF Emittable
  <2>5. OperandExpected /\ Continue(WithLast(d), <<Infix>>)
    BY <1>4 DEF NumberLiteral, Terminal, AddConstant
  <2>6. /\ d \in CompilerType /\ Richer(FunctionObject(Cur), FunctionObject(d))
        /\ Decodable(functions, FunctionObject(Cur)) /\ ConstantsFit(FunctionObject(d)) =>
             Grows(functions, Cur, d, {}, {})
    <3> HIDE DEF bytes
    <3>1. QED
      BY <1>1, <2>1, <2>3, <2>4, PooledGrows
  <2> HIDE DEF d
  <2>7. \A q \in {Infix} : Harmless(FunctionObject(d), q)
    BY <2>5, InfixHere DEF Harmless
  <2>8. QED
    BY <1>2, <2>5, <2>6, <2>7, InfixHere, OperandOn
<1>5. QED
  BY <1>3, <1>4

\* An operand that leaves the code of the other compilers alone, and may add to
\* their upvalues and constants.
LEMMA NamedOn ==
  ASSUME CompilerInv, CodeInv, OperandExpected, NEW cs \in Seq(CompilerType),
         Len(cs) = Len(compilers), \A k \in 1..Len(compilers) : Enriched(compilers[k], cs[k]),
         NEW ds \in Seq(CompilerType), Len(ds) = Len(compilers),
         \A k \in 1..(Len(compilers) - 1) : ds[k] = cs[k],
         NEW next, NEW todo, Todo(next, todo), Continue(ds, next),
         \/ ds = cs
         \/ \E bytes \in Seq(0..255) :
              /\ ds[Len(compilers)] = Emit(cs[Len(compilers)], bytes)
              /\ Emittable(FunctionObject(cs[Len(compilers)]), bytes),
         \A q \in todo : Harmless(FunctionObject(ds[Len(compilers)]), q)
  PROVE  CodeInv'
<1> DEFINE n == Len(compilers)
           c == cs[n]
           d == ds[n]
<1>1. /\ rules # <<>> /\ Head(rules).rule = "parsePrecedence"
      /\ compilers \in Seq(CompilerType) /\ n \in Nat \ {0}
  BY DEF OperandExpected, At, CompilerInv, TypeOK
<1>2. functions \in Seq(FunctionType) /\ Cur \in CompilerType /\ Cur = compilers[n]
  BY CodeHere DEF Cur, Last
<1>3. n \in 1..n /\ \A k \in 1..(n - 1) : k \in 1..n
  BY <1>1
<1>4. Enriched(Cur, c) /\ c \in CompilerType /\ d \in CompilerType /\ Last(ds) = d
  BY <1>2, <1>3 DEF Last, Enriched
<1>5. \A k \in 1..(n - 1) : Enriched(compilers[k], ds[k])
  BY <1>3
<1>6. /\ Richer(FunctionObject(c), FunctionObject(d))
      /\ Decodable(functions, FunctionObject(c)) /\ ConstantsFit(FunctionObject(c)) => Grows(functions, c, d, {}, {})
      /\ (ConstantsFit(FunctionObject(d)) => ConstantsFit(FunctionObject(c)))
  <2>1. CASE d = c
    <3>1. Richer(FunctionObject(c), FunctionObject(c))
      BY <1>4, SamePoolRicher DEF SamePool
    <3>2. Decodable(functions, FunctionObject(c)) => Grows(functions, c, c, {}, {})
      BY <1>2, <1>4, <3>1, SameCodeGrows
    <3>3. QED
      BY <2>1, <3>1, <3>2
  <2>2. ASSUME NEW bytes \in Seq(0..255), d = Emit(c, bytes), Emittable(FunctionObject(c), bytes)
        PROVE  /\ Richer(FunctionObject(c), FunctionObject(d))
               /\ Decodable(functions, FunctionObject(c)) /\ ConstantsFit(FunctionObject(c)) => Grows(functions, c, d, {}, {})
               /\ (ConstantsFit(FunctionObject(d)) => ConstantsFit(FunctionObject(c)))
    <3>1. SamePool(c, d)
      BY <1>4, <2>2, EmitCode
    <3>2. QED
      BY <1>2, <1>4, <2>2, <3>1, SamePoolRicher, EmitGrows
  <2>3. QED
    BY <2>1, <2>2
<1>7. Richer(FunctionObject(Cur), FunctionObject(d))
      /\ (Decodable(functions, FunctionObject(Cur)) /\ ConstantsFit(FunctionObject(d)) =>
            Grows(functions, Cur, d, {}, {}))
  <2>1. Richer(FunctionObject(Cur), FunctionObject(c)) /\ c.byte_code = Cur.byte_code
    BY <1>4 DEF Enriched
  <2>2. Decodable(functions, FunctionObject(Cur)) => Grows(functions, Cur, c, {}, {})
    BY <1>2, <1>4, <2>1, SameCodeGrows
  <2>3. ASSUME Decodable(functions, FunctionObject(Cur)), ConstantsFit(FunctionObject(d))
        PROVE  Grows(functions, Cur, d, {}, {})
    <3>1. Decodable(functions, FunctionObject(c))
      BY <1>2, <2>2, <2>3, GrowsOn
    <3>2. QED
      BY <1>2, <1>6, <2>2, <2>3, <3>1, GrowsThen
  <2>4. Richer(FunctionObject(Cur), FunctionObject(d))
    BY <1>2, <1>4, <1>6, <2>1, RicherThen
  <2>5. QED
    BY <2>3, <2>4
<1>8. Pending(Head(rules)) = {} /\ Head(rules).rule \notin {"script", "function"}
  BY <1>1, FreeRules, FreeCarries DEF FreeRule
<1>9. \A q \in todo : q.rule \notin {"script", "function", "define"}
                      /\ \A fs : Carries(fs, q, FunctionObject(d))
  BY HarmlessCarries
<1>10. {} \cup ({} \ {}) \subseteq AllPending(todo)
  OBVIOUS
<1>11. Advances(functions, Head(rules), Cur, d, todo)
  BY <1>4, <1>7, <1>8, <1>9, <1>10 DEF Advances
<1>12. compilers' = ds /\ rules' = next \o Tail(rules) /\ UNCHANGED functions
  BY DEF Continue
<1>13. Rests(rules, Head(rules), Tail(rules))
  BY <1>8 DEF Rests
<1>14. \A i \in 1..Len(next) : next[i].rule # "define"
  BY <1>9 DEF Todo
<1>15. \A q \in todo : q.rule \notin {"script", "function"}
  BY <1>9
<1>16. /\ compilers' \in Seq(CompilerType) /\ Len(compilers') = Len(compilers)
       /\ \A k \in 1..(Len(compilers) - 1) : Enriched(compilers[k], compilers'[k])
       /\ Last(compilers') = d
  BY <1>4, <1>5, <1>12
<1>17. Advances(functions, Head(rules), Cur, Last(compilers'), todo)
  BY <1>11, <1>16
<1> HIDE DEF n
<1>18. QED
  BY <1>1, <1>12, <1>13, <1>14, <1>15, <1>16, <1>17, CodeOn

LEMMA NamedCodeOn ==
  ASSUME CompilerInv, CodeInv, OperandExpected, NEW name, name \in Names \/ Owner(name) # 0,
         LET named == NamedVariable(name)
         IN  \/ Terminal(EmitLast(named.compilers, named.get))
             \/ Continue(named.compilers, <<Expression, Emits(named.set), Infix>>)
  PROVE  CodeInv'
<1> DEFINE named == NamedVariable(name)
           n     == Len(compilers)
           c     == named.compilers[n]
           es    == EmitLast(named.compilers, named.get)
           d     == Emit(c, named.get)
<1>1. /\ \A k \in 1..n : Enriched(compilers[k], named.compilers[k])
      /\ Len(named.compilers) = n
      /\ Emittable(FunctionObject(c), named.get) /\ Emittable(FunctionObject(c), named.set)
  BY NamedCode
<1>2. /\ named.compilers \in Seq(CompilerType) /\ es \in Seq(CompilerType) /\ Len(es) = n
      /\ named.get \in Seq(0..255)
  BY NamedHere DEF Resolved
<1>3. n \in Nat \ {0}
  BY DEF CompilerInv, TypeOK
<1>4. \/ Continue(es, <<Infix>>)
      \/ Continue(named.compilers, <<Expression, Emits(named.set), Infix>>)
  BY DEF Terminal
<1>5. es[n] = d /\ \A k \in 1..(n - 1) : es[k] = named.compilers[k]
  <2>1. es = [named.compilers EXCEPT ![n] = Emit(@, named.get)]
    BY <1>1 DEF EmitLast
  <2> HIDE DEF es, named, n
  <2>2. n \in 1..n /\ \A k \in 1..(n - 1) : k \in 1..n /\ k # n
    BY <1>3
  <2>3. \A k \in 1..n : k \in DOMAIN named.compilers
    BY <1>1, <1>2
  <2>4. QED
    BY <2>1, <2>2, <2>3
<1>6. Todo(<<Infix>>, {Infix}) /\ Todo(<<Expression, Emits(named.set), Infix>>, {Expression, Emits(named.set), Infix})
  BY Todos
<1> HIDE DEF named, es, d, c
<1>7. CASE Continue(es, <<Infix>>)
  <2>1. \A q \in {Infix} : Harmless(FunctionObject(d), q)
    BY InfixHere DEF Harmless
  <2>2. \E bytes \in Seq(0..255) : es[n] = Emit(named.compilers[n], bytes)
                                   /\ Emittable(FunctionObject(named.compilers[n]), bytes)
    BY <1>1, <1>2, <1>5 DEF c, d
  <2>3. \A q \in {Infix} : Harmless(FunctionObject(es[n]), q)
    BY <1>5, <2>1
  <2> DEFINE todo == {Infix}
             next == <<Infix>>
             cs == named.compilers
  <2>4. /\ Len(cs) = n /\ \A k \in 1..n : Enriched(compilers[k], cs[k])
        /\ \A k \in 1..(n - 1) : es[k] = cs[k]
        /\ Todo(next, todo) /\ Continue(es, next) /\ \A q \in todo : Harmless(FunctionObject(es[n]), q)
        /\ cs \in Seq(CompilerType)
        /\ \E bytes \in Seq(0..255) : es[n] = Emit(cs[n], bytes) /\ Emittable(FunctionObject(cs[n]), bytes)
    BY <1>1, <1>2, <1>5, <1>6, <1>7, <2>2, <2>3
  <2> HIDE DEF todo, next, cs
  <2>5. QED
    BY <1>2, <2>4, NamedOn
<1>8. CASE Continue(named.compilers, <<Expression, Emits(named.set), Infix>>)
  <2>1. \A q \in {Expression, Emits(named.set), Infix} : Harmless(FunctionObject(c), q)
    BY <1>1, InfixHere DEF Harmless
  <2> DEFINE todo == {Expression, Emits(named.set), Infix}
             next == <<Expression, Emits(named.set), Infix>>
             cs == named.compilers
  <2>2. /\ Len(cs) = n /\ \A k \in 1..n : Enriched(compilers[k], cs[k])
        /\ \A k \in 1..(n - 1) : cs[k] = cs[k]
        /\ Todo(next, todo) /\ Continue(cs, next) /\ \A q \in todo : Harmless(FunctionObject(cs[n]), q)
        /\ cs \in Seq(CompilerType)
    BY <1>1, <1>2, <1>6, <1>8, <2>1 DEF c
  <2> HIDE DEF todo, next, cs
  <2>3. QED
    BY <2>2, NamedOn
<1>9. QED
  BY <1>4, <1>7, <1>8

LEMMA VariableCode ==
  ASSUME CompilerInv, CodeInv, (\E name \in Names : Variable(name)) \/ This
  PROVE  CodeInv'
<1>1. ASSUME NEW name \in Names, Variable(name)
      PROVE  CodeInv'
  <2>1. OperandExpected
    BY <1>1 DEF Variable
  <2>2. \/ ReportError
        \/ LET named == NamedVariable(name)
           IN  \/ Terminal(EmitLast(named.compilers, named.get))
               \/ Continue(named.compilers, <<Expression, Emits(named.set), Infix>>)
    BY <1>1 DEF Variable
  <2>3. QED
    BY <2>1, <2>2, ErrorCode, NamedCodeOn
<1>2. CASE This
  <2>1. OperandExpected
    BY <1>2 DEF This
  <2>2. \/ ReportError
        \/ Cur.within_class /\ Terminal(EmitLast(NamedVariable("this").compilers, NamedVariable("this").get))
    BY <1>2 DEF This
  <2>3. QED
    BY <2>1, <2>2, ErrorCode, ThisIsDeclared, NamedCodeOn
<1>3. QED
  BY <1>1, <1>2

LEMMA GroupingCode ==
  ASSUME CompilerInv, CodeInv, Grouping \/ EndGrouping \/ EndExpression
  PROVE  CodeInv'
<1>1. CASE Grouping
  <2>1. OperandExpected /\ Continue(compilers, <<Expression, Rule("grouping"), Infix>>)
    BY <1>1 DEF Grouping
  <2>2. Todo(<<Expression, Rule("grouping"), Infix>>, {Expression, Rule("grouping"), Infix})
    BY Todos
  <2>3. \A q \in {Expression, Rule("grouping"), Infix} : Harmless(FunctionObject(Cur), q)
    BY <2>1, InfixHere DEF Harmless
  <2>4. QED
    BY <2>1, <2>2, <2>3, InfixHere, OperandStays
<1>2. CASE EndGrouping \/ EndExpression
  <2>1. rules # <<>> /\ Head(rules).rule \in OperandRule /\ Continue(compilers, <<>>)
    BY <1>2 DEF EndGrouping, EndExpression, At, OperandRule
  <2>2. Todo(<<>>, {})
    BY Todos
  <2>3. QED
    BY <2>1, <2>2, OperandStays
<1>3. QED
  BY <1>1, <1>2

LEMMA UnaryCode ==
  ASSUME CompilerInv, CodeInv, NEW op \in {"OP_NEGATE", "OP_NOT"}, Unary(op)
  PROVE  CodeInv'
<1> DEFINE operand == [Head(rules) EXCEPT !.level = "UNARY"]
<1>1. OperandExpected /\ Continue(compilers, <<operand, Emits(Op(op)), Infix>>)
  BY DEF Unary
<1>2. operand.rule \in OperandRule /\ Infix.rule \in OperandRule
  BY <1>1, InfixHere
<1> HIDE DEF operand
<1>3. Todo(<<operand, Emits(Op(op)), Infix>>, {operand, Emits(Op(op)), Infix})
  BY Todos
<1>4. Emittable(FunctionObject(Cur), Op(op))
  <2>1. op \in PlainOps
    BY OpCodeNames DEF PlainOps, IndexOps
  <2>2. QED
    BY <2>1, CodeHere, Seen, EmittableOps
<1>5. \A q \in {operand, Emits(Op(op)), Infix} : Harmless(FunctionObject(Cur), q)
  BY <1>2, <1>4 DEF Harmless
<1>6. QED
  BY <1>1, <1>3, <1>5, InfixHere, OperandStays

\* Of an infix operator.
LEMMA OperatorHere ==
  ASSUME CompilerInv, NEW token, InfixFollows(token)
  PROVE  /\ rules # <<>> /\ Head(rules).rule = "infix" /\ Head(rules).rule \in OperandRule
         /\ Pending(Head(rules)) = {} /\ Free(Head(rules))
         /\ \A precedence : LET r == [rule |-> "parsePrecedence", level |-> precedence]
                            IN  r.rule \in OperandRule /\ Free(r)
<1>1. rules # <<>> /\ Head(rules).rule = "infix"
  BY DEF InfixFollows, At
<1>2. Free(Head(rules))
  BY <1>1, FreeRules DEF FreeRule
<1>3. \A precedence : LET r == [rule |-> "parsePrecedence", level |-> precedence]
                      IN  r.rule \in OperandRule /\ Free(r)
  BY FreeRules DEF FreeRule, OperandRule
<1>4. QED
  BY <1>1, <1>2, <1>3, FreeCarries DEF OperandRule

LEMMA BinaryCode ==
  ASSUME CompilerInv, CodeInv, NEW token \in DOMAIN BinaryOperator, Binary(token)
  PROVE  CodeInv'
<1> DEFINE operand == [rule |-> "parsePrecedence", level |-> Precedence[Binding(token) + 1]]
           after   == Emits(Op(BinaryOperator[token].op))
           r       == Head(rules)
<1>1. InfixFollows(token) /\ Continue(WithLast(Cur), <<operand, after, r>>)
  BY DEF Binary, Operand
<1>2. rules # <<>> /\ r.rule \in OperandRule /\ operand.rule \in OperandRule
  BY <1>1, OperatorHere
<1>3. BinaryOperator[token].op \in PlainOps
  <2>1. BinaryOperator[token].op \in
           {"OP_NOT_EQUAL", "OP_EQUAL", "OP_GREATER", "OP_GREATER_EQUAL", "OP_LESS",
            "OP_LESS_EQUAL", "OP_ADD", "OP_SUBTRACT", "OP_MULTIPLY", "OP_DIVIDE"}
    BY DEF BinaryOperator
  <2>2. QED
    BY <2>1, OpCodeNames DEF PlainOps, IndexOps
<1>4. Emittable(FunctionObject(Cur), Op(BinaryOperator[token].op))
  BY <1>3, CodeHere, Seen, EmittableOps
<1> HIDE DEF operand
<1>5. Todo(<<operand, after, r>>, {operand, after, r})
  BY Todos
<1>6. \A q \in {operand, after, r} : Harmless(FunctionObject(Cur), q)
  BY <1>2, <1>4 DEF Harmless
<1>7. Continue(compilers, <<operand, after, r>>)
  BY <1>1, OnlyLast
<1>8. QED
  BY <1>2, <1>5, <1>6, <1>7, OperandStays

LEMMA AndCode ==
  ASSUME CompilerInv, CodeInv, And
  PROVE  CodeInv'
<1> DEFINE jumping == EmitJump(Cur, "OP_JUMP_IF_FALSE")
           offset  == JumpOffset(jumping)
           operand == [rule |-> "parsePrecedence", level |-> "AND"]
           after   == Patches(offset)
           r       == Head(rules)
           todo    == {operand, after, r}
<1>1. /\ InfixFollows("and")
      /\ Continue(WithLast(Emit(jumping, Op("OP_POP"))), <<operand, after, r>>)
  BY DEF And, Operand
<1>2. rules # <<>> /\ r.rule = "infix" /\ Pending(r) = {} /\ Free(r)
      /\ operand.rule = "parsePrecedence" /\ Free(operand)
  BY <1>1, OperatorHere
<1>3. Todo(<<operand, after, r>>, todo)
  BY Todos
<1>4. after.rule = "patch" /\ Pending(after) = {offset}
      /\ \A fs, f : offset \in Jumps(fs, f) => Carries(fs, after, f)
  BY RuleNeeds DEF Patches
<1> HIDE DEF operand, after
<1>5. \A g : offset \in Jumps(functions, g) =>
        offset \in AllPending(todo) /\ \A q \in todo : Carries(functions, q, g)
  BY <1>2, <1>4, FreeCarries DEF AllPending
<1>6. \A q \in todo : q.rule \notin {"script", "function", "define"}
  BY <1>2, <1>4
<1> HIDE DEF todo
<1>7. "OP_JUMP_IF_FALSE" \in Jump
  BY DEF Jump
<1>8. r.rule \notin {"script", "function"}
  BY <1>2
<1>9. QED
  BY <1>1, <1>2, <1>3, <1>5, <1>6, <1>7, <1>8, OpensCode

LEMMA OrCode ==
  ASSUME CompilerInv, CodeInv, Or
  PROVE  CodeInv'
<1> DEFINE fs      == functions
           falsy   == EmitJump(Cur, "OP_JUMP_IF_FALSE")
           first   == JumpOffset(falsy)
           truthy  == EmitJump(falsy, "OP_JUMP")
           offset  == JumpOffset(truthy)
           patched == PatchJump(truthy, first)
           d       == Emit(patched, Op("OP_POP"))
           operand == [rule |-> "parsePrecedence", level |-> "OR"]
           after   == Patches(offset)
           r       == Head(rules)
           todo    == {operand, after, r}
<1>1. InfixFollows("or") /\ Continue(WithLast(d), <<operand, after, r>>)
  BY DEF Or, Operand
<1>2. rules # <<>> /\ r.rule = "infix" /\ Pending(r) = {} /\ Free(r)
      /\ operand.rule = "parsePrecedence" /\ Free(operand)
  BY <1>1, OperatorHere
<1>3. fs \in Seq(FunctionType) /\ Cur \in CompilerType
  BY CodeHere
<1>4. Todo(<<operand, after, r>>, todo)
  BY Todos
<1>5. SamePool(Cur, d)
  <2>1. SamePool(Cur, Cur)
    BY <1>3 DEF SamePool
  <2>2. SamePool(Cur, falsy) /\ first \in Int
    BY <1>3, <2>1, SamePoolHere, Emitting, EmittedHere DEF Jump
  <2> HIDE DEF falsy, first
  <2>3. SamePool(Cur, truthy)
    BY <1>3, <2>2, SamePoolHere DEF Jump
  <2> HIDE DEF truthy
  <2>4. SamePool(Cur, patched)
    BY <1>3, <2>2, <2>3, SamePoolHere
  <2> HIDE DEF patched
  <2>5. QED
    BY <1>3, <2>4, SamePoolHere, PopOps DEF PlainOps
<1>6. ASSUME Decodable(fs, FunctionObject(Cur))
      PROVE  Grows(fs, Cur, d, {offset}, {}) /\ offset \in Jumps(fs, FunctionObject(d))
  <2>1. Grows(fs, Cur, falsy, {first}, {}) /\ first \in Jumps(fs, FunctionObject(falsy))
    BY <1>3, <1>6, JumpGrows DEF Jump
  <2> HIDE DEF falsy, first
  <2>2. falsy \in CompilerType /\ Decodable(fs, FunctionObject(falsy))
    BY <1>3, <2>1, GrowsOn
  <2>3. Grows(fs, falsy, truthy, {offset}, {}) /\ offset \in Jumps(fs, FunctionObject(truthy))
    BY <1>3, <2>2, JumpGrows DEF Jump
  <2> HIDE DEF truthy, offset
  <2>4. /\ truthy \in CompilerType /\ Decodable(fs, FunctionObject(truthy))
        /\ first \in Jumps(fs, FunctionObject(truthy))
    BY <2>1, <2>2, <2>3, GrowsOn
  <2>5. Grows(fs, truthy, patched, {}, {first})
    BY <1>3, <2>4, PatchGrows
  <2> HIDE DEF patched
  <2>6. /\ patched \in CompilerType /\ Decodable(fs, FunctionObject(patched))
        /\ offset \in Jumps(fs, FunctionObject(patched))
    BY <2>3, <2>4, <2>5, GrowsOn
  <2>7. Grows(fs, patched, d, {}, {})
    BY <1>3, <2>6, PlainGrows, PopOps
  <2> HIDE DEF d
  <2>8. offset \in Jumps(fs, FunctionObject(d))
    BY <2>6, <2>7, GrowsOn
  <2>9. Grows(fs, Cur, truthy, {first, offset}, {})
    <3>1. ({first} \ {}) \cup {offset} \subseteq {first, offset} /\ {} \subseteq {} \cup {}
      OBVIOUS
    <3>2. QED
      BY <1>3, <2>1, <2>3, <3>1, GrowsThen
  <2>10. Grows(fs, Cur, patched, {offset}, {})
    <3>1. ({first, offset} \ {first}) \cup {} \subseteq {offset} /\ {} \subseteq {} \cup {first}
      OBVIOUS
    <3>2. QED
      BY <1>3, <2>5, <2>9, <3>1, GrowsThen
  <2>11. Grows(fs, Cur, d, {offset}, {})
    <3>1. ({offset} \ {}) \cup {} \subseteq {offset} /\ {} \subseteq {} \cup {}
      OBVIOUS
    <3>2. QED
      BY <1>3, <2>7, <2>10, <3>1, GrowsThen
  <2>12. QED
    BY <2>8, <2>11
<1>7. after.rule = "patch" /\ Pending(after) = {offset}
      /\ \A f : offset \in Jumps(fs, f) => Carries(fs, after, f)
  BY RuleNeeds DEF Patches
<1> HIDE DEF operand, after, d, offset
<1>8. \A g : offset \in Jumps(fs, g) => \A q \in todo : Carries(fs, q, g)
  BY <1>2, <1>7, FreeCarries
<1>9. {offset} \subseteq AllPending(todo)
  BY <1>7 DEF AllPending
<1>10. \A q \in todo : q.rule \notin {"script", "function", "define"}
  BY <1>2, <1>7
<1>11. Pending(r) \ {} \subseteq AllPending(todo) /\ r.rule \notin {"script", "function"}
  BY <1>2
<1> HIDE DEF todo, fs, r
<1>12. Advances(fs, r, Cur, d, todo)
  <2>1. Decodable(fs, FunctionObject(Cur)) /\ ConstantsFit(FunctionObject(Cur))
          /\ Carries(fs, r, FunctionObject(Cur)) =>
          /\ Grows(fs, Cur, d, {offset}, {})
          /\ {offset} \subseteq AllPending(todo) /\ Pending(r) \ {} \subseteq AllPending(todo)
          /\ \A q \in todo : Carries(fs, q, FunctionObject(d))
    BY <1>6, <1>8, <1>9, <1>11
  <2>2. QED
    BY <1>3, <1>5, <2>1, SamePoolRicher DEF Advances, SamePool
<1>13. QED
  BY <1>1, <1>2, <1>4, <1>10, <1>11, <1>12, CodeContinue DEF fs, r

LEMMA CallCode ==
  ASSUME CompilerInv, CodeInv, Call \/ Argument
  PROVE  CodeInv'
<1> DEFINE r     == Head(rules)
           one   == [rule |-> "argument", count |-> 1]
           again == [r EXCEPT !.count = @ + 1]
<1>1. /\ rules # <<>> /\ r \in RuleType /\ r.rule \in OperandRule
      /\ Argument => r.rule = "argument"
  BY HeadType DEF Call, Argument, InfixFollows, At, OperandRule
<1>2. Argument => r.count \in Nat /\ again.rule = "argument"
  BY <1>1, RuleFields
<1>3. Cur \in CompilerType
  BY CodeHere
<1>4. \A count \in Nat : OpIndex("OP_CALL", count) \in Seq(0..255)
                         /\ Emittable(FunctionObject(Cur), OpIndex("OP_CALL", count))
  <2>1. "OP_CALL" \in OpCodeName
    BY OpCodeNames
  <2>2. QED
    BY <1>3, <2>1, OpBytes, Seen, EmittableOps
<1>5. Expression.rule \in OperandRule
  BY DEF Expression, OperandRule
<1>6. one.rule \in OperandRule /\ (Argument => again.rule \in OperandRule)
  BY <1>2 DEF OperandRule
<1>7. \/ Continue(WithLast(Emit(Cur, OpIndex("OP_CALL", 0))), <<r>>)
      \/ Continue(compilers, <<Expression, one, r>>)
      \/ Argument /\ Continue(compilers, <<Expression, again>>)
      \/ Argument /\ Continue(WithLast(Emit(Cur, OpIndex("OP_CALL", r.count))), <<>>)
  BY DEF Call, Argument
<1> HIDE DEF r, one, again
<1>8. /\ Todo(<<r>>, {r}) /\ Todo(<<Expression, one, r>>, {Expression, one, r})
      /\ Todo(<<Expression, again>>, {Expression, again}) /\ Todo(<<>>, {})
  BY Todos
<1>9. CASE Continue(WithLast(Emit(Cur, OpIndex("OP_CALL", 0))), <<r>>)
  <2>1. 0 \in Nat
    OBVIOUS
  <2>2. QED
    BY <1>1, <1>4, <1>8, <1>9, <2>1, OperandEmits DEF r
<1>10. CASE Continue(compilers, <<Expression, one, r>>)
  <2>1. \A q \in {Expression, one, r} : Harmless(FunctionObject(Cur), q)
    BY <1>1, <1>5, <1>6 DEF Harmless
  <2>2. QED
    BY <1>1, <1>8, <1>10, <2>1, OperandStays DEF r
<1>11. CASE Argument /\ Continue(compilers, <<Expression, again>>)
  <2>1. \A q \in {Expression, again} : Harmless(FunctionObject(Cur), q)
    BY <1>5, <1>6, <1>11 DEF Harmless
  <2>2. QED
    BY <1>1, <1>8, <1>11, <2>1, OperandStays DEF r
<1>12. CASE Argument /\ Continue(WithLast(Emit(Cur, OpIndex("OP_CALL", r.count))), <<>>)
  <2>1. \A q \in {} : q.rule \in OperandRule
    OBVIOUS
  <2>2. QED
    BY <1>1, <1>2, <1>4, <1>8, <1>12, <2>1, OperandEmits DEF r
<1>13. QED
  BY <1>7, <1>9, <1>10, <1>11, <1>12

LEMMA DotCode ==
  ASSUME CompilerInv, CodeInv, NEW name \in Members, Dot(name)
  PROVE  CodeInv'
<1> DEFINE r      == Head(rules)
           pooled == Pool(Cur, Name(name))
           index  == LastConstant(pooled)
           bytes  == OpIndex("OP_GET_PROPERTY", index)
           d      == Emit(pooled, bytes)
           set    == Emits(OpIndex("OP_SET_PROPERTY", index))
<1>1. rules # <<>> /\ r.rule = "infix" /\ r.rule \in OperandRule
  BY OperatorHere DEF Dot
<1>2. functions \in Seq(FunctionType) /\ Cur \in CompilerType /\ Name(name) \in ConstantValue
  BY CodeHere, ConstantTypes
<1>3. /\ pooled \in CompilerType /\ pooled.byte_code = Cur.byte_code
      /\ Richer(FunctionObject(Cur), FunctionObject(pooled))
      /\ NamesConstant(FunctionObject(pooled), index) /\ index \in Nat
  BY <1>2, PooledName
<1>4. \/ Continue(WithLast(d), <<r>>)
      \/ Continue(WithLast(pooled), <<Expression, set, r>>)
  BY DEF Dot
<1>5. /\ Emittable(FunctionObject(pooled), bytes) /\ bytes \in Seq(0..255)
      /\ Emittable(FunctionObject(pooled), OpIndex("OP_SET_PROPERTY", index))
  <2> HIDE DEF pooled, index
  <2>1. "OP_GET_PROPERTY" \in NameOps /\ "OP_SET_PROPERTY" \in NameOps
        /\ "OP_GET_PROPERTY" \in OpCodeName
    BY OpCodeNames DEF NameOps
  <2>2. FunctionObject(pooled) \in FunctionType
    BY <1>3, Seen
  <2>3. QED
    BY <1>3, <2>1, <2>2, OpBytes, EmittableOps
<1>6. /\ d \in CompilerType /\ Richer(FunctionObject(Cur), FunctionObject(d))
      /\ Decodable(functions, FunctionObject(Cur)) /\ ConstantsFit(FunctionObject(d)) =>
           Grows(functions, Cur, d, {}, {})
  <2> HIDE DEF bytes
  <2>1. QED
    BY <1>2, <1>5, PooledGrows
<1> HIDE DEF d, pooled, index, r, bytes
<1>7. Todo(<<r>>, {r}) /\ Todo(<<Expression, set, r>>, {Expression, set, r})
  BY Todos
<1>8. CASE Continue(WithLast(d), <<r>>)
  <2>1. \A q \in {r} : Harmless(FunctionObject(d), q)
    BY <1>1 DEF Harmless
  <2>2. QED
    BY <1>1, <1>6, <1>7, <1>8, <2>1, OperandOn DEF r
<1>9. CASE Continue(WithLast(pooled), <<Expression, set, r>>)
  <2>1. Expression.rule \in OperandRule
    BY DEF Expression, OperandRule
  <2>2. \A q \in {Expression, set, r} : Harmless(FunctionObject(pooled), q)
    BY <1>1, <1>5, <2>1 DEF Harmless
  <2>3. Decodable(functions, FunctionObject(Cur)) => Grows(functions, Cur, pooled, {}, {})
    BY <1>2, <1>3, SameCodeGrows
  <2>4. QED
    BY <1>1, <1>3, <1>7, <1>9, <2>2, <2>3, OperandOn DEF r
<1>10. QED
  BY <1>4, <1>8, <1>9

-------------------------------------------------------------------------------
(***************************************************************************)
(* What remains of a rule behind its expression.                           *)
(***************************************************************************)
LEMMA DefinesName ==
  ASSUME CompilerInv, CodeInv, rules # <<>>, Head(rules).rule = "define",
         ~(Cur.current_scope_depth > 0)
  PROVE  NamesConstant(FunctionObject(Cur), Head(rules).index)
<1>1. PICK K : Placed(rules, Len(compilers), K) /\ Promises(functions, compilers, rules, K)
  BY DEF CodeInv, Coded
<1>2. K[1] = Len(compilers) /\ Cur = compilers[Len(compilers)]
  BY <1>1 DEF Placed, Cur, Last
<1>3. rules \in Seq(RuleType)
  BY DEF CompilerInv
<1>4. 1 \in 1..Len(rules) /\ Head(rules) = rules[1]
  BY <1>3
<1>5. NamesConstant(FunctionObject(Cur), rules[1].index) \/ Inside(rules, 1)
  BY <1>1, <1>2, <1>4 DEF Promises
<1>6. ~Inside(rules, 1)
  BY DepthByRules DEF Inside
<1>7. QED
  BY <1>4, <1>5, <1>6

\* A variable is defined: by its name, unless it is local.
LEMMA DefineGrows ==
  ASSUME NEW fs \in Seq(FunctionType), NEW c \in CompilerType, NEW index,
         c.current_scope_depth > 0 \/ NamesConstant(FunctionObject(c), index),
         DefineVariable(c, index) \in CompilerType
  PROVE  LET d == DefineVariable(c, index) IN
         /\ SamePool(c, d)
         /\ Decodable(fs, FunctionObject(c)) /\ ConstantsFit(FunctionObject(c)) => Grows(fs, c, d, {}, {})
<1> DEFINE d == DefineVariable(c, index)
<1>1. SameCode(c, c)
  BY DEF SameCode
<1>2. CASE c.current_scope_depth > 0
  <2>1. d = MarkInitialized(c)
    BY <1>2 DEF DefineVariable
  <2>2. SameCode(c, d)
    BY <1>1, <2>1, SameCodeHere
  <2>3. d \in CompilerType
    OBVIOUS
  <2> HIDE DEF d
  <2>4. SamePool(c, d)
    BY <2>1, <2>2, <2>3, SameCodeHere
  <2>5. d.byte_code = c.byte_code
    BY <2>2 DEF SameCode
  <2>6. Richer(FunctionObject(c), FunctionObject(d))
    BY <2>4, SamePoolRicher
  <2>7. Decodable(fs, FunctionObject(c)) => Grows(fs, c, d, {}, {})
    BY <2>3, <2>5, <2>6, SameCodeGrows
  <2>8. QED
    BY <2>4, <2>7 DEF d
<1>3. CASE ~(c.current_scope_depth > 0)
  <2>1. d = Emit(c, OpIndex("OP_DEFINE_GLOBAL", index)) /\ NamesConstant(FunctionObject(c), index)
    BY <1>3 DEF DefineVariable
  <2>2. "OP_DEFINE_GLOBAL" \in NameOps /\ "OP_DEFINE_GLOBAL" \in OpCodeName /\ index \in Nat
    BY <2>1, OpCodeNames, Seen DEF NameOps, NamesConstant
  <2>3. OpIndex("OP_DEFINE_GLOBAL", index) \in Seq(0..255)
    BY <2>2, OpBytes
  <2>4. Emittable(FunctionObject(c), OpIndex("OP_DEFINE_GLOBAL", index))
    BY <2>1, <2>2, Seen, EmittableOps
  <2>5. QED
    BY <2>1, <2>3, <2>4, EmitCode, EmitGrows
<1>4. QED
  BY <1>2, <1>3

LEMMA DefinedHere ==
  ASSUME CompilerInv, rules # <<>>, Head(rules).rule = "define"
  PROVE  DefineVariable(Cur, Head(rules).index) \in CompilerType
<1>1. Head(rules).index \in Int
  BY HeadType, RuleFields
<1>2. PICK l \in Situation :
        /\ l.compiler = Len(compilers) /\ Fits(compilers, l)
        /\ Accepts(Head(rules), l) /\ l.depth = Cur.current_scope_depth
  BY Below
<1>3. l.at = "definition"
  BY <1>2 DEF Accepts
<1>4. IF Cur.current_scope_depth > 0 THEN Len(Cur.locals) > 1 ELSE Settled(Cur)
  BY <1>2, <1>3, InvariantHere DEF Fits
<1>5. Cur \in CompilerType /\ Scoped(Cur)
  BY InvariantHere
<1>6. QED
  BY <1>1, <1>4, <1>5, DefineVariableScoped DEF Continues

LEMMA FinishCode ==
  ASSUME CompilerInv, CodeInv, Finish
  PROVE  CodeInv'
<1> DEFINE r == Head(rules)
           fs == functions
<1>1. /\ rules # <<>> /\ r \in RuleType /\ r.rule \in {"emit", "patch", "define"}
      /\ fs \in Seq(FunctionType) /\ Cur \in CompilerType /\ SamePool(Cur, Cur)
  BY HeadType, CodeHere DEF Finish, At, SamePool
<1>2. CASE r.rule = "emit" /\ Continue(WithLast(Emit(Cur, r.bytes)), <<>>)
  <2>1. r.bytes \in Seq(0..255) /\ Pending(r) = {}
    BY <1>1, <1>2, RuleFields, RuleRelies
  <2>2. SamePool(Cur, Emit(Cur, r.bytes))
    BY <1>1, <2>1, EmitCode
  <2>3. ASSUME Decodable(fs, FunctionObject(Cur)), ConstantsFit(FunctionObject(Cur)),
               Carries(fs, r, FunctionObject(Cur))
        PROVE  Grows(fs, Cur, Emit(Cur, r.bytes), {}, {})
    <3>1. Emittable(FunctionObject(Cur), r.bytes)
      BY <1>2, <2>3, RuleRelies
    <3> HIDE DEF r, fs
    <3>2. QED
      BY <1>1, <2>1, <2>3, <3>1, EmitGrows
  <2>4. QED
    BY <1>1, <1>2, <2>1, <2>2, <2>3, EndsCode
<1>3. CASE r.rule = "patch" /\ Continue(WithLast(PatchJump(Cur, r.offset)), <<>>)
  <2>1. r.offset \in Int /\ Pending(r) = {r.offset}
    BY <1>1, <1>3, RuleFields, RuleRelies
  <2>2. SamePool(Cur, PatchJump(Cur, r.offset))
    BY <1>1, <2>1, SamePoolHere
  <2>3. ASSUME Decodable(fs, FunctionObject(Cur)), Carries(fs, r, FunctionObject(Cur))
        PROVE  Grows(fs, Cur, PatchJump(Cur, r.offset), {}, {r.offset})
    <3>1. r.offset \in Jumps(fs, FunctionObject(Cur))
      BY <2>1, <2>3, RuleRelies
    <3> HIDE DEF r, fs
    <3>2. QED
      BY <1>1, <2>3, <3>1, PatchGrows
  <2>4. QED
    BY <1>1, <1>3, <2>1, <2>2, <2>3, EndsCode
<1>4. CASE r.rule = "define" /\ Continue(WithLast(DefineVariable(Cur, r.index)), <<>>)
  <2>1. Pending(r) = {}
    BY <1>4, FreeRules, FreeCarries DEF FreeRule
  <2>2. Cur.current_scope_depth > 0 \/ NamesConstant(FunctionObject(Cur), r.index)
    BY <1>1, <1>4, DefinesName
  <2> DEFINE d == DefineVariable(Cur, r.index)
  <2>3. /\ SamePool(Cur, d)
        /\ Decodable(fs, FunctionObject(Cur)) /\ ConstantsFit(FunctionObject(Cur)) => Grows(fs, Cur, d, {}, {})
    <3>1. d \in CompilerType
      BY <1>1, <1>4, DefinedHere
    <3> HIDE DEF r, fs
    <3>2. QED
      BY <1>1, <2>2, <3>1, DefineGrows
  <2>4. QED
    BY <1>1, <1>4, <2>1, <2>3, EndsCode
<1>5. QED
  BY <1>1, <1>2, <1>3, <1>4 DEF Finish, At

-------------------------------------------------------------------------------
(***************************************************************************)
(* Declarations of variables.                                              *)
(***************************************************************************)
LEMMA ParseGrows ==
  ASSUME NEW fs \in Seq(FunctionType), NEW c \in CompilerType, Scoped(c), Settled(c),
         NEW name \in Names
  PROVE  LET d == ParseVariable(c, name) IN
         /\ d \in CompilerType /\ d.current_scope_depth = c.current_scope_depth
         /\ d.byte_code = c.byte_code /\ Richer(FunctionObject(c), FunctionObject(d))
         /\ d.current_scope_depth > 0 \/ NamesConstant(FunctionObject(d), VariableIndex(d))
         /\ Decodable(fs, FunctionObject(c)) => Grows(fs, c, d, {}, {})
<1> DEFINE declared == DeclareVariable(c, name)
           d == ParseVariable(c, name)
<1>1. d \in CompilerType /\ d.current_scope_depth = c.current_scope_depth
  BY ParseVariableScoped DEF Continues
<1>2. declared \in CompilerType
  BY DeclareScoped DEF Continues
<1>3. SameCode(c, declared)
  BY SameCodeHere DEF SameCode
<1>4. declared.byte_code = c.byte_code /\ Richer(FunctionObject(c), FunctionObject(declared))
  BY <1>2, <1>3, SameCodeHere, SamePoolRicher DEF SameCode
<1>5. d = IF c.current_scope_depth > 0 THEN declared ELSE Pool(declared, Name(name))
  BY DEF ParseVariable
<1> HIDE DEF declared, d
<1>6. /\ d.byte_code = c.byte_code /\ Richer(FunctionObject(c), FunctionObject(d))
      /\ d.current_scope_depth > 0 \/ NamesConstant(FunctionObject(d), VariableIndex(d))
  <2>1. CASE c.current_scope_depth > 0
    BY <1>1, <1>4, <1>5, <2>1
  <2>2. CASE ~(c.current_scope_depth > 0)
    <3>1. d = Pool(declared, Name(name)) /\ name \in Names \cup Members
      BY <1>5, <2>2
    <3>2. /\ d.byte_code = declared.byte_code /\ Richer(FunctionObject(declared), FunctionObject(d))
          /\ NamesConstant(FunctionObject(d), LastConstant(d))
      BY <1>2, <3>1, PooledName
    <3>3. VariableIndex(d) = LastConstant(d)
      BY <1>1, <2>2 DEF VariableIndex
    <3>4. Richer(FunctionObject(c), FunctionObject(d))
      BY <1>1, <1>2, <1>4, <3>2, RicherThen
    <3>5. QED
      BY <1>4, <3>2, <3>3, <3>4
  <2>3. QED
    BY <2>1, <2>2
<1>7. Decodable(fs, FunctionObject(c)) => Grows(fs, c, d, {}, {})
  BY <1>1, <1>6, SameCodeGrows
<1>8. QED
  BY <1>1, <1>6, <1>7 DEF d

\* The compiler in which a statement begins, in a scope of its own or not.
LEMMA BeganHere ==
  ASSUME CompilerInv, StatementExpected
  PROVE  \A c \in {Here, BeginScope(Here)} :
           /\ c \in CompilerType /\ Scoped(c) /\ Settled(c) /\ SameCode(Cur, c)
           /\ c = Here => c.current_scope_depth = Cur.current_scope_depth
<1>1. /\ Continues(Cur, Here) /\ Settled(Here)
      /\ Here.current_scope_depth = Cur.current_scope_depth
      /\ Continues(Cur, BeginScope(Here)) /\ Settled(BeginScope(Here))
  BY ScopedHere
<1>2. Here \in CompilerType /\ SameCode(Cur, Here)
  BY CodeHere
<1>3. SameCode(Cur, BeginScope(Here))
  BY <1>2, SameCodeHere DEF SameCode
<1>4. QED
  BY <1>1, <1>2, <1>3 DEF Continues

LEMMA DeclareAndCode ==
  ASSUME CompilerInv, CodeInv, StatementExpected, NEW c \in {Here, BeginScope(Here)},
         NEW name \in Names, NEW next, DeclareAnd(c, name, next),
         (next = <<>> /\ c = Here) \/ next = <<Rule("for")>>
  PROVE  CodeInv'
<1> DEFINE fs     == functions
           parsed == ParseVariable(c, name)
           index  == VariableIndex(parsed)
           niled  == Emit(parsed, Op("OP_NIL"))
           d      == DefineVariable(niled, index)
           r      == Rule("statement")
<1>1. /\ c \in CompilerType /\ Scoped(c) /\ Settled(c) /\ SameCode(Cur, c)
      /\ c = Here => c.current_scope_depth = Cur.current_scope_depth
  BY BeganHere
<1>2. fs \in Seq(FunctionType) /\ Cur \in CompilerType
  BY CodeHere
<1>3. /\ Richer(FunctionObject(Cur), FunctionObject(c))
      /\ Decodable(fs, FunctionObject(Cur)) => Grows(fs, Cur, c, {}, {})
  <2>1. SamePool(Cur, c) /\ c.byte_code = Cur.byte_code
    BY <1>1, <1>2, SameCodeHere DEF SameCode
  <2>2. Richer(FunctionObject(Cur), FunctionObject(c))
    BY <1>2, <2>1, SamePoolRicher
  <2>3. QED
    BY <1>1, <1>2, <2>1, <2>2, SameCodeGrows
<1>4. /\ parsed \in CompilerType /\ parsed.current_scope_depth = c.current_scope_depth
      /\ Richer(FunctionObject(c), FunctionObject(parsed))
      /\ parsed.current_scope_depth > 0 \/ NamesConstant(FunctionObject(parsed), index)
      /\ Decodable(fs, FunctionObject(c)) => Grows(fs, c, parsed, {}, {})
  <2> HIDE DEF fs
  <2>1. QED
    BY <1>1, <1>2, ParseGrows
<1>5. /\ Scoped(parsed) /\ index \in Int
      /\ IF c.current_scope_depth > 0 THEN Len(parsed.locals) > 1 ELSE Settled(parsed)
  BY <1>1, ParseVariableScoped DEF Continues
<1>6. \/ Begin(WithLast(d), next)
      \/ Begin(WithLast(parsed), <<Expression, Defines(index)>> \o next)
  BY DEF DeclareAnd
<1> HIDE DEF fs, parsed, index
<1>7. Pending(r) = {} /\ (InLoop \/ At("declaration") \/ At("statement"))
  BY FreeRules, FreeCarries DEF FreeRule, StatementExpected
<1> HIDE DEF r
<1>8. Richer(FunctionObject(Cur), FunctionObject(parsed))
      /\ (Decodable(fs, FunctionObject(Cur)) => Grows(fs, Cur, parsed, {}, {}))
  <2>1. Richer(FunctionObject(Cur), FunctionObject(parsed))
    BY <1>1, <1>2, <1>3, <1>4, RicherThen
  <2>2. ASSUME Decodable(fs, FunctionObject(Cur))
        PROVE  Grows(fs, Cur, parsed, {}, {})
    <3>1. Decodable(fs, FunctionObject(c))
      BY <1>2, <1>3, <2>2, GrowsOn
    <3>2. QED
      BY <1>2, <1>3, <1>4, <2>2, <3>1, GrowsThen
  <2>3. QED
    BY <2>1, <2>2
<1>9. ASSUME NEW todo, next = <<>> => todo = {}, next # <<>> => todo = {Rule("for")}
      PROVE  /\ Todo(next, todo)
             /\ Todo(<<Expression, Defines(index)>> \o next, {Expression, Defines(index)} \cup todo)
             /\ next = <<>> => <<Expression, Defines(index)>> \o next = <<Expression, Defines(index)>>
             /\ next # <<>> => <<Expression, Defines(index)>> \o next
                                  = <<Expression, Defines(index), Rule("for")>>
             /\ next # <<>> => next = <<Rule("for")>>
  <2> DEFINE x == Expression
             y == Defines(index)
             z == Rule("for")
  <2>1. next = <<>> \/ next = <<z>>
    OBVIOUS
  <2>2. \A u, v, w : /\ <<u, v>> \o <<>> = <<u, v>> /\ <<u, v>> \o <<w>> = <<u, v, w>>
                     /\ {u, v} \cup {} = {u, v} /\ {u, v} \cup {w} = {u, v, w} /\ <<w>> # <<>>
    <3> TAKE u, v, w
    <3> DEFINE S == {u, v, w}
    <3>1. <<u, v>> \in Seq(S) /\ <<w>> \in Seq(S) /\ <<>> \in Seq(S) /\ u \in S /\ v \in S /\ w \in S
      OBVIOUS
    <3> HIDE DEF S
    <3>2. <<u, v>> \o <<w>> = <<u, v, w>>
      <4> DEFINE s == <<u, v>>
                 t == <<w>>
      <4>1. s \in Seq(S) /\ t \in Seq(S) /\ Len(s) = 2 /\ Len(t) = 1 /\ s[1] = u /\ s[2] = v /\ t[1] = w
        BY <3>1
      <4> HIDE DEF s, t
      <4>2. /\ s \o t \in Seq(S) /\ Len(s \o t) = 3
            /\ (s \o t)[1] = u /\ (s \o t)[2] = v /\ (s \o t)[3] = w
        <5>1. /\ s \o t \in Seq(S) /\ Len(s \o t) = Len(s) + Len(t)
              /\ \A i \in 1..Len(s) : (s \o t)[i] = s[i]
              /\ \A i \in 1..Len(t) : (s \o t)[Len(s) + i] = t[i]
          BY <4>1
        <5>2. 1 \in 1..2 /\ 2 \in 1..2 /\ 1 \in 1..1 /\ 2 + 1 = 3
          OBVIOUS
        <5>3. QED
          BY <4>1, <5>1, <5>2
      <4>3. \A q \in Seq(S) : Len(q) = 3 => q = <<q[1], q[2], q[3]>>
        OBVIOUS
      <4>4. s \o t = <<u, v, w>>
        BY <4>2, <4>3
      <4>5. QED
        BY <4>4 DEF s, t
    <3>3. <<u, v>> \o <<>> = <<u, v>>
      BY <3>1
    <3>4. {u, v} \cup {} = {u, v} /\ {u, v} \cup {w} = {u, v, w} /\ <<w>> # <<>>
      OBVIOUS
    <3>5. QED
      BY <3>2, <3>3, <3>4
  <2>3. next = <<>> => todo = {}
    BY <1>9
  <2>4. next # <<>> => todo = {z}
    BY <1>9
  <2> HIDE DEF x, y, z
  <2>5. /\ <<x, y>> \o <<>> = <<x, y>> /\ <<x, y>> \o <<z>> = <<x, y, z>>
        /\ {x, y} \cup {} = {x, y} /\ {x, y} \cup {z} = {x, y, z} /\ <<z>> # <<>>
    BY <2>2
  <2>6. /\ Todo(<<>>, {}) /\ Todo(<<z>>, {z}) /\ Todo(<<x, y>>, {x, y}) /\ Todo(<<x, y, z>>, {x, y, z})
    BY Todos
  <2>7. /\ Todo(next, todo) /\ Todo(<<x, y>> \o next, {x, y} \cup todo)
        /\ next = <<>> => <<x, y>> \o next = <<x, y>>
        /\ next # <<>> => <<x, y>> \o next = <<x, y, z>>
        /\ next # <<>> => next = <<z>>
    <3>1. CASE next = <<>>
      BY <2>3, <2>5, <2>6, <3>1
    <3>2. CASE next = <<z>> /\ next # <<>>
      BY <2>4, <2>5, <2>6, <3>2
    <3>3. QED
      BY <2>1, <3>1, <3>2
  <2>8. QED
    BY <2>7 DEF x, y, z
<1> DEFINE todo == IF next = <<>> THEN {} ELSE {Rule("for")}
<1>10. /\ Todo(next, todo)
       /\ Todo(<<Expression, Defines(index)>> \o next, {Expression, Defines(index)} \cup todo)
       /\ \A q \in todo : q.rule = "for" /\ Free(q)
  BY <1>9, FreeRules DEF FreeRule
<1> HIDE DEF todo
<1>11. CASE Begin(WithLast(d), next)
  <2>1. niled \in CompilerType /\ SamePool(parsed, niled)
        /\ (Decodable(fs, FunctionObject(parsed)) => Grows(fs, parsed, niled, {}, {}))
    <3>1. SamePool(parsed, niled)
      BY <1>4, SamePoolHere, PopOps DEF SamePool, PlainOps
    <3>2. QED
      BY <1>2, <1>4, <3>1, PlainGrows, PopOps DEF SamePool
  <2>2. niled.current_scope_depth = parsed.current_scope_depth /\ d \in CompilerType
    <3>1. Keeps(parsed, niled)
      BY <1>4, KeepsSame, EmittedHere, OpCodeNames
    <3>2. Scoped(niled)
      BY <1>4, <1>5, <3>1, KeepsContinues DEF Continues
    <3>3. IF niled.current_scope_depth > 0 THEN Len(niled.locals) > 1 ELSE Settled(niled)
      BY <1>4, <1>5, <3>1 DEF Keeps, Settled
    <3> HIDE DEF niled
    <3>4. QED
      BY <1>4, <1>5, <2>1, <3>1, <3>2, <3>3, DefineVariableScoped DEF Keeps, Continues
  <2>3. niled.current_scope_depth > 0 \/ NamesConstant(FunctionObject(niled), index)
    <3>1. FunctionObject(niled).constant_pool = FunctionObject(parsed).constant_pool
      BY <1>4, <2>1, Seen DEF SamePool
    <3> HIDE DEF niled
    <3>2. QED
      BY <1>4, <2>2, <3>1 DEF NamesConstant
  <2> HIDE DEF niled
  <2>4. /\ SamePool(niled, d)
        /\ Decodable(fs, FunctionObject(niled)) /\ ConstantsFit(FunctionObject(niled)) => Grows(fs, niled, d, {}, {})
    BY <1>2, <2>1, <2>2, <2>3, DefineGrows
  <2> HIDE DEF d
  <2>5. SamePool(parsed, d)
    BY <2>1, <2>4 DEF SamePool
  <2>6. /\ Richer(FunctionObject(parsed), FunctionObject(d))
        /\ ConstantsFit(FunctionObject(d)) <=> ConstantsFit(FunctionObject(parsed))
    BY <1>4, <2>5, SamePoolRicher
  <2>7. ConstantsFit(FunctionObject(d)) <=> ConstantsFit(FunctionObject(niled))
    BY <2>1, <2>4, SamePoolRicher
  <2>8. Richer(FunctionObject(Cur), FunctionObject(d))
    BY <1>2, <1>4, <1>8, <2>2, <2>6, RicherThen
  <2>9. ASSUME Decodable(fs, FunctionObject(Cur)), ConstantsFit(FunctionObject(d))
        PROVE  Grows(fs, Cur, d, {}, {})
    <3>1. Decodable(fs, FunctionObject(parsed))
      BY <1>2, <1>8, <2>9, GrowsOn
    <3>2. Grows(fs, parsed, niled, {}, {}) /\ Decodable(fs, FunctionObject(niled))
      BY <1>4, <2>1, <3>1, GrowsOn
    <3>3. Grows(fs, niled, d, {}, {})
      BY <2>4, <2>7, <2>9, <3>2
    <3>4. Grows(fs, Cur, niled, {}, {})
      BY <1>2, <1>8, <2>9, <3>2, GrowsThen
    <3>5. QED
      BY <1>2, <3>3, <3>4, GrowsThen
  <2>10. \A q \in todo : Carries(fs, q, FunctionObject(d))
    BY <1>10, FreeCarries
  <2>11. {} \cup ({} \ {}) \subseteq AllPending(todo)
    OBVIOUS
  <2>12. Advances(fs, r, Cur, d, todo)
    BY <1>7, <2>2, <2>8, <2>9, <2>10, <2>11 DEF Advances
  <2>13. \A i \in 1..Len(next) : next[i].rule # "define"
    BY <1>10 DEF Todo
  <2>14. \A q \in todo : q.rule \notin {"script", "function"}
    BY <1>10
  <2>15. QED
    BY <1>7, <1>10, <1>11, <2>12, <2>13, <2>14, CodeBegin DEF fs, r
<1>12. CASE Begin(WithLast(parsed), <<Expression, Defines(index)>> \o next)
  <2> DEFINE entered == <<Expression, Defines(index)>> \o next
             all == {Expression, Defines(index)} \cup todo
  <2>1. \A q \in all : Free(q) /\ q.rule \notin {"script", "function"}
    BY <1>10, FreeRules
  <2>2. Todo(entered, all) /\ Begin(WithLast(parsed), entered)
    BY <1>10, <1>12
  <2>3. next = <<>> => entered = <<Expression, Defines(index)>> /\ c = Here
    BY <1>9
  <2>4. next # <<>> => entered = <<Expression, Defines(index), Rule("for")>>
    BY <1>9
  <2>5. ASSUME NEW i \in 1..Len(entered), entered[i].rule = "define"
        PROVE  \/ NamesConstant(FunctionObject(parsed), entered[i].index)
               \/ Inside(entered, i) \/ Cur.current_scope_depth > 0
    <3>1. Expression.rule = "parsePrecedence" /\ Rule("for").rule = "for" /\ Defines(index).index = index
      BY DEF Expression, Rule, Defines
    <3> DEFINE x == Expression
               y == Defines(index)
               z == Rule("for")
    <3> HIDE DEF x, y, z, entered
    <3>2. CASE next = <<>>
      <4>1. entered = <<x, y>> /\ x.rule # "define" /\ y.index = index
        BY <2>3, <3>1, <3>2 DEF x, y
      <4>2. entered[i].index = index
        BY <2>5, <4>1
      <4>3. NamesConstant(FunctionObject(parsed), index) \/ Cur.current_scope_depth > 0
        BY <1>1, <1>4, <2>3, <3>2
      <4>4. QED
        BY <4>2, <4>3
    <3>3. CASE next # <<>>
      <4>1. entered = <<x, y, z>> /\ x.rule # "define" /\ z.rule = "for"
        BY <2>4, <3>1, <3>3 DEF x, y, z
      <4>2. i < 3 /\ 3 \in 1..Len(entered) /\ entered[3].rule = "for"
        BY <2>5, <4>1
      <4>3. QED
        BY <4>2 DEF Inside, ScopedRule
    <3>4. QED
      BY <3>2, <3>3
  <2> HIDE DEF entered, all
  <2>6. \A q \in all : Carries(fs, q, FunctionObject(parsed))
    BY <2>1, FreeCarries
  <2>7. {} \cup ({} \ {}) \subseteq AllPending(all)
    OBVIOUS
  <2>8. Advances(fs, r, Cur, parsed, all)
    BY <1>4, <1>7, <1>8, <2>6, <2>7 DEF Advances
  <2>9. QED
    BY <1>7, <2>1, <2>2, <2>5, <2>8, CodeBegin DEF fs, r
<1>13. QED
  BY <1>6, <1>11, <1>12

LEMMA VariableDeclarationCode ==
  ASSUME CompilerInv, CodeInv, NEW name \in Names, VariableDeclaration(name)
  PROVE  CodeInv'
<1>1. StatementExpected
  BY Expected DEF VariableDeclaration
<1>2. CASE ReportError
  BY <1>2, ErrorCode
<1>3. CASE DeclareAnd(Here, name, <<>>)
  BY <1>1, <1>3, DeclareAndCode
<1>4. QED
  BY <1>2, <1>3 DEF VariableDeclaration

LEMMA ForStatementCode ==
  ASSUME CompilerInv, CodeInv, ForStatement
  PROVE  CodeInv'
<1> DEFINE c == BeginScope(Here)
           pop == Emits(Op("OP_POP"))
<1>1. StatementExpected
  BY DEF ForStatement
<1>2. c \in CompilerType /\ SameCode(Cur, c)
  BY <1>1, BeganHere
<1>3. \/ Begin(WithLast(c), <<Rule("for")>>)
      \/ \E name \in Names : DeclareAnd(c, name, <<Rule("for")>>)
      \/ Begin(WithLast(c), <<Expression, pop, Rule("for")>>)
  BY DEF ForStatement
<1>4. CASE \E name \in Names : DeclareAnd(c, name, <<Rule("for")>>)
  BY <1>1, <1>4, DeclareAndCode
<1>5. /\ Todo(<<Rule("for")>>, {Rule("for")})
      /\ Todo(<<Expression, pop, Rule("for")>>, {Expression, pop, Rule("for")})
  BY Todos
<1>6. /\ Rule("for").rule \in FreeRule \ {"script", "function", "define"}
      /\ Expression.rule \in FreeRule \ {"script", "function", "define"}
      /\ "OP_POP" \in PlainOps
  BY PopOps, FreeRules DEF FreeRule
<1> HIDE DEF c
<1>7. CASE Begin(WithLast(c), <<Rule("for")>>)
  BY <1>1, <1>2, <1>5, <1>6, <1>7, BeginSame
<1>8. CASE Begin(WithLast(c), <<Expression, pop, Rule("for")>>)
  BY <1>1, <1>2, <1>5, <1>6, <1>8, BeginSame
<1>9. QED
  BY <1>3, <1>4, <1>7, <1>8

-------------------------------------------------------------------------------
(***************************************************************************)
(* Classes.                                                                *)
(***************************************************************************)
\* The code of d is that of c, or more, and as sound.
Grown(fs, c, d) ==
  /\ d \in CompilerType /\ Richer(FunctionObject(c), FunctionObject(d))
  /\ Decodable(fs, FunctionObject(c)) /\ ConstantsFit(FunctionObject(d)) => Grows(fs, c, d, {}, {})

LEMMA RicherFits ==
  ASSUME NEW f \in FunctionType, NEW g \in FunctionType, Richer(f, g), ConstantsFit(g)
  PROVE  ConstantsFit(f)
<1>1. /\ Len(f.constant_pool) \in Nat /\ Len(g.constant_pool) \in Nat
      /\ Len(f.constant_pool) <= Len(g.constant_pool)
  BY FieldTypes DEF Richer
<1>2. \A x, y \in Nat : x <= y /\ y <= MAX_INDEX_SIZE => x <= MAX_INDEX_SIZE
  BY DEF MAX_INDEX_SIZE
<1>3. QED
  BY <1>1, <1>2, Zenon DEF ConstantsFit

LEMMA GrownThen ==
  ASSUME NEW fs, NEW c \in CompilerType, NEW d, NEW e, Grown(fs, c, d), Grown(fs, d, e)
  PROVE  Grown(fs, c, e)
<1>1. /\ d \in CompilerType /\ Richer(FunctionObject(c), FunctionObject(d))
      /\ e \in CompilerType /\ Richer(FunctionObject(d), FunctionObject(e))
  BY DEF Grown
<1>2. Richer(FunctionObject(c), FunctionObject(e))
  BY <1>1, RicherThen
<1>3. ASSUME Decodable(fs, FunctionObject(c)), ConstantsFit(FunctionObject(e))
      PROVE  Grows(fs, c, e, {}, {})
  <2>1. ConstantsFit(FunctionObject(d))
    BY <1>1, <1>3, Seen, RicherFits
  <2>2. Grows(fs, c, d, {}, {})
    BY <1>3, <2>1 DEF Grown
  <2>3. Grows(fs, d, e, {}, {})
    BY <1>3, <2>2, GrowsOn DEF Grown
  <2>4. QED
    BY <2>2, <2>3, GrowsThen
<1>4. QED
  BY <1>1, <1>2, <1>3 DEF Grown

LEMMA GrownSame ==
  ASSUME NEW fs \in Seq(FunctionType), NEW c \in CompilerType, NEW d \in CompilerType, SameCode(c, d)
  PROVE  Grown(fs, c, d)
<1>1. SamePool(c, d) /\ d.byte_code = c.byte_code
  BY SameCodeHere DEF SameCode
<1>2. Richer(FunctionObject(c), FunctionObject(d))
  BY <1>1, SamePoolRicher
<1>3. QED
  BY <1>1, <1>2, SameCodeGrows DEF Grown

LEMMA GrownEmit ==
  ASSUME NEW fs \in Seq(FunctionType), NEW c \in CompilerType, NEW bytes \in Seq(0..255),
         Emittable(FunctionObject(c), bytes)
  PROVE  Grown(fs, c, Emit(c, bytes))
<1> DEFINE d == Emit(c, bytes)
<1>1. SamePool(c, d)
  BY EmitCode
<1>2. d \in CompilerType /\ Richer(FunctionObject(c), FunctionObject(d))
      /\ (ConstantsFit(FunctionObject(d)) <=> ConstantsFit(FunctionObject(c)))
  BY <1>1, SamePoolRicher DEF SamePool
<1>3. Decodable(fs, FunctionObject(c)) /\ ConstantsFit(FunctionObject(c)) => Grows(fs, c, d, {}, {})
  BY EmitGrows
<1>4. QED
  BY <1>2, <1>3 DEF Grown

LEMMA GrownPool ==
  ASSUME NEW fs \in Seq(FunctionType), NEW c \in CompilerType, NEW value \in ConstantValue
  PROVE  Grown(fs, c, Pool(c, value))
BY PoolCode, SameCodeGrows DEF Grown

LEMMA GrownDefine ==
  ASSUME NEW fs \in Seq(FunctionType), NEW c \in CompilerType, NEW index,
         c.current_scope_depth > 0 \/ NamesConstant(FunctionObject(c), index),
         DefineVariable(c, index) \in CompilerType
  PROVE  Grown(fs, c, DefineVariable(c, index))
<1> DEFINE d == DefineVariable(c, index)
<1>1. /\ SamePool(c, d)
      /\ Decodable(fs, FunctionObject(c)) /\ ConstantsFit(FunctionObject(c)) => Grows(fs, c, d, {}, {})
  BY DefineGrows
<1> HIDE DEF d
<1>2. d \in CompilerType /\ Richer(FunctionObject(c), FunctionObject(d))
      /\ (ConstantsFit(FunctionObject(d)) <=> ConstantsFit(FunctionObject(c)))
  BY <1>1, SamePoolRicher DEF SamePool
<1>3. QED
  BY <1>1, <1>2 DEF Grown, d

\* A statement begins with code that is sound, and nothing the rules rely on.
LEMMA BeginGrown ==
  ASSUME CompilerInv, CodeInv, StatementExpected, NEW d, Grown(functions, Cur, d),
         NEW next, NEW todo, Todo(next, todo), Begin(WithLast(d), next),
         \A q \in todo : q.rule \in FreeRule \ {"script", "function", "define"}
  PROVE  CodeInv'
<1>1. \A q \in todo : q.rule \notin {"script", "function"} /\ Carries(functions, q, FunctionObject(d))
  BY FreeRules, FreeCarries
<1>2. Pending(Rule("statement")) = {}
  BY FreeRules, FreeCarries DEF FreeRule
<1>3. {} \cup ({} \ {}) \subseteq AllPending(todo)
  OBVIOUS
<1>4. Advances(functions, Rule("statement"), Cur, d, todo)
  BY <1>1, <1>2, <1>3 DEF Advances, Grown
<1>5. InLoop \/ At("declaration") \/ At("statement")
  BY DEF StatementExpected
<1>6. \A i \in 1..Len(next) : next[i].rule # "define"
  BY DEF Todo
<1>7. \A q \in todo : q.rule \notin {"script", "function"}
  BY <1>1
<1>8. QED
  BY <1>4, <1>5, <1>6, <1>7, CodeBegin

LEMMA ClassDeclarationCode ==
  ASSUME CompilerInv, CodeInv, NEW name \in Names, ClassDeclaration(name)
  PROVE  CodeInv'
<1> DEFINE fs       == functions
           pooled   == Pool(Here, Name(name))
           index    == LastConstant(pooled)
           variable == DeclareVariable(pooled, name)
           declared == Emit(variable, OpIndex("OP_CLASS", index))
           outside  == DefineVariable(declared, index)
           defined  == [outside EXCEPT !.within_class = TRUE]
           again    == Pool(defined, Name(name))
           local    == Emit(defined, OpIndex("OP_GET_LOCAL", ResolveVariable(defined, name)))
           global   == Emit(again, OpIndex("OP_GET_GLOBAL", LastConstant(again)))
           named    == IF defined.current_scope_depth > 0 THEN local ELSE global
<1>1. StatementExpected
  BY Expected DEF ClassDeclaration
<1>2. ReportError \/ Begin(WithLast(named), <<Rule("class")>>)
  BY DEF ClassDeclaration
<1>3. /\ fs \in Seq(FunctionType) /\ Cur \in CompilerType
      /\ Here \in CompilerType /\ SameCode(Cur, Here) /\ Scoped(Here) /\ Settled(Here)
  BY <1>1, CodeHere, BeganHere
<1>4. Name(name) \in ConstantValue /\ name \in Names \cup Members
  BY ConstantTypes
<1> HIDE DEF fs
<1>5. Grown(fs, Cur, Here)
  BY <1>3, GrownSame
<1>6. /\ pooled \in CompilerType /\ Grown(fs, Here, pooled)
      /\ NamesConstant(FunctionObject(pooled), index) /\ index \in Nat
      /\ Scoped(pooled) /\ Settled(pooled)
  <2>1. Grown(fs, Here, pooled)
    BY <1>3, <1>4, GrownPool
  <2>2. Keeps(Here, pooled)
    BY <1>3, <1>4, KeepsSame, EmittedHere
  <2>3. QED
    BY <1>3, <1>4, <2>1, <2>2, PooledName, KeepsContinues DEF Keeps, Continues, Settled
<1> HIDE DEF pooled, index
<1>7. /\ variable \in CompilerType /\ Scoped(variable) /\ Grown(fs, pooled, variable)
      /\ variable.constant_pool = pooled.constant_pool
      /\ IF variable.current_scope_depth > 0 THEN Len(variable.locals) > 1 ELSE Settled(variable)
      /\ variable.current_scope_depth > 0 => Declares(variable, name)
  <2>1. /\ Continues(pooled, variable) /\ variable.current_scope_depth = pooled.current_scope_depth
        /\ IF pooled.current_scope_depth > 0 THEN Len(variable.locals) > 1
                                             ELSE variable.locals = pooled.locals
        /\ pooled.current_scope_depth > 0 => Declares(variable, name)
    BY <1>6, DeclareScoped, DeclaredIsFound
  <2>2. SameCode(pooled, variable)
    BY <1>6, SameCodeHere DEF SameCode
  <2> HIDE DEF variable
  <2>3. Grown(fs, pooled, variable)
    BY <1>3, <1>6, <2>1, <2>2, GrownSame DEF Continues
  <2>4. QED
    BY <1>6, <2>1, <2>2, <2>3 DEF Continues, Settled, SameCode
<1> HIDE DEF variable
<1>8. /\ declared \in CompilerType /\ Scoped(declared) /\ Grown(fs, variable, declared)
      /\ NamesConstant(FunctionObject(declared), index)
      /\ IF declared.current_scope_depth > 0 THEN Len(declared.locals) > 1 ELSE Settled(declared)
      /\ declared.current_scope_depth > 0 => Declares(declared, name)
  <2>1. "OP_CLASS" \in OpCodeName /\ "OP_CLASS" \in NameOps
    BY OpCodeNames DEF NameOps
  <2>2. NamesConstant(FunctionObject(variable), index)
    BY <1>6, <1>7, Seen DEF NamesConstant
  <2>3. OpIndex("OP_CLASS", index) \in Seq(0..255)
    BY <1>6, <2>1, OpBytes
  <2>4. FunctionObject(variable) \in FunctionType
    BY <1>7, Seen
  <2>5. Emittable(FunctionObject(variable), OpIndex("OP_CLASS", index))
    BY <2>1, <2>2, <2>4, EmittableOps
  <2>6. Grown(fs, variable, declared)
    BY <1>3, <1>7, <2>3, <2>5, GrownEmit
  <2>7. SamePool(variable, declared)
    BY <1>7, <2>3, EmitCode
  <2>8. Keeps(variable, declared)
    <3>1. index \in Int
      BY <1>6
    <3>2. QED
      BY <1>7, <2>1, <3>1, KeepsSame, EmittedHere
  <2> HIDE DEF declared
  <2>9. NamesConstant(FunctionObject(declared), index)
    BY <1>7, <2>2, <2>7, Seen DEF NamesConstant, SamePool
  <2>10. declared \in CompilerType /\ Scoped(declared)
    BY <1>7, <2>8, KeepsContinues DEF Continues
  <2>11. QED
    BY <1>7, <2>6, <2>8, <2>9, <2>10 DEF Keeps, Settled, Declares
<1> HIDE DEF declared
<1>9. /\ outside \in CompilerType /\ Grown(fs, declared, outside) /\ Scoped(outside)
      /\ outside.current_scope_depth > 0 => Declares(outside, name)
  <2>1. /\ outside \in CompilerType /\ outside.current_scope_depth = declared.current_scope_depth
        /\ Scoped(outside)
    BY <1>6, <1>8, DefineVariableScoped DEF Continues
  <2>2. Grown(fs, declared, outside)
    BY <1>3, <1>8, <2>1, GrownDefine
  <2>3. declared.current_scope_depth > 0 => Declares(outside, name)
    BY <1>8, DeclaredIsFound DEF DefineVariable
  <2>4. QED
    BY <2>1, <2>2, <2>3
<1> HIDE DEF outside
<1>10. /\ defined \in CompilerType /\ Grown(fs, outside, defined) /\ Scoped(defined)
       /\ defined.current_scope_depth > 0 => Declares(defined, name)
  <2>1. /\ defined \in CompilerType /\ defined.locals = outside.locals
        /\ defined.current_scope_depth = outside.current_scope_depth
    BY <1>9, WithClass
  <2>2. SameCode(outside, defined)
    BY <1>9, SameCodeHere DEF SameCode
  <2> HIDE DEF defined
  <2>3. Grown(fs, outside, defined)
    BY <1>3, <1>9, <2>1, <2>2, GrownSame
  <2>4. QED
    BY <1>9, <2>1, <2>3 DEF Declares, Scoped
<1> HIDE DEF defined
<1>11. Grown(fs, defined, named)
  <2>1. CASE defined.current_scope_depth > 0
    <3> DEFINE slot == ResolveVariable(defined, name)
    <3>1. slot \in 0..(Len(defined.locals) - 1) /\ Len(defined.locals) \in Nat
      <4>1. Len(defined.locals) \in Nat /\ defined.locals \in Seq(LocalType)
        BY <1>10 DEF CompilerType
      <4>2. QED
        BY <1>10, <2>1, <4>1, ResolveVariableType
    <3>2. slot \in Nat /\ "OP_GET_LOCAL" \in OpCodeName
      BY <3>1, OpCodeNames
    <3> HIDE DEF slot
    <3>3. FunctionObject(defined) \in FunctionType
      BY <1>10, Seen
    <3>4. /\ OpIndex("OP_GET_LOCAL", slot) \in Seq(0..255)
          /\ Emittable(FunctionObject(defined), OpIndex("OP_GET_LOCAL", slot))
      BY <3>2, <3>3, OpBytes, EmittableOps
    <3>5. Grown(fs, defined, Emit(defined, OpIndex("OP_GET_LOCAL", slot)))
      BY <1>3, <1>10, <3>4, GrownEmit
    <3>6. QED
      BY <2>1, <3>5 DEF slot
  <2>2. CASE ~(defined.current_scope_depth > 0)
    <3>1. /\ again \in CompilerType /\ NamesConstant(FunctionObject(again), LastConstant(again))
          /\ LastConstant(again) \in Nat
      BY <1>4, <1>10, PooledName
    <3>2. Grown(fs, defined, again)
      BY <1>3, <1>4, <1>10, GrownPool
    <3> DEFINE bytes == OpIndex("OP_GET_GLOBAL", LastConstant(again))
    <3>3. bytes \in Seq(0..255) /\ Emittable(FunctionObject(again), bytes)
      <4> HIDE DEF again
      <4>1. "OP_GET_GLOBAL" \in OpCodeName /\ "OP_GET_GLOBAL" \in NameOps
        BY OpCodeNames DEF NameOps
      <4>2. FunctionObject(again) \in FunctionType
        BY <3>1, Seen
      <4>3. QED
        BY <3>1, <4>1, <4>2, OpBytes, EmittableOps
    <3> HIDE DEF again, bytes
    <3>4. Grown(fs, again, Emit(again, bytes))
      BY <1>3, <3>1, <3>3, GrownEmit
    <3>5. Grown(fs, defined, Emit(again, bytes))
      BY <1>10, <3>2, <3>4, GrownThen
    <3>6. QED
      BY <2>2, <3>5 DEF bytes
  <2>3. QED
    BY <2>1, <2>2
<1> HIDE DEF named
<1>12. Grown(fs, Cur, named)
  <2>1. Grown(fs, Cur, pooled)
    BY <1>3, <1>5, <1>6, GrownThen
  <2>2. Grown(fs, Cur, variable)
    BY <1>3, <1>7, <2>1, GrownThen
  <2>3. Grown(fs, Cur, declared)
    BY <1>3, <1>8, <2>2, GrownThen
  <2>4. Grown(fs, Cur, outside)
    BY <1>3, <1>9, <2>3, GrownThen
  <2>5. Grown(fs, Cur, defined)
    BY <1>3, <1>10, <2>4, GrownThen
  <2>6. QED
    BY <1>3, <1>11, <2>5, GrownThen
<1>13. CASE Begin(WithLast(named), <<Rule("class")>>)
  <2>1. Todo(<<Rule("class")>>, {Rule("class")})
    BY Todos
  <2>2. \A q \in {Rule("class")} : q.rule \in FreeRule \ {"script", "function", "define"}
    BY FreeRules DEF FreeRule
  <2>3. QED
    BY <1>1, <1>12, <1>13, <2>1, <2>2, BeginGrown DEF fs
<1>14. QED
  BY <1>2, <1>13, ErrorCode

LEMMA EndClassCode ==
  ASSUME CompilerInv, CodeInv, EndClass
  PROVE  CodeInv'
<1> DEFINE fs == functions
           popped == Emit(Cur, Op("OP_POP"))
           d == [popped EXCEPT !.within_class = FALSE]
<1>1. rules # <<>> /\ Head(rules).rule = "class" /\ Continue(WithLast(d), <<>>)
  BY DEF EndClass, At
<1>2. fs \in Seq(FunctionType) /\ Cur \in CompilerType
  BY CodeHere
<1>3. SamePool(Cur, popped) /\ popped \in CompilerType
  BY <1>2, SamePoolHere, PopOps DEF SamePool, PlainOps
<1>4. Decodable(fs, FunctionObject(Cur)) => Grows(fs, Cur, popped, {}, {})
  BY <1>2, PlainGrows, PopOps
<1> HIDE DEF fs, popped
<1>5. d \in CompilerType
  BY <1>3, WithClass
<1>6. SameCode(popped, d)
  BY <1>3, SameCodeHere DEF SameCode
<1> HIDE DEF d
<1>7. SamePool(Cur, d)
  BY <1>3, <1>5, <1>6 DEF SamePool, SameCode
<1>8. ASSUME Decodable(fs, FunctionObject(Cur))
      PROVE  Grows(fs, Cur, d, {}, {})
  <2>1. Decodable(fs, FunctionObject(popped))
    BY <1>2, <1>4, <1>8, GrowsOn
  <2>2. Richer(FunctionObject(popped), FunctionObject(d))
    BY <1>3, <1>5, <1>6, EnrichedSame DEF Enriched
  <2>3. Grows(fs, popped, d, {}, {})
    BY <1>2, <1>3, <1>5, <1>6, <2>1, <2>2, SameCodeGrows DEF SameCode
  <2>4. QED
    BY <1>2, <1>4, <1>8, <2>3, GrowsThen
<1>9. Pending(Head(rules)) = {}
  BY <1>1, FreeRules, FreeCarries DEF FreeRule
<1>10. Head(rules).rule \notin {"script", "function"}
  BY <1>1
<1>11. QED
  BY <1>1, <1>7, <1>8, <1>9, <1>10, EndsCode DEF fs

-------------------------------------------------------------------------------
(***************************************************************************)
(* Functions: their compiler is pushed, with no code.                      *)
(***************************************************************************)
\* Of a function without code.
LEMMA Empty ==
  ASSUME NEW fs \in Seq(FunctionType), NEW f, f.byte_code = <<>>
  PROVE  Decodable(fs, f) /\ Starts(fs, f) = {0} /\ Instructions(fs, f) = {} /\ Open(fs, f) = {}
<1>1. f.byte_code \in Seq(0..255) /\ Len(f.byte_code) = 0
  OBVIOUS
<1>2. Decoded(fs, f, {0})
  <2>1. {0} \ {Len(f.byte_code)} = {} /\ {0} \subseteq 0..0
    BY <1>1
  <2>2. QED
    BY <1>1, <2>1 DEF Decoded
<1>3. Decodable(fs, f) /\ Starts(fs, f) = {0}
  BY <1>1, <1>2, StartsAre
<1>4. Instructions(fs, f) = {}
  BY <1>1, <1>3 DEF Instructions
<1>5. QED
  BY <1>3, <1>4 DEF Open

LEMMA PushedCode ==
  ASSUME NEW type \in {"FUNCTION", "METHOD"}, NEW name, NEW parameters \in Parameters, CompilerInv
  PROVE  LET c == BeginScope(FunctionCompiler(type, name, parameters)) IN
         c \in CompilerType /\ c.byte_code = <<>>
<1> DEFINE new == NewCompiler(type, Cur.within_class)
           begun == BeginScope(new)
           c == FunctionCompiler(type, name, parameters)
<1>1. Cur.within_class \in BOOLEAN
  BY CodeHere DEF CompilerType
<1>2. new \in CompilerType /\ new.byte_code = <<>>
  <2>1. new \in CompilerType
    BY <1>1, NewCompilerType
  <2>2. QED
    BY <2>1 DEF NewCompiler
<1>3. begun.byte_code = <<>>
  BY <1>2 DEF BeginScope, CompilerType
<1>4. \E kind, arity, locals :
        c = [begun EXCEPT !.function_type = kind, !.arity = arity, !.locals = locals]
  BY DEF FunctionCompiler, Parameters
<1>5. \A d : [begun EXCEPT !.current_scope_depth = d].byte_code = begun.byte_code
  OBVIOUS
<1>6. c.byte_code = <<>> /\ BeginScope(c).byte_code = <<>>
  <2> HIDE DEF new
  <2>1. begun = [new EXCEPT !.current_scope_depth = @ + 1]
    BY DEF BeginScope
  <2>2. PICK kind, arity, locals :
          c = [begun EXCEPT !.function_type = kind, !.arity = arity, !.locals = locals]
    BY <1>4
  <2> DEFINE d == [begun EXCEPT !.function_type = kind, !.arity = arity, !.locals = locals]
  <2>3. d.byte_code = begun.byte_code /\ BeginScope(d).byte_code = begun.byte_code
    BY <1>2, <2>1 DEF CompilerType, BeginScope
  <2>4. c = d
    BY <2>2
  <2> HIDE DEF begun, c, d
  <2>5. c.byte_code = begun.byte_code /\ BeginScope(c).byte_code = begun.byte_code
    BY <2>3, <2>4
  <2>6. QED
    BY <1>3, <2>5
<1>7. BeginScope(c) \in CompilerType
  BY FunctionCompilerScoped
<1>8. QED
  BY <1>6, <1>7

Joined(s, t, q) ==
  /\ Len(q) = Len(s) + Len(t)
  /\ \A i \in 1..Len(s) : q[i] = s[i]
  /\ \A i \in 1..Len(t) : q[Len(s) + i] = t[i]

LEMMA Joins ==
  ASSUME NEW S, NEW s \in Seq(S), NEW t \in Seq(S)
  PROVE  s \o t \in Seq(S) /\ Joined(s, t, s \o t)
BY DEF Joined

\* A function's body on top of what else is to do.
LEMMA BodyOn ==
  ASSUME NEW S, NEW rest \in Seq(S), NEW K \in Seq(Nat), Len(K) = Len(rest), NEW n \in Nat
  PROVE  LET rs == FunctionBody \o rest
             M  == <<n, n>> \o K
         IN  /\ rs[1].rule = "block" /\ rs[2].rule = "function"
             /\ M \in Seq(Nat) /\ Len(M) = Len(rest) + 2 /\ Len(rs) = Len(rest) + 2
             /\ M[1] = n /\ M[2] = n
             /\ \A i \in 1..Len(rest) : rs[i + 2] = rest[i] /\ M[i + 2] = K[i]
             /\ Last(rest) = rest[Len(rest)] /\ Last(rs) = rs[Len(rs)]
<1> DEFINE T == S \cup {Rule("block"), Rule("function")}
           body == FunctionBody
           base == <<n, n>>
<1>1. Rule("block").rule = "block" /\ Rule("function").rule = "function"
  BY DEF Rule
<1>2. body \in Seq(T) /\ Len(body) = 2 /\ body[1].rule = "block" /\ body[2].rule = "function"
  <2>1. \A u, v : \A U : u \in U /\ v \in U => <<u, v>> \in Seq(U)
    OBVIOUS
  <2>2. body = <<Rule("block"), Rule("function")>>
    BY DEF FunctionBody
  <2>3. body \in Seq(T)
    BY <2>1, <2>2
  <2>4. QED
    BY <1>1, <2>2, <2>3
<1>3. rest \in Seq(T)
  <2>1. \A U, V : \A s \in Seq(U) : s \in Seq(U \cup V)
    OBVIOUS
  <2>2. QED
    BY <2>1
<1>4. base \in Seq(Nat) /\ Len(base) = 2 /\ base[1] = n /\ base[2] = n
  OBVIOUS
<1> HIDE DEF T, body, base
<1>5. Joined(body, rest, body \o rest) /\ Joined(base, K, base \o K) /\ base \o K \in Seq(Nat)
  BY <1>2, <1>3, <1>4, Joins
<1>6. /\ Len(body \o rest) = 2 + Len(rest)
      /\ \A i \in 1..2 : (body \o rest)[i] = body[i]
      /\ \A i \in 1..Len(rest) : (body \o rest)[2 + i] = rest[i]
  BY <1>2, <1>5, Zenon DEF Joined
<1>7. /\ Len(base \o K) = 2 + Len(K)
      /\ \A i \in 1..2 : (base \o K)[i] = base[i]
      /\ \A i \in 1..Len(K) : (base \o K)[2 + i] = K[i]
  BY <1>4, <1>5, Zenon DEF Joined
<1>8. \A i \in 1..Len(rest) : i + 2 = 2 + i
  OBVIOUS
<1>9. 1 \in 1..2 /\ 2 \in 1..2 /\ 2 + Len(rest) = Len(rest) + 2
  OBVIOUS
<1>10. QED
  BY <1>2, <1>4, <1>5, <1>6, <1>7, <1>8, <1>9 DEF Last, body, base

LEMMA EnterCoded ==
  ASSUME NEW fs \in Seq(FunctionType), NEW cs \in Seq(CompilerType), cs # <<>>,
         NEW S, NEW rest \in Seq(S), rest # <<>>, Coded(fs, cs, rest),
         NEW c \in CompilerType, c.byte_code = <<>>
  PROVE  Coded(fs, Append(cs, c), FunctionBody \o rest)
<1> DEFINE n == Len(cs)
           ds == Append(cs, c)
           rs == FunctionBody \o rest
           o == Len(rest)
<1>1. PICK K : Placed(rest, n, K) /\ Promises(fs, cs, rest, K)
  BY DEF Coded
<1>2. /\ K \in Seq(Nat) /\ Len(K) = o /\ K[1] = n
      /\ Last(rest).rule = "script" /\ K[o] = 1
      /\ \A i \in 1..(o - 1) :
           rest[i].rule # "script" /\ K[i + 1] = K[i] - IF rest[i].rule = "function" THEN 1 ELSE 0
      /\ \A i, j \in 1..o : i <= j => K[j] <= K[i]
  BY <1>1 DEF Placed
<1>3. n \in Nat \ {0} /\ o \in Nat \ {0}
  OBVIOUS
<1> DEFINE M == <<n + 1, n + 1>> \o K
<1>4. /\ rs[1].rule = "block" /\ rs[2].rule = "function"
      /\ M \in Seq(Nat) /\ Len(M) = o + 2 /\ Len(rs) = o + 2
      /\ M[1] = n + 1 /\ M[2] = n + 1
      /\ \A i \in 1..o : rs[i + 2] = rest[i] /\ M[i + 2] = K[i]
      /\ Last(rest) = rest[o] /\ Last(rs) = rs[Len(rs)]
  <2>1. n + 1 \in Nat
    BY <1>3
  <2> HIDE DEF n
  <2>2. QED
    BY <1>2, <2>1, BodyOn
<1>5. /\ ds \in Seq(CompilerType) /\ Len(ds) = n + 1 /\ ds[n + 1] = c
      /\ \A k \in 1..n : ds[k] = cs[k]
  BY <1>3
<1> HIDE DEF n, ds, rs, o, M
<1>6. \A i \in 1..o : K[i] \in 1..n /\ K[i] # n + 1
  <2>1. ASSUME NEW i \in 1..o
        PROVE  K[i] \in 1..n /\ K[i] # n + 1
    <3>1. 1 \in 1..o /\ o \in 1..o /\ 1 <= i /\ i <= o
      BY <1>3
    <3>2. K[i] <= n /\ 1 <= K[i]
      BY <1>2, <3>1
    <3>3. K[i] \in Nat
      BY <1>2, <3>1
    <3>4. QED
      BY <1>3, <3>2, <3>3
  <2>2. QED
    BY <2>1
<1>7. \A i \in 1..(o + 2) : i = 1 \/ i = 2 \/ \E j \in 1..o : i = j + 2
  <2>1. \A i \in 1..(o + 2) : i = 1 \/ i = 2 \/ (i - 2 \in 1..o /\ i = (i - 2) + 2)
    BY <1>3
  <2>2. QED
    BY <2>1
<1>8. \A i \in 1..o : i + 2 \in 1..(o + 2)
  BY <1>3
<1>9. Placed(rs, n + 1, M)
  <2>1. Last(rs).rule = "script" /\ M[Len(M)] = 1
    <3>1. o \in 1..o
      BY <1>3
    <3>2. QED
      BY <1>2, <1>4, <3>1
  <2>2. ASSUME NEW i \in 1..(o + 1)
        PROVE  rs[i].rule # "script" /\ M[i + 1] = M[i] - IF rs[i].rule = "function" THEN 1 ELSE 0
    <3>1. CASE i = 1
      <4>1. n + 1 = (n + 1) - 0 /\ i + 1 = 2
        BY <1>3, <3>1
      <4>2. QED
        BY <1>4, <3>1, <4>1
    <3>2. CASE i = 2
      <4>1. n = (n + 1) - 1 /\ i + 1 = 1 + 2 /\ 1 \in 1..o
        BY <1>3, <3>2
      <4>2. M[1 + 2] = n
        BY <1>2, <1>4, <4>1
      <4>3. QED
        BY <1>4, <3>2, <4>1, <4>2
    <3>3. ASSUME NEW j \in 1..o, i = j + 2
          PROVE  rs[i].rule # "script" /\ M[i + 1] = M[i] - IF rs[i].rule = "function" THEN 1 ELSE 0
      <4>1. j \in 1..(o - 1) /\ j + 1 \in 1..o /\ i + 1 = (j + 1) + 2
        BY <1>3, <3>3
      <4>2. rs[i] = rest[j] /\ M[i] = K[j] /\ M[i + 1] = K[j + 1]
        BY <1>4, <3>3, <4>1
      <4>3. QED
        BY <1>2, <4>1, <4>2
    <3>4. i \in 1..(o + 2)
      BY <1>3
    <3>5. QED
      BY <1>7, <3>1, <3>2, <3>3, <3>4
  <2>3. ASSUME NEW i \in 1..(o + 2), NEW j \in 1..(o + 2), i <= j
        PROVE  M[j] <= M[i]
    <3>1. \A p \in 1..(o + 2) : M[p] \in Nat /\ M[p] <= n + 1
      <4>1. M[1] <= n + 1 /\ M[2] <= n + 1 /\ M[1] \in Nat /\ M[2] \in Nat
        BY <1>3, <1>4
      <4>2. \A p \in 1..o : M[p + 2] \in Nat /\ M[p + 2] <= n + 1
        <5>1. \A k \in 1..n : k \in Nat /\ k <= n + 1
          BY <1>3
        <5>2. QED
          BY <1>4, <1>6, <5>1
      <4>3. QED
        BY <1>7, <4>1, <4>2
    <3>2. CASE i = 1 \/ i = 2
      BY <1>4, <3>1, <3>2
    <3>3. ASSUME NEW p \in 1..o, i = p + 2
          PROVE  M[j] <= M[i]
      <4>1. j - 2 \in 1..o /\ j = (j - 2) + 2 /\ p <= j - 2
        BY <1>3, <2>3, <3>3
      <4>2. M[i] = K[p] /\ M[j] = K[j - 2]
        BY <1>4, <3>3, <4>1
      <4>3. QED
        BY <1>2, <4>1, <4>2
    <3>4. QED
      BY <1>7, <3>2, <3>3
  <2>4. Len(M) - 1 = o + 1
    BY <1>3, <1>4
  <2>5. QED
    BY <1>4, <2>1, <2>2, <2>3, <2>4 DEF Placed
<1>10. Decodable(fs, FunctionObject(c)) /\ Open(fs, FunctionObject(c)) = {}
  BY Seen, Empty
<1>11. \A k \in 1..(n + 1) : k \in 1..n \/ k = n + 1
  BY <1>3
<1>12. CompilersCoded(fs, ds)
  <2>1. CompilersCoded(fs, cs)
    BY DEF Coded
  <2>2. \A k \in 1..n : ConstantsFit(FunctionObject(cs[k])) => Decodable(fs, FunctionObject(cs[k]))
    BY <2>1 DEF CompilersCoded, n
  <2>3. QED
    BY <1>5, <1>10, <1>11, <2>2 DEF CompilersCoded
<1>13. ASSUME NEW i \in 1..o
       PROVE  LET f == FunctionObject(cs[K[i]]) IN
              /\ ConstantsFit(f) => Carries(fs, rest[i], f)
              /\ rest[i].rule = "define" => NamesConstant(f, rest[i].index) \/ Inside(rs, i + 2)
  <2>1. /\ ConstantsFit(FunctionObject(cs[K[i]])) => Carries(fs, rest[i], FunctionObject(cs[K[i]]))
        /\ rest[i].rule = "define" => NamesConstant(FunctionObject(cs[K[i]]), rest[i].index)
                                        \/ Inside(rest, i)
    BY <1>1 DEF Promises, o
  <2>2. ASSUME Inside(rest, i)
        PROVE  Inside(rs, i + 2)
    <3>1. PICK j \in 1..o : i < j /\ rest[j].rule \in ScopedRule \cup {"function"}
      BY <2>2 DEF Inside, o
    <3>2. j + 2 \in 1..Len(rs) /\ i + 2 < j + 2 /\ rs[j + 2] = rest[j]
      BY <1>4, <1>8, <3>1
    <3>3. QED
      BY <3>1, <3>2 DEF Inside
  <2>3. QED
    BY <2>1, <2>2
<1>14. ASSUME NEW i \in 1..Len(rs)
       PROVE  LET f == FunctionObject(ds[M[i]]) IN
              /\ ConstantsFit(f) => Carries(fs, rs[i], f)
              /\ rs[i].rule = "define" => NamesConstant(f, rs[i].index) \/ Inside(rs, i)
  <2>1. CASE i = 1 \/ i = 2
    <3>1. rs[i].rule \in {"block", "function"}
      BY <1>4, <2>1
    <3>2. Free(rs[i])
      BY <3>1, FreeRules DEF FreeRule
    <3>3. QED
      BY <3>1, <3>2, FreeCarries
  <2>2. ASSUME NEW j \in 1..o, i = j + 2
        PROVE  LET f == FunctionObject(ds[M[i]]) IN
               /\ ConstantsFit(f) => Carries(fs, rs[i], f)
               /\ rs[i].rule = "define" => NamesConstant(f, rs[i].index) \/ Inside(rs, i)
    <3>1. rs[i] = rest[j] /\ M[i] = K[j] /\ ds[K[j]] = cs[K[j]]
      BY <1>4, <1>5, <1>6, <2>2
    <3>2. QED
      BY <1>13, <2>2, <3>1
  <2>3. QED
    BY <1>4, <1>7, <2>1, <2>2
<1>15. ASSUME NEW k \in 1..(n + 1), ConstantsFit(FunctionObject(ds[k])), CodeFits(FunctionObject(ds[k])),
              NEW offset \in Open(fs, FunctionObject(ds[k]))
       PROVE  \E i \in 1..Len(rs) : M[i] = k /\ offset \in Pending(rs[i])
  <2>1. k \in 1..n
    BY <1>5, <1>10, <1>11, <1>15
  <2>2. ds[k] = cs[k]
    BY <1>5, <2>1
  <2>3. PICK j \in 1..o : K[j] = k /\ offset \in Pending(rest[j])
    BY <1>1, <1>15, <2>1, <2>2 DEF Promises, n, o
  <2>4. j + 2 \in 1..Len(rs) /\ M[j + 2] = k /\ rs[j + 2] = rest[j]
    BY <1>4, <1>8, <2>3
  <2>5. QED
    BY <2>3, <2>4
<1>16. Promises(fs, ds, rs, M)
  BY <1>5, <1>14, <1>15 DEF Promises
<1>17. Coded(fs, ds, rs)
  BY <1>5, <1>9, <1>12, <1>16 DEF Coded
<1>18. QED
  BY <1>17 DEF ds, rs

LEMMA EnterCode ==
  ASSUME CompilerInv, CodeInv, rules # <<>>, NEW d, Grown(functions, Cur, d),
         NEW done, NEW rest, Rests(rules, done, rest), Free(done),
         NEW q, q.rule \notin {"script", "function"}, Carries(functions, q, FunctionObject(d)),
         q.rule = "define" =>
           NamesConstant(FunctionObject(d), q.index) \/ Inside(<<q>> \o rest, 1),
         NEW type \in {"FUNCTION", "METHOD"}, NEW name, NEW parameters \in Parameters,
         UNCHANGED functions, compilers' = EnterFunction(d, type, name, parameters),
         rules' = FunctionBody \o (<<q>> \o rest)
  PROVE  CodeInv'
<1> DEFINE R  == RuleType \cup {q}
           fs == functions
           cs == compilers
           ds == WithLast(d)
           rs == rules
           next == <<q>>
           c  == BeginScope(FunctionCompiler(type, name, parameters))
<1>1. /\ fs \in Seq(FunctionType) /\ cs \in Seq(CompilerType) /\ cs # <<>> /\ rs \in Seq(RuleType)
  BY DEF CompilerInv, TypeOK
<1>2. /\ d \in CompilerType /\ Len(ds) = Len(cs) /\ Last(ds) = d /\ ds \in Seq(CompilerType)
      /\ \A k \in 1..(Len(cs) - 1) : Enriched(cs[k], ds[k])
  BY OnlyLast DEF Grown
<1>3. rs \in Seq(R) /\ next \in Seq(R) /\ Len(next) = 1 /\ next[1] = q
  <2>1. \A S, U : \A s \in Seq(S) : S \subseteq U => s \in Seq(U)
    OBVIOUS
  <2>2. next \in Seq(R) /\ Len(next) = 1 /\ next[1] = q
    OBVIOUS
  <2>3. RuleType \subseteq R
    OBVIOUS
  <2> HIDE DEF R, rs, next
  <2>4. QED
    BY <1>1, <2>1, <2>2, <2>3
<1>4. Range(next) = {q} /\ Last(cs) = Cur /\ Coded(fs, cs, rs) /\ rs # <<>>
  <2>1. Range(next) = {q}
    BY Todos DEF Todo
  <2>2. QED
    BY <2>1 DEF Cur, CodeInv
<1>5. Advances(fs, done, Last(cs), Last(ds), Range(next))
  <2>1. Pending(done) = {}
    BY FreeCarries
  <2>2. {} \cup ({} \ {}) \subseteq AllPending({q})
    OBVIOUS
  <2>3. Advances(fs, done, Cur, d, {q})
    BY <2>1, <2>2 DEF Advances, Grown
  <2> HIDE DEF next, cs, ds, fs
  <2>4. QED
    BY <1>2, <1>4, <2>3
<1>6. \A i \in 1..Len(next) : next[i].rule \notin {"script", "function"}
  BY <1>3
<1>7. \A i \in 1..Len(next) : next[i].rule = "define" =>
           \/ NamesConstant(FunctionObject(Last(ds)), next[i].index)
           \/ Inside(next \o rest, i)
  <2>1. \A i \in 1..Len(next) : i = 1
    BY <1>3
  <2>2. q.rule = "define" => NamesConstant(FunctionObject(d), q.index) \/ Inside(next \o rest, 1)
    OBVIOUS
  <2> HIDE DEF next, ds
  <2>3. QED
    BY <1>2, <1>3, <2>1, <2>2
<1>8. Rests(rs, done, rest)
  OBVIOUS
<1>9. /\ rules' = FunctionBody \o (next \o rest)
      /\ compilers' = Append(ds, c)
      /\ functions' = fs
  BY DEF EnterFunction
<1>10. next \o rest \in Seq(R) /\ next \o rest # <<>>
  <2>1. rest \in Seq(R)
    <3>1. \A s \in Seq(R) : s # <<>> => Tail(s) \in Seq(R)
      OBVIOUS
    <3> HIDE DEF R, rs
    <3>2. QED
      BY <1>3, <1>4, <1>8, <3>1 DEF Rests
  <2>2. ASSUME NEW s \in Seq(R), NEW t \in Seq(R), Len(s) = 1
        PROVE  s \o t \in Seq(R) /\ s \o t # <<>>
    <3>1. s \o t \in Seq(R) /\ Len(s \o t) = 1 + Len(t) /\ Len(t) \in Nat
      <4>1. s \o t \in Seq(R) /\ Joined(s, t, s \o t)
        BY Joins
      <4>2. Len(t) \in Nat
        OBVIOUS
      <4>3. QED
        BY <2>2, <4>1, <4>2 DEF Joined
    <3>2. \A k \in Nat : 1 + k # 0
      OBVIOUS
    <3>3. \A u : Len(u) # 0 => u # <<>>
      OBVIOUS
    <3>4. QED
      BY <3>1, <3>2, <3>3, Zenon
  <2> HIDE DEF R, next
  <2>3. QED
    BY <1>3, <2>1, <2>2
<1>11. c \in CompilerType /\ c.byte_code = <<>>
  BY PushedCode
<1> HIDE DEF R, fs, cs, ds, rs, next, c
<1>12. Coded(fs, ds, next \o rest)
  BY <1>1, <1>2, <1>3, <1>4, <1>5, <1>6, <1>7, <1>8, CodeStep
<1>13. ds # <<>>
  <2>1. Len(cs) # 0
    BY <1>1
  <2>2. \A s : Len(s) # 0 => s # <<>>
    OBVIOUS
  <2>3. QED
    BY <1>2, <2>1, <2>2
<1>14. Coded(fs, Append(ds, c), FunctionBody \o (next \o rest))
  BY <1>1, <1>2, <1>10, <1>11, <1>12, <1>13, EnterCoded
<1>15. QED
  BY <1>9, <1>14 DEF CodeInv

LEMMA FunctionDeclarationCode ==
  ASSUME CompilerInv, CodeInv, NEW name \in Names, NEW parameters \in Parameters,
         FunctionDeclaration(name, parameters)
  PROVE  CodeInv'
<1> DEFINE fs     == functions
           parsed == ParseVariable(Here, name)
           marked == MarkInitialized(parsed)
           index  == VariableIndex(marked)
           depth  == Cur.current_scope_depth
           q      == Defines(index)
<1>1. StatementExpected
  BY Expected DEF FunctionDeclaration
<1>2. \/ ReportError
      \/ /\ compilers' = EnterFunction(marked, "FUNCTION", name, parameters)
         /\ rules' = (FunctionBody \o <<q>>) \o Rest /\ UNCHANGED functions
  BY DEF FunctionDeclaration, Begin, Rest
<1>3. /\ fs \in Seq(FunctionType) /\ Cur \in CompilerType
      /\ Here \in CompilerType /\ SameCode(Cur, Here) /\ Scoped(Here) /\ Settled(Here)
      /\ Here.current_scope_depth = depth /\ depth \in Nat
  BY <1>1, CodeHere, BeganHere DEF CompilerType
<1>4. /\ parsed \in CompilerType /\ parsed.current_scope_depth = depth /\ Scoped(parsed)
      /\ IF depth > 0 THEN Len(parsed.locals) > 1 ELSE Settled(parsed)
  BY <1>3, ParseVariableScoped DEF Continues
<1>5. /\ Grown(fs, Here, parsed)
      /\ depth > 0 \/ NamesConstant(FunctionObject(parsed), VariableIndex(parsed))
  BY <1>3, <1>4, ParseGrows DEF Grown
<1>6. marked \in CompilerType /\ marked.current_scope_depth = depth /\ SameCode(parsed, marked)
  <2>1. Continues(parsed, marked) /\ marked.current_scope_depth = depth
    BY <1>3, <1>4, MarkScoped
  <2>2. SameCode(parsed, marked)
    BY <1>4, <2>1, SameCodeHere DEF SameCode, Continues
  <2>3. QED
    BY <2>1, <2>2 DEF Continues
<1> HIDE DEF fs, parsed, marked
<1>7. Grown(fs, Cur, marked)
  <2>1. Grown(fs, Cur, Here) /\ Grown(fs, parsed, marked)
    BY <1>3, <1>4, <1>6, GrownSame
  <2>2. Grown(fs, Cur, parsed)
    BY <1>3, <1>5, <2>1, GrownThen
  <2>3. QED
    BY <1>3, <2>1, <2>2, GrownThen
<1>8. depth > 0 \/ NamesConstant(FunctionObject(marked), index)
  <2>1. SamePool(parsed, marked)
    BY <1>4, <1>6, SameCodeHere DEF SameCode
  <2>2. /\ marked.constant_pool = parsed.constant_pool
        /\ FunctionObject(marked).constant_pool = FunctionObject(parsed).constant_pool
    <3>1. marked.constant_pool = parsed.constant_pool
      BY <1>6 DEF SameCode
    <3>2. QED
      BY <1>4, <1>6, <3>1, Seen
  <2>3. index = VariableIndex(parsed)
    BY <1>4, <1>6, <2>2 DEF VariableIndex, LastConstant
  <2>4. QED
    BY <1>5, <2>2, <2>3 DEF NamesConstant
<1> HIDE DEF index
<1>9. q.rule = "define" /\ q.index = index /\ Free(q)
  <2>1. q.rule = "define" /\ q.index = index
    BY DEF Defines
  <2>2. QED
    BY <2>1 DEF Free, LoopRule, ExitRule
<1>10. /\ rules # <<>> /\ Rest \in Seq(RuleType)
       /\ depth > 0 => \E p \in 1..Len(Rest) : Rest[p].rule \in ScopedRule \cup {"function"}
  BY <1>1, RestOf DEF StatementExpected
<1>11. PICK last : Rests(rules, last, Rest) /\ Free(last)
  BY <1>1, RestOf DEF StatementExpected
<1>12. depth > 0 => Inside(<<q>> \o Rest, 1)
  <2> SUFFICES ASSUME depth > 0
               PROVE  Inside(<<q>> \o Rest, 1)
    OBVIOUS
  <2>1. PICK p \in 1..Len(Rest) : Rest[p].rule \in ScopedRule \cup {"function"}
    BY <1>10
  <2>2. PICK S : Rest \in Seq(S) /\ <<q>> \in Seq(S)
    <3>1. Rest \in Seq(RuleType \cup {q}) /\ <<q>> \in Seq(RuleType \cup {q})
      BY <1>10
    <3>2. QED
      BY <3>1
  <2> DEFINE s == <<q>>
  <2>3. Len(s) = 1
    OBVIOUS
  <2> HIDE DEF s
  <2>4. Joined(s, Rest, s \o Rest)
    BY <2>2, Joins DEF s
  <2>5. /\ Len(s \o Rest) = 1 + Len(Rest)
        /\ \A i \in 1..Len(Rest) : (s \o Rest)[1 + i] = Rest[i]
    BY <2>3, <2>4, Zenon DEF Joined
  <2>6. 1 + p \in 1..Len(s \o Rest) /\ 1 < 1 + p
    BY <1>10, <2>5
  <2>7. (s \o Rest)[1 + p].rule \in ScopedRule \cup {"function"}
    BY <2>1, <2>5
  <2>8. QED
    BY <2>6, <2>7 DEF Inside, s
<1>13. (FunctionBody \o <<q>>) \o Rest = FunctionBody \o (<<q>> \o Rest)
  <2>1. index \in Int
    <3>1. marked.constant_pool \in Seq(ConstantValue)
      BY <1>6 DEF CompilerType
    <3>2. QED
      BY <3>1 DEF VariableIndex, LastConstant, index
  <2>2. q \in RuleType
    BY <2>1, RuleTypes
  <2>3. QED
    BY <1>10, <2>2, BodyFirst
<1>14. CASE /\ compilers' = EnterFunction(marked, "FUNCTION", name, parameters)
            /\ rules' = (FunctionBody \o <<q>>) \o Rest /\ UNCHANGED functions
  <2>1. rules' = FunctionBody \o (<<q>> \o Rest)
    BY <1>13, <1>14
  <2>2. Carries(functions, q, FunctionObject(marked))
    BY <1>9, FreeCarries
  <2>3. Grown(functions, Cur, marked)
    BY <1>7 DEF fs
  <2>4. q.rule \notin {"script", "function"}
    BY <1>9
  <2>5. q.rule = "define" =>
          NamesConstant(FunctionObject(marked), q.index) \/ Inside(<<q>> \o Rest, 1)
    BY <1>8, <1>9, <1>12
  <2>6. "FUNCTION" \in {"FUNCTION", "METHOD"}
    OBVIOUS
  <2>7. compilers' = EnterFunction(marked, "FUNCTION", name, parameters) /\ UNCHANGED functions
    BY <1>14
  <2> HIDE DEF q, depth
  <2>8. QED
    BY <1>10, <1>11, <2>1, <2>2, <2>3, <2>4, <2>5, <2>6, <2>7, EnterCode
<1>15. QED
  BY <1>2, <1>14, ErrorCode

LEMMA MethodCode ==
  ASSUME CompilerInv, CodeInv, NEW name \in Members, NEW parameters \in Parameters,
         Method(name, parameters)
  PROVE  CodeInv'
<1> DEFINE fs     == functions
           pooled == Pool(Cur, Name(name))
           index  == LastConstant(pooled)
           bytes  == OpIndex("OP_METHOD", index)
           q      == Emits(bytes)
           done   == Rule("statement")
<1>1. rules # <<>> /\ rules \in Seq(RuleType)
  BY DEF Method, At, CompilerInv
<1>2. \/ ReportError
      \/ /\ compilers' = EnterFunction(pooled, "METHOD", name, parameters)
         /\ rules' = (FunctionBody \o <<q>>) \o rules /\ UNCHANGED functions
  BY DEF Method
<1>3. fs \in Seq(FunctionType) /\ Cur \in CompilerType /\ Name(name) \in ConstantValue
  BY CodeHere, ConstantTypes
<1>4. /\ pooled \in CompilerType /\ Grown(fs, Cur, pooled)
      /\ NamesConstant(FunctionObject(pooled), index) /\ index \in Nat
  <2>1. Grown(fs, Cur, pooled)
    BY <1>3, GrownPool
  <2>2. QED
    BY <1>3, <2>1, PooledName DEF Grown
<1> HIDE DEF fs, pooled, index
<1>5. Emittable(FunctionObject(pooled), bytes) /\ bytes \in Seq(0..255)
  <2>1. "OP_METHOD" \in OpCodeName /\ "OP_METHOD" \in NameOps
    BY OpCodeNames DEF NameOps
  <2>2. FunctionObject(pooled) \in FunctionType
    BY <1>4, Seen
  <2>3. bytes \in Seq(0..255)
    BY <1>4, <2>1, OpBytes
  <2>4. QED
    BY <1>4, <2>1, <2>2, <2>3, EmittableOps
<1> HIDE DEF bytes
<1>6. q.rule = "emit" /\ q.bytes = bytes /\ q \in RuleType
  <2>1. q.rule = "emit" /\ q.bytes = bytes
    BY DEF Emits
  <2>2. QED
    BY <1>5, <2>1, RuleTypes
<1>7. Carries(functions, q, FunctionObject(pooled))
  <2>1. Pending(q) = {} /\ Returns(q) = {}
    BY <1>6 DEF Pending, Returns, LoopRule, ExitRule
  <2>2. QED
    BY <1>5, <1>6, <2>1 DEF Carries
<1>8. Rests(rules, done, rules) /\ Free(done)
  <2>1. Free(done)
    BY DEF Free, Rule, LoopRule, ExitRule
  <2>2. QED
    BY <2>1 DEF Rests
<1>9. (FunctionBody \o <<q>>) \o rules = FunctionBody \o (<<q>> \o rules)
  BY <1>1, <1>6, BodyFirst
<1>10. CASE /\ compilers' = EnterFunction(pooled, "METHOD", name, parameters)
            /\ rules' = (FunctionBody \o <<q>>) \o rules /\ UNCHANGED functions
  <2>1. rules' = FunctionBody \o (<<q>> \o rules)
    BY <1>9, <1>10
  <2>2. Grown(functions, Cur, pooled)
    BY <1>4 DEF fs
  <2>3. q.rule \notin {"script", "function"} /\ q.rule # "define"
    BY <1>6
  <2>4. "METHOD" \in {"FUNCTION", "METHOD"}
    OBVIOUS
  <2>5. compilers' = EnterFunction(pooled, "METHOD", name, parameters) /\ UNCHANGED functions
    BY <1>10
  <2> HIDE DEF q, done
  <2>6. QED
    BY <1>1, <1>7, <1>8, <2>1, <2>2, <2>3, <2>4, <2>5, EnterCode
<1>11. QED
  BY <1>2, <1>10, ErrorCode

-------------------------------------------------------------------------------
(***************************************************************************)
(* The end of a function: its code is whole, and the functions are more.   *)
(***************************************************************************)
\* Code is judged by the functions that are closures in it.
LEMMA AmongMore ==
  ASSUME NEW fs \in Seq(FunctionType), NEW gs \in Seq(FunctionType), Len(fs) <= Len(gs),
         \A i \in 2..Len(fs) : gs[i] = fs[i],
         NEW f \in FunctionType, Decodable(fs, f)
  PROVE  /\ Decodable(gs, f) /\ Starts(gs, f) = Starts(fs, f)
         /\ Instructions(gs, f) = Instructions(fs, f)
         /\ Jumps(gs, f) = Jumps(fs, f) /\ Open(gs, f) = Open(fs, f)
         /\ \A ip \in Instructions(fs, f) : Length(gs, f, ip) = Length(fs, f, ip)
<1> DEFINE S == Starts(fs, f)
<1>1. Decoded(fs, f, S)
  BY StartsDecode
<1>2. \A id \in 2..Len(fs) : id \in 2..Len(gs)
  OBVIOUS
<1> HIDE DEF S
<1>3. ASSUME NEW ip \in S \ {Len(f.byte_code)}
      PROVE  Valid(gs, f, ip) /\ Length(gs, f, ip) = Length(fs, f, ip)
  <2>1. Valid(fs, f, ip)
    BY <1>1 DEF Decoded
  <2>2. OpOf(f, ip) = "OP_CLOSURE" =>
          /\ InnerId(f, ip) \in 2..Len(gs) /\ gs[InnerId(f, ip)] = fs[InnerId(f, ip)]
    BY <1>2, <2>1 DEF Valid
  <2>3. QED
    BY <2>1, <2>2 DEF Valid, Length
<1>4. Decoded(gs, f, S)
  BY <1>1, <1>3 DEF Decoded
<1>5. f.byte_code \in Seq(0..255)
  BY FieldTypes
<1>6. Starts(gs, f) = S /\ Decodable(gs, f)
  BY <1>4, <1>5, StartsAre
<1>7. Starts(fs, f) = S
  BY DEF S
<1>8. QED
  BY <1>3, <1>6, <1>7 DEF Instructions, Jumps, Open

LEMMA FinishedAmongMore ==
  ASSUME NEW fs \in Seq(FunctionType), NEW gs \in Seq(FunctionType), Len(fs) <= Len(gs),
         \A i \in 2..Len(fs) : gs[i] = fs[i],
         NEW f \in FunctionType, Finished(fs, f)
  PROVE  Finished(gs, f)
<1>1. Decodable(fs, f)
  BY DEF Finished
<1>2. /\ Decodable(gs, f) /\ Instructions(gs, f) = Instructions(fs, f)
      /\ \A ip \in Instructions(fs, f) : Length(gs, f, ip) = Length(fs, f, ip)
  BY <1>1, AmongMore
<1>3. QED
  BY <1>2 DEF Finished

\* endCompiler makes the code whole.
LEMMA EndsFinished ==
  ASSUME NEW fs \in Seq(FunctionType), NEW c \in CompilerType,
         ConstantsFit(FunctionObject(c)) => Decodable(fs, FunctionObject(c)),
         ConstantsFit(FunctionObject(c)) /\ CodeFits(FunctionObject(c)) => Open(fs, FunctionObject(c)) = {}
  PROVE  LET e == EndCompiler(c) IN
         /\ SamePool(c, e) /\ FunctionObject(e) \in FunctionType
         /\ ConstantsFit(FunctionObject(e)) => Finished(fs, FunctionObject(e))
<1> DEFINE e     == EndCompiler(c)
           value == IF c.function_type = "INITIALIZER" THEN OpIndex("OP_GET_LOCAL", 0)
                                                       ELSE Op("OP_NIL")
           d     == Emit(c, value)
           f     == FunctionObject(d)
           g     == FunctionObject(e)
           n     == Len(d.byte_code)
<1>1. "OP_GET_LOCAL" \in OpCodeName /\ "OP_NIL" \in PlainOps /\ "OP_RETURN" \in PlainOps
  BY OpCodeNames DEF PlainOps, IndexOps
<1>2. value \in Seq(0..255) /\ Op("OP_RETURN") \in Seq(0..255)
  <2>1. "OP_NIL" \in OpCodeName /\ "OP_RETURN" \in OpCodeName
    BY <1>1 DEF PlainOps
  <2>2. QED
    BY <1>1, <2>1, OpBytes
<1>3. Emittable(FunctionObject(c), value)
  <2>1. FunctionObject(c) \in FunctionType
    BY Seen
  <2>2. QED
    BY <1>1, <2>1, EmittableOps
<1>4. e = Emit(c, value \o Op("OP_RETURN"))
  BY DEF EndCompiler
<1> HIDE DEF value
<1>5. d \in CompilerType /\ SamePool(c, d) /\ d.byte_code = c.byte_code \o value
  BY <1>2, EmitCode DEF SamePool
<1>6. SamePool(c, e) /\ e.byte_code = c.byte_code \o (value \o Op("OP_RETURN"))
  <2>1. value \o Op("OP_RETURN") \in Seq(0..255)
    BY <1>2
  <2>2. QED
    BY <1>4, <2>1, EmitCode
<1> HIDE DEF d, e
<1>7. Behind(d, e, Op("OP_RETURN"))
  <2>1. c.byte_code \in Seq(0..255)
    BY Seen
  <2>2. Regroups(c.byte_code, value, Op("OP_RETURN"))
    BY <1>2, <2>1, Regrouped, Zenon
  <2>3. e.byte_code = d.byte_code \o Op("OP_RETURN")
    BY <1>5, <1>6, <2>2, Zenon DEF Regroups
  <2>4. QED
    BY <1>5, <1>6, <2>3 DEF Behind, SamePool
<1>8. f \in FunctionType /\ g \in FunctionType /\ f.byte_code = d.byte_code /\ n \in Nat
      /\ g.byte_code = e.byte_code /\ Len(g.byte_code) = n + 1
  <2>1. e \in CompilerType
    BY <1>6 DEF SamePool
  <2>2. Len(Op("OP_RETURN")) = 1
    BY <1>1, OpBytes DEF PlainOps
  <2>3. Len(e.byte_code) = n + 1
    <3>1. Len(e.byte_code) = Len(d.byte_code) + Len(Op("OP_RETURN"))
      BY <1>2, <1>5, <1>7, BehindAt, Zenon
    <3>2. QED
      BY <2>2, <3>1
  <2>4. QED
    BY <1>5, <2>1, <2>3, Seen
<1>9. ASSUME ConstantsFit(g)
      PROVE  Finished(fs, g)
  <2>1. ConstantsFit(FunctionObject(c))
    BY <1>6, <1>9, SamePoolRicher
  <2>2. Grows(fs, c, d, {}, {})
    BY <1>2, <1>3, <2>1, EmitGrows DEF d
  <2>3. Decodable(fs, f) /\ Follows(fs, FunctionObject(c), f, {}, {})
    BY <2>2, GrowsOn DEF Grows
  <2>4. /\ Follows(fs, f, g, {}, {})
        /\ Instructions(fs, g) = Instructions(fs, f) \cup {n}
        /\ OpOf(g, n) = "OP_RETURN" /\ Landing(g, n) = {} /\ Length(fs, g, n) = 1
        /\ \A ip \in Instructions(fs, f) :
             /\ OpOf(g, ip) = OpOf(f, ip) /\ Landing(g, ip) = Landing(f, ip)
             /\ Length(fs, g, ip) = Length(fs, f, ip)
    BY <1>1, <1>5, <1>7, <2>3, BehindPlain
  <2> HIDE DEF f, g, n
  <2>5. Decodable(fs, g)
    BY <2>4 DEF Follows
  <2>6. /\ Decoded(fs, f, Starts(fs, f)) /\ Len(f.byte_code) = n
    BY <1>8, <2>3, StartsDecode DEF n
  <2>7. /\ Starts(fs, f) \subseteq 0..n /\ n \in Starts(fs, f)
        /\ Instructions(fs, f) = Starts(fs, f) \ {n}
        /\ Instructions(fs, g) = Starts(fs, f)
        /\ \A ip \in Instructions(fs, f) : ip + Length(fs, f, ip) \in Starts(fs, f)
    <3>1. /\ Starts(fs, f) \subseteq 0..n /\ n \in Starts(fs, f)
          /\ Instructions(fs, f) = Starts(fs, f) \ {n}
          /\ \A ip \in Starts(fs, f) \ {n} : ip + Length(fs, f, ip) \in Starts(fs, f)
      BY <2>6 DEF Decoded, Instructions
    <3>2. QED
      BY <2>4, <3>1
  <2>8. \A s \in 0..n : s # n + 1
    BY <1>8
  <2>9. ASSUME NEW ip \in Instructions(fs, g), ip + Length(fs, g, ip) = Len(g.byte_code)
        PROVE  OpOf(g, ip) = "OP_RETURN"
    <3>1. ip \in Instructions(fs, f) => ip + Length(fs, g, ip) \in 0..n
      BY <2>4, <2>7
    <3>2. ip \notin Instructions(fs, f)
      BY <1>8, <2>8, <2>9, <3>1
    <3>3. QED
      BY <2>4, <3>2
  <2>10. ASSUME CodeFits(g), NEW ip \in Instructions(fs, g)
         PROVE  Landing(g, ip) \subseteq Instructions(fs, g)
    <3>1. CodeFits(f)
      <4>1. Len(g.byte_code) <= MAX_INDEX_SIZE
        BY <2>10 DEF CodeFits
      <4>2. \A x : x \in Nat /\ x + 1 <= MAX_INDEX_SIZE => x <= MAX_INDEX_SIZE
        BY DEF MAX_INDEX_SIZE
      <4>3. n <= MAX_INDEX_SIZE
        BY <1>8, <4>1, <4>2
      <4>4. QED
        BY <2>6, <4>3 DEF CodeFits
    <3>2. CodeFits(FunctionObject(c))
      <4>1. Len(FunctionObject(c).byte_code) <= Len(f.byte_code)
        BY <2>3 DEF Follows
      <4>2. Len(FunctionObject(c).byte_code) \in Nat /\ Len(f.byte_code) \in Nat
        BY <1>8, Seen, FieldTypes
      <4>3. \A x, y \in Nat : x <= y /\ y <= MAX_INDEX_SIZE => x <= MAX_INDEX_SIZE
        BY DEF MAX_INDEX_SIZE
      <4>4. QED
        BY <3>1, <4>1, <4>2, <4>3 DEF CodeFits
    <3>3. Open(fs, f) = {}
      BY <2>1, <2>3, <3>1, <3>2 DEF Follows
    <3>4. CASE ip = n
      BY <2>4, <3>4
    <3>5. CASE ip # n
      <4>1. ip \in Instructions(fs, f)
        BY <2>4, <3>5
      <4>2. Landing(f, ip) \subseteq Starts(fs, f)
        BY <3>3, <4>1 DEF Open
      <4>3. QED
        BY <2>4, <2>7, <4>1, <4>2
    <3>6. QED
      BY <3>4, <3>5
  <2>11. QED
    BY <2>5, <2>9, <2>10 DEF Finished
<1>10. QED
  BY <1>6, <1>8, <1>9 DEF e, g

-------------------------------------------------------------------------------
(***************************************************************************)
(* A closure is made of the function that ends.                            *)
(***************************************************************************)
CapturedBytes(upvalues) == FlattenSeq([i \in DOMAIN upvalues |-> UpvalueBytes(upvalues[i])])

\* What OP_CLOSURE reads of each upvalue.
LEMMA UpvaluesRead ==
  ASSUME NEW upvalues \in Seq(UpvalueType)
  PROVE  /\ CapturedBytes(upvalues) \in Seq(0..255)
         /\ Len(CapturedBytes(upvalues)) = 3 * Len(upvalues)
         /\ \A u \in 1..Len(upvalues) :
              /\ CapturedBytes(upvalues)[3 * (u - 1) + 1] = upvalues[u].type
              /\ CapturedBytes(upvalues)[3 * (u - 1) + 2] = IndexBytes(upvalues[u].index)[1]
              /\ CapturedBytes(upvalues)[3 * (u - 1) + 3] = IndexBytes(upvalues[u].index)[2]
              /\ upvalues[u].index \in Nat
<1> DEFINE seqs == [i \in DOMAIN upvalues |-> UpvalueBytes(upvalues[i])]
<1>1. ASSUME NEW v \in UpvalueType
      PROVE  LET bytes == UpvalueBytes(v) IN
             /\ bytes \in Seq(0..255) /\ Len(bytes) = 3 /\ v.index \in Nat
             /\ bytes[1] = v.type /\ bytes[2] = IndexBytes(v.index)[1]
             /\ bytes[3] = IndexBytes(v.index)[2]
  <2>1. v.type \in 0..255 /\ v.index \in Nat /\ v.index \in Int
    BY DEF UpvalueType
  <2>2. IndexBytes(v.index) \in Seq(0..255) /\ Len(IndexBytes(v.index)) = 2
    BY <2>1, IndexBytesType, IndexRoundTrip
  <2> DEFINE s == <<v.type>>
             t == IndexBytes(v.index)
  <2>3. s \in Seq(0..255) /\ Len(s) = 1 /\ s[1] = v.type
    BY <2>1
  <2>4. UpvalueBytes(v) = s \o t
    BY DEF UpvalueBytes
  <2> HIDE DEF s, t
  <2>5. s \o t \in Seq(0..255) /\ Joined(s, t, s \o t)
    BY <2>2, <2>3, Joins DEF t
  <2>6. /\ Len(s \o t) = 1 + 2 /\ \A i \in 1..1 : (s \o t)[i] = s[i]
        /\ \A i \in 1..2 : (s \o t)[1 + i] = t[i]
    BY <2>2, <2>3, <2>5, Zenon DEF Joined, t
  <2>7. 1 \in 1..1 /\ 1 \in 1..2 /\ 2 \in 1..2 /\ 1 + 1 = 2 /\ 1 + 2 = 3
    OBVIOUS
  <2>8. QED
    BY <2>1, <2>3, <2>4, <2>5, <2>6, <2>7 DEF t
<1>2. /\ DOMAIN upvalues = 1..Len(upvalues) /\ Len(upvalues) \in Nat
      /\ \A i \in 1..Len(upvalues) : upvalues[i] \in UpvalueType
  OBVIOUS
<1>3. /\ seqs \in Seq(Seq(0..255)) /\ Len(seqs) = Len(upvalues)
      /\ \A i \in 1..Len(upvalues) : seqs[i] = UpvalueBytes(upvalues[i])
  BY <1>1, <1>2
<1>4. CapturedBytes(upvalues) = FlattenSeq(seqs)
  BY DEF CapturedBytes
<1> HIDE DEF seqs
<1>5. \A i \in 1..Len(seqs) : Len(seqs[i]) = 3
  BY <1>1, <1>2, <1>3
<1>6. /\ Len(FlattenSeq(seqs)) = 3 * Len(seqs)
      /\ \A i \in 1..Len(seqs), j \in 1..3 : FlattenSeq(seqs)[3 * (i - 1) + j] = seqs[i][j]
  BY <1>3, <1>5, FlattenTriples
<1>7. FlattenSeq(seqs) \in Seq(0..255)
  BY <1>3, FlattenSeqType
<1>8. ASSUME NEW u \in 1..Len(upvalues)
      PROVE  /\ CapturedBytes(upvalues)[3 * (u - 1) + 1] = upvalues[u].type
             /\ CapturedBytes(upvalues)[3 * (u - 1) + 2] = IndexBytes(upvalues[u].index)[1]
             /\ CapturedBytes(upvalues)[3 * (u - 1) + 3] = IndexBytes(upvalues[u].index)[2]
             /\ upvalues[u].index \in Nat
  <2>1. 1 \in 1..3 /\ 2 \in 1..3 /\ 3 \in 1..3 /\ u \in 1..Len(seqs)
    BY <1>3
  <2>2. \A j \in 1..3 : CapturedBytes(upvalues)[3 * (u - 1) + j] = UpvalueBytes(upvalues[u])[j]
    BY <1>3, <1>4, <1>6, <2>1
  <2>3. QED
    BY <1>1, <1>2, <2>1, <2>2
<1>9. QED
  BY <1>3, <1>4, <1>6, <1>7, <1>8

\* The code of d is that of c, and then the closure of the function id.
Closes(gs, c, d, id, index, upvalues) ==
  /\ id \in 2..Len(gs) /\ gs[id].upvalue_count = Len(upvalues)
  /\ index < Len(c.constant_pool) /\ c.constant_pool[index + 1] = Function(id)
  /\ \A u \in 1..Len(upvalues) : upvalues[u].type = 0 => upvalues[u].index < Len(c.upvalues)
  /\ Behind(c, d, OpIndex("OP_CLOSURE", index) \o CapturedBytes(upvalues))

LEMMA ClosureGrows ==
  ASSUME NEW gs \in Seq(FunctionType), NEW c \in CompilerType, NEW d, NEW id, NEW index \in Nat,
         NEW upvalues \in Seq(UpvalueType), Closes(gs, c, d, id, index, upvalues),
         index <= MAX_INDEX_SIZE, Decodable(gs, FunctionObject(c))
  PROVE  Grows(gs, c, d, {}, {})
<1> DEFINE f == FunctionObject(c)
           g == FunctionObject(d)
           n == Len(c.byte_code)
           head == OpIndex("OP_CLOSURE", index)
           tail == CapturedBytes(upvalues)
           bytes == head \o tail
           count == Len(upvalues)
<1>1. "OP_CLOSURE" \in OpCodeName /\ "OP_CLOSURE" \in IndexOps /\ count \in Nat
  BY OpCodeNames, OperandOps
<1>2. /\ d \in CompilerType /\ d.byte_code = c.byte_code \o bytes /\ Behind(c, d, bytes)
      /\ d.constant_pool = c.constant_pool /\ d.upvalues = c.upvalues
  BY DEF Closes, Behind, SamePool
<1>3. /\ f \in FunctionType /\ g \in FunctionType /\ f.byte_code = c.byte_code
      /\ g.byte_code = d.byte_code /\ g.constant_pool = c.constant_pool
      /\ g.upvalue_count = Len(c.upvalues) /\ n \in Nat /\ Len(c.upvalues) \in Nat
      /\ Richer(f, g)
  BY <1>2, Seen, SamePoolRicher DEF Behind
<1>4. /\ head \in Seq(0..255) /\ Len(head) = 3 /\ head[1] = Byte["OP_CLOSURE"]
      /\ head[2] = IndexBytes(index)[1] /\ head[3] = IndexBytes(index)[2]
  BY <1>1, OpBytes
<1>5. /\ tail \in Seq(0..255) /\ Len(tail) = 3 * count
      /\ \A u \in 1..count :
           /\ tail[3 * (u - 1) + 1] = upvalues[u].type
           /\ tail[3 * (u - 1) + 2] = IndexBytes(upvalues[u].index)[1]
           /\ tail[3 * (u - 1) + 3] = IndexBytes(upvalues[u].index)[2]
           /\ upvalues[u].index \in Nat
  BY UpvaluesRead
<1> HIDE DEF head, tail, count
<1>6. bytes \in Seq(0..255) /\ Joined(head, tail, bytes)
  BY <1>4, <1>5, Joins
<1> HIDE DEF bytes
<1>7. /\ Len(bytes) = 3 + 3 * count
      /\ \A i \in 1..3 : bytes[i] = head[i]
      /\ \A i \in 1..(3 * count) : bytes[3 + i] = tail[i]
  BY <1>4, <1>5, <1>6, Zenon DEF Joined
<1>8. \A i \in 1..(3 + 3 * count) : g.byte_code[n + i] = bytes[i]
  <2>1. \A i \in 1..Len(bytes) : d.byte_code[Len(c.byte_code) + i] = bytes[i]
    BY <1>2, <1>6, BehindAt
  <2>2. QED
    BY <1>3, <1>7, <2>1
<1>9. n = Len(f.byte_code) /\ g.byte_code = f.byte_code \o bytes
  BY <1>2, <1>3
<1> HIDE DEF f, g, n
<1>10. /\ g.byte_code[n + 1] = Byte["OP_CLOSURE"]
       /\ g.byte_code[n + 1 + 1] = IndexBytes(index)[1]
       /\ g.byte_code[n + 1 + 2] = IndexBytes(index)[2]
  <2>1. \A i \in 1..3 : i \in 1..(3 + 3 * count)
    BY <1>1
  <2>2. 1 \in 1..3 /\ 2 \in 1..3 /\ 3 \in 1..3 /\ n + 1 + 1 = n + 2 /\ n + 1 + 2 = n + 3
    BY <1>3
  <2>3. QED
    BY <1>4, <1>7, <1>8, <2>1, <2>2
<1>11. /\ g.byte_code[n + 1] + 1 \in DOMAIN OpCode /\ OpOf(g, n) = "OP_CLOSURE"
  BY <1>1, <1>10, OpCodeOfByte DEF OpOf, OpAt
<1>12. OperandAt(g, n) = index
  BY <1>10, IndexRoundTrip DEF OperandAt, IndexAt
<1>13. ConstantAt(g, n + 1) = Function(id) /\ index < Len(g.constant_pool)
  BY <1>3, <1>12 DEF ConstantAt, OperandAt, Closes
<1>14. InnerId(g, n) = id /\ ConstantAt(g, n + 1).type = "function"
  BY <1>13 DEF InnerId, Function
<1>15. gs[id].upvalue_count = count /\ id \in 2..Len(gs)
  BY DEF Closes, count
<1>16. Length(gs, g, n) = Len(bytes)
  BY <1>7, <1>11, <1>14, <1>15 DEF Length, UpvalueSize
<1>17. ASSUME NEW u \in 1..count
       PROVE  LET upvalue == UpvalueAt(g.byte_code, n + UpvalueSize * u)
              IN  upvalue.type = 0 => upvalue.index < g.upvalue_count
  <2>1. \A j \in 1..3 : /\ 3 * (u - 1) + j \in 1..(3 * count)
                        /\ 3 + (3 * (u - 1) + j) = 3 * u + j
                        /\ 3 * u + j \in 1..(3 + 3 * count)
                        /\ n + (3 * u + j) = n + 3 * u + j
    BY <1>1, <1>3
  <2>2. ASSUME NEW j \in 1..3
        PROVE  g.byte_code[n + 3 * u + j] = tail[3 * (u - 1) + j]
    <3>1. bytes[3 + (3 * (u - 1) + j)] = tail[3 * (u - 1) + j]
      BY <1>7, <2>1
    <3>2. g.byte_code[n + (3 * u + j)] = bytes[3 * u + j]
      BY <1>8, <2>1
    <3>3. QED
      BY <2>1, <3>1, <3>2
  <2>3. /\ n + 3 * u + 1 + 1 = n + 3 * u + 2 /\ n + 3 * u + 1 + 2 = n + 3 * u + 3
        /\ 1 \in 1..3 /\ 2 \in 1..3 /\ 3 \in 1..3
    BY <1>3
  <2>4. /\ g.byte_code[n + 3 * u + 1] = upvalues[u].type
        /\ g.byte_code[n + 3 * u + 1 + 1] = IndexBytes(upvalues[u].index)[1]
        /\ g.byte_code[n + 3 * u + 1 + 2] = IndexBytes(upvalues[u].index)[2]
        /\ upvalues[u].index \in Nat
    BY <1>5, <2>2, <2>3
  <2> DEFINE a == IndexBytes(upvalues[u].index)[1]
             b == IndexBytes(upvalues[u].index)[2]
  <2>5. a + 256 * b \in Nat /\ a + 256 * b <= upvalues[u].index
    BY <2>4, IndexRoundTrip
  <2>6. /\ UpvalueAt(g.byte_code, n + UpvalueSize * u).type = upvalues[u].type
        /\ UpvalueAt(g.byte_code, n + UpvalueSize * u).index = a + 256 * b
    BY <2>4 DEF UpvalueAt, UpvalueSize, IndexAt
  <2>7. upvalues[u].type = 0 => upvalues[u].index < Len(c.upvalues)
    BY DEF Closes, count
  <2> HIDE DEF a, b
  <2>8. QED
    BY <1>3, <2>4, <2>5, <2>6, <2>7
<1>18. Valid(gs, g, n)
  <2>1. ConstantType("OP_CLOSURE") = {"function"}
    BY OperandOps
  <2>2. \A u \in 1..gs[InnerId(g, n)].upvalue_count :
          LET upvalue == UpvalueAt(g.byte_code, n + UpvalueSize * u)
          IN  upvalue.type = 0 => upvalue.index < g.upvalue_count
    BY <1>14, <1>15, <1>17
  <2>3. QED
    BY <1>11, <1>12, <1>13, <1>14, <1>15, <2>1, <2>2 DEF Valid
<1>19. Appended(gs, f, g, Len(bytes))
  <2>1. Valid(gs, g, Len(f.byte_code)) /\ Length(gs, g, Len(f.byte_code)) = Len(bytes)
    BY <1>9, <1>16, <1>18
  <2>2. Decodable(gs, f)
    BY DEF f
  <2>3. QED
    BY <1>3, <1>6, <1>9, <2>1, <2>2, AppendFollows
<1>20. Landing(g, Len(f.byte_code)) = {}
  BY <1>9, <1>11 DEF Landing, Jump
<1>21. Follows(gs, f, g, {}, {})
  BY <1>19, <1>20 DEF Appended
<1>22. QED
  BY <1>2, <1>21 DEF Grows, f, g

\* The compiler on top is left.  What the rules below it rely on is still there.
LEMMA EndedCode ==
  ASSUME NEW fs \in Seq(FunctionType), NEW gs \in Seq(FunctionType), Len(fs) <= Len(gs),
         \A i \in 2..Len(fs) : gs[i] = fs[i], FunctionsCoded(gs),
         NEW R, NEW rs \in Seq(R), rs # <<>>, Head(rs).rule = "function",
         NEW cs \in Seq(CompilerType), NEW ds \in Seq(CompilerType), ds # <<>>,
         Len(cs) = Len(ds) + 1, Coded(fs, cs, rs),
         \A k \in 1..Len(ds) :
           /\ Richer(FunctionObject(cs[k]), FunctionObject(ds[k]))
           /\ Decodable(gs, FunctionObject(cs[k])) /\ ConstantsFit(FunctionObject(ds[k])) =>
                Follows(gs, FunctionObject(cs[k]), FunctionObject(ds[k]), {}, {})
  PROVE  Coded(gs, ds, Tail(rs))
<1> DEFINE n == Len(cs)
           m == Len(ds)
           F(k) == FunctionObject(cs[k])
           G(k) == FunctionObject(ds[k])
           qs == Tail(rs)
<1>1. PICK K : Placed(rs, n, K) /\ Promises(fs, cs, rs, K)
  BY DEF Coded
<1>2. n \in Nat /\ m \in Nat \ {0} /\ n - 1 = m /\ n = m + 1 /\ 1..m \subseteq 1..n
  OBVIOUS
<1> DEFINE J == Tail(K)
<1>3. /\ Placed(qs, m, J) /\ qs \in Seq(R) /\ qs # <<>> /\ Len(qs) = Len(rs) - 1
      /\ \A i \in 1..(Len(rs) - 1) : qs[i] = rs[i + 1] /\ J[i] = K[i + 1]
  <2>1. Uncovers(R, rs, n, K)
    <3>1. Head(rs).rule # "script"
      OBVIOUS
    <3> HIDE DEF n
    <3>2. QED
      BY <1>1, <1>2, <3>1, PlacedTail
  <2>2. n - (IF Head(rs).rule = "function" THEN 1 ELSE 0) = m
    BY <1>2
  <2> HIDE DEF n, m, qs
  <2>3. QED
    BY <2>1, <2>2 DEF Uncovers, qs
<1> DEFINE p == Len(rs)
<1>4. /\ p \in Nat /\ p > 1 /\ Len(qs) = p - 1 /\ Len(qs) \in Nat \ {0} /\ Len(K) = p /\ K[1] = n
      /\ \A i \in 1..(p - 1) : i + 1 \in 1..p
  <2>1. Len(K) = p /\ K[1] = n
    BY <1>1 DEF Placed
  <2>2. p \in Nat /\ Len(qs) = p - 1 /\ Len(qs) \in Nat
    BY <1>3
  <2>3. Len(qs) # 0
    <3>1. \A S : \A s \in Seq(S) : s # <<>> => Len(s) # 0
      OBVIOUS
    <3> HIDE DEF qs
    <3>2. QED
      BY <1>3, <3>1
  <2> HIDE DEF p, qs, n
  <2>4. QED
    BY <2>1, <2>2, <2>3
<1>5. \A i \in 1..(p - 1) : J[i] \in 1..m
  <2>1. /\ J \in Seq(Nat) /\ Len(J) = Len(qs) /\ J[1] = m /\ J[Len(J)] = 1
        /\ \A i, j \in 1..Len(J) : i <= j => J[j] <= J[i]
    BY <1>3 DEF Placed
  <2> HIDE DEF J, qs, m, p
  <2>2. ASSUME NEW i \in 1..(p - 1)
        PROVE  J[i] \in 1..m
    <3>1. i \in 1..Len(J) /\ 1 \in 1..Len(J) /\ Len(J) \in 1..Len(J) /\ 1 <= i /\ i <= Len(J)
      BY <1>4, <2>1
    <3>2. J[i] <= m /\ 1 <= J[i] /\ J[i] \in Nat
      <4>1. J[i] \in Nat
        BY <2>1, <3>1, ElementAt
      <4>2. J[i] <= J[1] /\ J[Len(J)] <= J[i]
        BY <2>1, <3>1, Zenon
      <4>3. QED
        BY <2>1, <4>1, <4>2
    <3>3. QED
      BY <1>2, <3>2
  <2>3. QED
    BY <2>2
<1>6. \A k \in 1..m : /\ cs[k] \in CompilerType /\ ds[k] \in CompilerType
                      /\ F(k) \in FunctionType /\ G(k) \in FunctionType
  BY <1>2, Seen
<1>7. ASSUME NEW k \in 1..m, ConstantsFit(G(k))
      PROVE  /\ ConstantsFit(F(k)) /\ Decodable(fs, F(k)) /\ Decodable(gs, F(k))
             /\ Follows(gs, F(k), G(k), {}, {})
             /\ Starts(gs, F(k)) = Starts(fs, F(k)) /\ Jumps(gs, F(k)) = Jumps(fs, F(k))
             /\ Open(gs, F(k)) = Open(fs, F(k))
  <2>1. F(k) \in FunctionType /\ G(k) \in FunctionType /\ Richer(F(k), G(k)) /\ k \in 1..n
    BY <1>2, <1>6
  <2>2. ConstantsFit(F(k))
    <3> HIDE DEF F, G
    <3>1. QED
      BY <1>7, <2>1, RicherFits
  <2>3. Decodable(fs, F(k))
    BY <2>1, <2>2 DEF Coded, CompilersCoded
  <2>4. /\ Decodable(gs, F(k))
        /\ Starts(gs, F(k)) = Starts(fs, F(k)) /\ Jumps(gs, F(k)) = Jumps(fs, F(k))
        /\ Open(gs, F(k)) = Open(fs, F(k))
    <3> DEFINE f == F(k)
    <3>1. f \in FunctionType /\ Decodable(fs, f) /\ Len(fs) <= Len(gs)
      BY <2>1, <2>3
    <3>2. \A i \in 2..Len(fs) : gs[i] = fs[i]
      OBVIOUS
    <3> HIDE DEF f
    <3>3. /\ Decodable(gs, f) /\ Starts(gs, f) = Starts(fs, f)
          /\ Jumps(gs, f) = Jumps(fs, f) /\ Open(gs, f) = Open(fs, f)
      BY <3>1, <3>2, AmongMore
    <3>4. QED
      BY <3>3 DEF f
  <2>5. Follows(gs, F(k), G(k), {}, {})
    BY <1>7, <2>4
  <2>6. QED
    BY <2>2, <2>3, <2>4, <2>5
<1>8. CompilersCoded(gs, ds)
  BY <1>7 DEF CompilersCoded, Follows
<1>9. \A i \in 1..p : /\ ConstantsFit(F(K[i])) => Carries(fs, rs[i], F(K[i]))
                      /\ rs[i].rule = "define" => NamesConstant(F(K[i]), rs[i].index) \/ Inside(rs, i)
  BY <1>1 DEF Promises
<1>10. \A k \in 1..n : ConstantsFit(F(k)) /\ CodeFits(F(k)) =>
         \A offset \in Open(fs, F(k)) : \E i \in 1..p : K[i] = k /\ offset \in Pending(rs[i])
  BY <1>1 DEF Promises
<1>11. ASSUME NEW i \in 1..(p - 1)
       PROVE  /\ ConstantsFit(G(J[i])) => Carries(gs, qs[i], G(J[i]))
              /\ qs[i].rule = "define" => NamesConstant(G(J[i]), qs[i].index) \/ Inside(qs, i)
  <2> DEFINE k == J[i]
             r == qs[i]
  <2>1. k \in 1..m /\ k = K[i + 1] /\ r = rs[i + 1] /\ i + 1 \in 1..p
    BY <1>3, <1>4, <1>5
  <2> HIDE DEF k, r
  <2>2. Richer(F(k), G(k)) /\ F(k) \in FunctionType /\ G(k) \in FunctionType
    BY <1>6, <2>1
  <2>3. ASSUME ConstantsFit(G(k))
        PROVE  Carries(gs, r, G(k))
    <3>1. /\ ConstantsFit(F(k)) /\ Follows(gs, F(k), G(k), {}, {})
          /\ Starts(gs, F(k)) = Starts(fs, F(k)) /\ Jumps(gs, F(k)) = Jumps(fs, F(k))
      BY <1>7, <2>1, <2>3
    <3>2. Carries(fs, r, F(k))
      BY <1>9, <2>1, <3>1
    <3>3. Carries(gs, r, F(k))
      BY <3>1, <3>2 DEF Carries
    <3>4. Starts(gs, F(k)) \subseteq Starts(gs, G(k)) /\ Jumps(gs, F(k)) \subseteq Jumps(gs, G(k))
      BY <3>1 DEF Follows
    <3> HIDE DEF F, G
    <3>5. QED
      BY <2>2, <3>3, <3>4, CarriesOn
  <2>4. ASSUME Inside(rs, i + 1)
        PROVE  Inside(qs, i)
    <3>1. PICK j \in 1..p : i + 1 < j /\ rs[j].rule \in ScopedRule \cup {"function"}
      BY <2>4 DEF Inside
    <3>2. j - 1 \in 1..(p - 1) /\ i < j - 1 /\ (j - 1) + 1 = j
      BY <1>4, <3>1
    <3>3. qs[j - 1] = rs[j] /\ j - 1 \in 1..Len(qs)
      BY <1>3, <1>4, <3>2
    <3>4. QED
      BY <3>1, <3>2, <3>3 DEF Inside
  <2>5. \A index : NamesConstant(F(k), index) => NamesConstant(G(k), index)
    <3> HIDE DEF F, G
    <3>1. QED
      BY <2>2, RicherAllows
  <2>6. r.rule = "define" => NamesConstant(G(k), r.index) \/ Inside(qs, i)
    BY <1>9, <2>1, <2>4, <2>5
  <2>7. QED
    BY <2>3, <2>6 DEF k, r
<1>12. ASSUME NEW k \in 1..m, ConstantsFit(G(k)), CodeFits(G(k)), NEW offset \in Open(gs, G(k))
       PROVE  \E i \in 1..(p - 1) : J[i] = k /\ offset \in Pending(qs[i])
  <2>1. /\ ConstantsFit(F(k)) /\ Follows(gs, F(k), G(k), {}, {})
        /\ Open(gs, F(k)) = Open(fs, F(k)) /\ k \in 1..n
    BY <1>2, <1>7, <1>12
  <2>2. offset \in Open(fs, F(k))
    BY <1>12, <2>1 DEF Follows
  <2>3. CodeFits(F(k))
    <3>1. Len(F(k).byte_code) <= Len(G(k).byte_code) /\ Len(G(k).byte_code) <= MAX_INDEX_SIZE
      BY <1>12, <2>1 DEF Follows, CodeFits
    <3>2. Len(F(k).byte_code) \in Nat /\ Len(G(k).byte_code) \in Nat
      BY <1>6, FieldTypes
    <3>3. \A x, y \in Nat : x <= y /\ y <= MAX_INDEX_SIZE => x <= MAX_INDEX_SIZE
      BY DEF MAX_INDEX_SIZE
    <3>4. QED
      BY <3>1, <3>2, <3>3 DEF CodeFits
  <2>4. PICK i \in 1..p : K[i] = k /\ offset \in Pending(rs[i])
    BY <1>10, <2>1, <2>2, <2>3
  <2>5. i # 1
    BY <1>2, <1>4, <2>4
  <2>6. i - 1 \in 1..(p - 1) /\ (i - 1) + 1 = i
    BY <1>4, <2>5
  <2>7. QED
    BY <1>3, <2>4, <2>6
<1>13. Promises(gs, ds, qs, J)
  <2>1. Len(qs) = p - 1
    BY <1>4
  <2> HIDE DEF qs, J, p
  <2>2. QED
    BY <1>11, <1>12, <2>1 DEF Promises
<1>14. QED
  BY <1>3, <1>8, <1>13 DEF Coded

\* The function on top of the compilers has no open jump when its end is reached.
LEMMA NothingOpen ==
  ASSUME NEW fs, NEW R, NEW rs \in Seq(R), rs # <<>>, Head(rs).rule \in {"function", "script"},
         NEW cs \in Seq(CompilerType), cs # <<>>, Coded(fs, cs, rs)
  PROVE  LET f == FunctionObject(Last(cs)) IN
         /\ ConstantsFit(f) => Decodable(fs, f)
         /\ ConstantsFit(f) /\ CodeFits(f) => Open(fs, f) = {}
<1> DEFINE n == Len(cs)
           f == FunctionObject(cs[n])
<1>1. PICK K : Placed(rs, n, K) /\ Promises(fs, cs, rs, K)
  BY DEF Coded
<1>2. n \in 1..n /\ Last(cs) = cs[n] /\ Head(rs) = rs[1]
  BY DEF Last
<1>3. ConstantsFit(f) => Decodable(fs, f)
  BY <1>2 DEF Coded, CompilersCoded
<1>4. /\ K \in Seq(Nat) /\ Len(K) = Len(rs) /\ K[1] = n /\ Len(rs) \in Nat \ {0}
      /\ Last(rs).rule = "script" /\ K[Len(K)] = 1
      /\ \A i \in 1..(Len(K) - 1) :
           rs[i].rule # "script" /\ K[i + 1] = K[i] - IF rs[i].rule = "function" THEN 1 ELSE 0
      /\ \A i, j \in 1..Len(K) : i <= j => K[j] <= K[i]
  BY <1>1 DEF Placed
<1>5. ASSUME NEW i \in 1..Len(rs), K[i] = n
      PROVE  i = 1
  <2> SUFFICES ASSUME i # 1
               PROVE  FALSE
    OBVIOUS
  <2>1. /\ 1 \in 1..(Len(K) - 1) /\ 1 + 1 = 2 /\ 2 \in 1..Len(K) /\ 2 <= i /\ i \in 1..Len(K)
    BY <1>4, <1>5
  <2>2. rs[1].rule = "function"
    BY <1>2, <1>4, <2>1
  <2>3. K[2] = n - 1 /\ K[i] <= K[2]
    BY <1>4, <2>1, <2>2
  <2>4. n \in Nat
    OBVIOUS
  <2> HIDE DEF n
  <2>5. QED
    BY <1>5, <2>3, <2>4
<1>6. Pending(rs[1]) = {}
  <2>1. rs[1].rule \in {"function", "script"}
    BY <1>2
  <2>2. QED
    BY <2>1 DEF Pending, ExitRule
<1>7. ASSUME ConstantsFit(f), CodeFits(f), NEW offset \in Open(fs, f)
      PROVE  FALSE
  <2>1. \E i \in 1..Len(rs) : K[i] = n /\ offset \in Pending(rs[i])
    BY <1>1, <1>2, <1>7 DEF Promises
  <2>2. QED
    BY <1>5, <1>6, <2>1
<1>8. QED
  BY <1>2, <1>3, <1>7

LEMMA EndFunctionCode ==
  ASSUME CompilerInv, CodeInv, EndFunction, compilers' \in Seq(CompilerType)
  PROVE  CodeInv'
<1> DEFINE fs        == functions
           cs        == compilers
           ds        == compilers'
           n         == Len(cs)
           outer     == cs[n - 1]
           ended     == EndCompiler(Cur)
           inner     == FunctionObject(ended)
           gs        == Append(fs, inner)
           id        == Len(fs) + 1
           enclosing == Pool(outer, Function(id))
           index     == LastConstant(enclosing)
           upvalues  == ended.upvalues
           bytes     == OpIndex("OP_CLOSURE", index) \o CapturedBytes(upvalues)
           closure   == Emit(enclosing, bytes)
<1>1. /\ rules # <<>> /\ Head(rules).rule = "function" /\ rules \in Seq(RuleType)
      /\ rules' = Tail(rules) /\ functions' = gs
      /\ ds = Append(Front(Front(cs)), closure)
  BY DEF EndFunction, At, CompilerInv, CapturedBytes
<1>2. /\ fs \in Seq(FunctionType) /\ cs \in Seq(CompilerType) /\ cs # <<>> /\ Cur \in CompilerType
      /\ Cur = Last(cs) /\ Cur = cs[n] /\ Sound(cs) /\ n \in Nat /\ Coded(fs, cs, rules)
      /\ FunctionsCoded(fs) /\ CompilersCoded(fs, cs)
  BY InvariantHere DEF CompilerInv, TypeOK, CodeInv, Coded
<1>3. n > 1
  <2>1. PICK l \in Situation : Expects(rules, compilers, l) /\ l.compiler = n
    BY <1>1, Below
  <2>2. PICK m \in Situation :
          /\ Expects(Tail(rules), compilers, m) /\ Leads(compilers, Head(rules), l, m)
          /\ m.compiler \in 1..l.compiler
    BY <1>1, <2>1, EndRule
  <2>3. m.compiler = n - 1
    BY <1>1, <2>1, <2>2, LeadsBy
  <2>4. QED
    BY <1>2, <2>1, <2>2, <2>3
<1>4. /\ ConstantsFit(FunctionObject(Cur)) => Decodable(fs, FunctionObject(Cur))
      /\ ConstantsFit(FunctionObject(Cur)) /\ CodeFits(FunctionObject(Cur)) =>
           Open(fs, FunctionObject(Cur)) = {}
  <2>1. Head(rules).rule \in {"function", "script"}
    BY <1>1
  <2> HIDE DEF fs, cs
  <2>2. QED
    BY <1>1, <1>2, <2>1, NothingOpen
<1>5. /\ SamePool(Cur, ended) /\ inner \in FunctionType
      /\ ConstantsFit(inner) => Finished(fs, inner)
  <2> HIDE DEF fs
  <2>1. QED
    BY <1>2, <1>4, EndsFinished
<1>6. upvalues \in Seq(UpvalueType) /\ upvalues = Cur.upvalues /\ inner.upvalue_count = Len(upvalues)
  BY <1>5, Seen DEF SamePool, CompilerType
<1> HIDE DEF ended, inner, upvalues
<1>7. /\ gs \in Seq(FunctionType) /\ Len(gs) = Len(fs) + 1 /\ id = Len(fs) + 1 /\ gs[id] = inner
      /\ \A i \in 1..Len(fs) : gs[i] = fs[i]
      /\ Len(fs) \in Nat \ {0}
  <2>1. fs # <<>>
    BY <1>2 DEF FunctionsCoded
  <2> HIDE DEF fs
  <2>2. QED
    BY <1>2, <1>5, <2>1
<1> HIDE DEF fs, gs, id
<1>8. Len(fs) <= Len(gs) /\ (\A i \in 2..Len(fs) : gs[i] = fs[i]) /\ id \in 2..Len(gs)
  BY <1>7
<1>9. FunctionsCoded(gs)
  <2>1. ASSUME NEW i \in 1..Len(gs), ConstantsFit(gs[i])
        PROVE  Finished(gs, gs[i])
    <3> DEFINE f == gs[i]
    <3>1. f \in FunctionType /\ Finished(fs, f)
      <4>1. CASE i \in 1..Len(fs)
        <5>1. f = fs[i] /\ fs[i] \in FunctionType
          BY <1>2, <1>7, <4>1
        <5>2. QED
          BY <1>2, <2>1, <4>1, <5>1 DEF FunctionsCoded
      <4>2. CASE i \notin 1..Len(fs)
        <5>1. i = id
          BY <1>7, <4>2
        <5>2. QED
          BY <1>5, <1>7, <2>1, <5>1
      <4>3. QED
        BY <4>1, <4>2
    <3> HIDE DEF f
    <3>2. Finished(gs, f)
      BY <1>2, <1>7, <1>8, <3>1, FinishedAmongMore
    <3>3. QED
      BY <3>2 DEF f
  <2>2. gs # <<>>
    BY <1>7
  <2>3. QED
    BY <2>1, <2>2 DEF FunctionsCoded
<1>10. outer \in CompilerType /\ n - 1 \in 1..n /\ n - 1 \in Nat \ {0}
  BY <1>2, <1>3
<1>11. Function(id) \in ConstantValue
  BY <1>7, ConstantTypes
<1> HIDE DEF outer
<1>12. /\ enclosing \in CompilerType /\ enclosing.byte_code = outer.byte_code
       /\ enclosing.upvalues = outer.upvalues
       /\ Richer(FunctionObject(outer), FunctionObject(enclosing))
       /\ index \in Nat /\ index < Len(enclosing.constant_pool)
       /\ enclosing.constant_pool[index + 1] = Function(id)
  BY <1>10, <1>11, PoolCode
<1> HIDE DEF enclosing, index
<1>13. bytes \in Seq(0..255)
  <2>1. OpIndex("OP_CLOSURE", index) \in Seq(0..255)
    <3>1. "OP_CLOSURE" \in OpCodeName
      BY OpCodeNames
    <3>2. QED
      BY <1>12, <3>1, OpBytes
  <2>2. CapturedBytes(upvalues) \in Seq(0..255)
    BY <1>6, UpvaluesRead
  <2>3. \A s, t \in Seq(0..255) : s \o t \in Seq(0..255)
    OBVIOUS
  <2>4. QED
    BY <2>1, <2>2, <2>3
<1>14. Behind(enclosing, closure, bytes)
  <2> HIDE DEF bytes
  <2>1. QED
    BY <1>12, <1>13, EmitCode DEF Behind
<1> HIDE DEF closure
<1>15. closure \in CompilerType
       /\ Richer(FunctionObject(enclosing), FunctionObject(closure))
       /\ (ConstantsFit(FunctionObject(closure)) <=> ConstantsFit(FunctionObject(enclosing)))
  BY <1>12, <1>14, SamePoolRicher DEF Behind, SamePool
<1>16. Closes(gs, enclosing, closure, id, index, upvalues)
  <2>1. ASSUME NEW u \in 1..Len(upvalues), upvalues[u].type = 0
        PROVE  upvalues[u].index < Len(enclosing.upvalues)
    <3>1. n \in 1..n /\ u \in DOMAIN cs[n].upvalues
      BY <1>2, <1>6
    <3>2. Captured(cs[n - 1], cs[n].upvalues[u])
      BY <1>2, <3>1 DEF Sound, Resolves
    <3>3. cs[n].upvalues[u] = upvalues[u]
      BY <1>2, <1>6
    <3>4. QED
      BY <1>12, <2>1, <3>2, <3>3 DEF Captured, outer
  <2>2. gs[id].upvalue_count = Len(upvalues)
    BY <1>6, <1>7
  <2>3. QED
    BY <1>8, <1>12, <1>14, <2>1, <2>2 DEF Closes
<1>17. Richer(FunctionObject(outer), FunctionObject(closure))
  BY <1>10, <1>12, <1>15, RicherThen
<1>18. ASSUME Decodable(gs, FunctionObject(outer)), ConstantsFit(FunctionObject(closure))
       PROVE  Follows(gs, FunctionObject(outer), FunctionObject(closure), {}, {})
  <2>1. Grows(gs, outer, enclosing, {}, {})
    BY <1>7, <1>10, <1>12, <1>18, SameCodeGrows
  <2>2. Decodable(gs, FunctionObject(enclosing))
    BY <1>10, <2>1, GrowsOn
  <2>3. index <= MAX_INDEX_SIZE
    <3>1. Len(enclosing.constant_pool) <= MAX_INDEX_SIZE /\ Len(enclosing.constant_pool) \in Nat
      BY <1>12, <1>15, <1>18, Seen DEF ConstantsFit
    <3>2. \A x, y \in Nat : x < y /\ y <= MAX_INDEX_SIZE => x <= MAX_INDEX_SIZE
      BY DEF MAX_INDEX_SIZE
    <3>3. QED
      BY <1>12, <3>1, <3>2
  <2>4. Grows(gs, enclosing, closure, {}, {})
    BY <1>6, <1>7, <1>12, <1>16, <2>2, <2>3, ClosureGrows
  <2>5. Grows(gs, outer, closure, {}, {})
    BY <1>10, <2>1, <2>4, GrowsThen
  <2>6. QED
    BY <2>5 DEF Grows
<1>19. /\ Len(ds) = n - 1 /\ ds[n - 1] = closure /\ ds \in Seq(CompilerType) /\ ds # <<>>
       /\ \A k \in 1..(n - 2) : ds[k] = cs[k]
  <2>1. \A s \in Seq(CompilerType) : Len(s) > 1 =>
          /\ Front(s) \in Seq(CompilerType) /\ Len(Front(s)) = Len(s) - 1
          /\ \A k \in 1..(Len(s) - 1) : Front(s)[k] = s[k]
    BY DEF Front
  <2> DEFINE a == Front(cs)
             b == Front(a)
  <2>3. a \in Seq(CompilerType) /\ Len(a) = n - 1 /\ \A k \in 1..(n - 1) : a[k] = cs[k]
    BY <1>2, <1>3, <2>1
  <2> HIDE DEF a
  <2>4. b \in Seq(CompilerType) /\ Len(b) = n - 1 - 1 /\ \A k \in 1..(n - 1 - 1) : b[k] = a[k]
    <3>1. a \in Seq(CompilerType) /\ Len(a) \in Nat \ {0}
      BY <1>10, <2>3
    <3>2. /\ Front(a) \in Seq(CompilerType) /\ Len(Front(a)) = Len(a) - 1
          /\ \A k \in 1..(Len(a) - 1) : Front(a)[k] = a[k]
      <4> DEFINE m == Len(a) - 1
      <4>1. m \in Nat /\ m <= Len(a)
        BY <3>1
      <4>2. Front(a) = SubSeq(a, 1, m)
        BY DEF Front
      <4> HIDE DEF m
      <4>3. SubSeq(a, 1, m) \in Seq(CompilerType)
        BY <3>1, <4>1
      <4>4. Len(SubSeq(a, 1, m)) = m /\ \A k \in 1..m : SubSeq(a, 1, m)[k] = a[k]
        BY <3>1, <4>1
      <4>5. QED
        BY <4>2, <4>3, <4>4 DEF m
    <3>3. QED
      BY <2>3, <3>2
  <2> HIDE DEF b
  <2>5. ds = Append(b, closure)
    BY <1>1 DEF a, b
  <2> HIDE DEF ds, cs, n
  <2>6. /\ n - 1 - 1 = n - 2 /\ n - 2 + 1 = n - 1 /\ \A k \in 1..(n - 2) : k \in 1..(n - 1)
    BY <1>2, <1>3
  <2>7. Len(ds) = n - 1 /\ ds[n - 1] = closure /\ \A k \in 1..(n - 2) : ds[k] = b[k]
    BY <1>15, <2>4, <2>5, <2>6
  <2>8. Len(ds) # 0
    BY <1>10, <2>7
  <2>9. ds # <<>>
    BY <2>8
  <2>10. QED
    BY <2>3, <2>4, <2>6, <2>7, <2>9 DEF ds
<1>20. ASSUME NEW k \in 1..Len(ds)
       PROVE  /\ Richer(FunctionObject(cs[k]), FunctionObject(ds[k]))
              /\ Decodable(gs, FunctionObject(cs[k])) /\ ConstantsFit(FunctionObject(ds[k])) =>
                   Follows(gs, FunctionObject(cs[k]), FunctionObject(ds[k]), {}, {})
  <2>1. CASE k = n - 1
    BY <1>17, <1>18, <1>19, <2>1 DEF outer
  <2>2. CASE k # n - 1
    <3>1. k \in 1..(n - 2) /\ k \in 1..n
      BY <1>2, <1>10, <1>19, <2>2
    <3>2. ds[k] = cs[k] /\ cs[k] \in CompilerType
      BY <1>2, <1>19, <3>1
    <3> DEFINE f == FunctionObject(cs[k])
    <3>3. f \in FunctionType
      BY <3>2, Seen
    <3> HIDE DEF f
    <3>4. Richer(f, f)
      BY <3>3, FieldTypes DEF Richer
    <3>5. Decodable(gs, f) => Follows(gs, f, f, {}, {})
      BY <3>3, FollowsSame
    <3>6. QED
      BY <3>2, <3>4, <3>5 DEF f
  <2>3. QED
    BY <2>1, <2>2
<1>21. Coded(gs, ds, Tail(rules))
  <2>1. Len(cs) = Len(ds) + 1
    BY <1>2, <1>19
  <2> HIDE DEF ds, cs, n
  <2>2. QED
    BY <1>1, <1>2, <1>7, <1>8, <1>9, <1>19, <1>20, <2>1, EndedCode
<1>22. QED
  BY <1>1, <1>21 DEF CodeInv

LEMMA EndScriptCode ==
  ASSUME CompilerInv, CodeInv, EndScript
  PROVE  CodeInv'
<1> DEFINE fs    == functions
           ended == EndCompiler(Cur)
           f     == FunctionObject(ended)
           gs    == [fs EXCEPT ![Script] = f]
<1>1. /\ rules # <<>> /\ Head(rules).rule = "script" /\ rules \in Seq(RuleType)
      /\ rules' = <<>> /\ functions' = gs /\ compilers' = <<ended>>
  BY DEF EndScript, At, CompilerInv
<1>2. /\ fs \in Seq(FunctionType) /\ compilers \in Seq(CompilerType) /\ compilers # <<>>
      /\ Cur \in CompilerType /\ Cur = Last(compilers) /\ Coded(fs, compilers, rules)
      /\ FunctionsCoded(fs)
  BY InvariantHere DEF CompilerInv, TypeOK, CodeInv, Coded
<1>3. /\ ConstantsFit(FunctionObject(Cur)) => Decodable(fs, FunctionObject(Cur))
      /\ ConstantsFit(FunctionObject(Cur)) /\ CodeFits(FunctionObject(Cur)) =>
           Open(fs, FunctionObject(Cur)) = {}
  <2>1. Head(rules).rule \in {"function", "script"}
    BY <1>1
  <2> HIDE DEF fs
  <2>2. QED
    BY <1>1, <1>2, <2>1, NothingOpen
<1>4. f \in FunctionType /\ (ConstantsFit(f) => Finished(fs, f))
  <2> HIDE DEF fs
  <2>1. QED
    BY <1>2, <1>3, EndsFinished
<1> HIDE DEF f
<1>5. /\ gs \in Seq(FunctionType) /\ Len(gs) = Len(fs) /\ gs[1] = f
      /\ \A i \in 2..Len(fs) : gs[i] = fs[i]
      /\ Len(fs) \in Nat \ {0}
  <2>1. fs # <<>>
    BY <1>2 DEF FunctionsCoded
  <2> HIDE DEF fs
  <2>2. Len(fs) \in Nat \ {0}
    BY <1>2, <2>1
  <2>3. QED
    BY <1>2, <1>4, <2>2 DEF Script
<1> HIDE DEF fs, gs
<1>6. ASSUME NEW g \in FunctionType, Finished(fs, g)
      PROVE  Finished(gs, g)
  <2>1. Len(fs) <= Len(gs)
    BY <1>5
  <2>2. QED
    BY <1>2, <1>5, <1>6, <2>1, FinishedAmongMore
<1>7. FunctionsCoded(gs)
  <2>1. ASSUME NEW i \in 1..Len(gs), ConstantsFit(gs[i])
        PROVE  Finished(gs, gs[i])
    <3>1. CASE i = 1
      BY <1>4, <1>5, <1>6, <2>1, <3>1
    <3>2. CASE i # 1
      <4>1. gs[i] = fs[i] /\ fs[i] \in FunctionType /\ i \in 1..Len(fs)
        BY <1>2, <1>5, <3>2
      <4>2. QED
        BY <1>2, <1>6, <2>1, <4>1 DEF FunctionsCoded
    <3>3. QED
      BY <3>1, <3>2
  <2>2. gs # <<>>
    BY <1>5
  <2>3. QED
    BY <2>1, <2>2 DEF FunctionsCoded
<1>8. CompilersCoded(gs, <<ended>>)
  <2>1. ConstantsFit(f) => Decodable(gs, f)
    BY <1>4, <1>6 DEF Finished
  <2> HIDE DEF ended
  <2>2. Len(<<ended>>) = 1 /\ <<ended>>[1] = ended
    OBVIOUS
  <2>3. QED
    BY <2>1, <2>2 DEF CompilersCoded, f
<1>9. QED
  BY <1>1, <1>7, <1>8 DEF CodeInv, Coded

-------------------------------------------------------------------------------
(***************************************************************************)
(* The code in every step.                                                 *)
(***************************************************************************)
LEMMA InitCode ==
  ASSUME Init
  PROVE  CodeInv
<1> DEFINE c  == NewCompiler("TOP_LEVEL_SCRIPT", FALSE)
           f  == FunctionObject(c)
           fs == functions
           r  == Rule("script")
<1>1. fs = <<f>> /\ compilers = <<c>> /\ rules = <<r>>
  BY DEF Init
<1>2. c \in CompilerType /\ c.byte_code = <<>>
  <2>1. c \in CompilerType
    BY NewCompilerType
  <2>2. QED
    BY <2>1 DEF NewCompiler
<1>3. f.byte_code = <<>> /\ f \in FunctionType
  BY <1>2, FunctionObjectType DEF FunctionObject
<1>4. r.rule = "script" /\ Pending(r) = {} /\ \A g : Carries(fs, r, g)
  BY FreeRules, FreeCarries DEF FreeRule
<1> HIDE DEF f, fs, r, c
<1>5. fs \in Seq(FunctionType) /\ Len(fs) = 1 /\ fs[1] = f /\ fs # <<>>
  BY <1>1, <1>3
<1>6. /\ Decodable(fs, f) /\ Instructions(fs, f) = {} /\ Open(fs, f) = {}
      /\ Finished(fs, f)
  <2>1. Decodable(fs, f) /\ Instructions(fs, f) = {} /\ Open(fs, f) = {}
    BY <1>3, <1>5, Empty
  <2>2. QED
    BY <2>1 DEF Finished
<1>7. FunctionsCoded(fs)
  <2>1. \A i \in 1..1 : i = 1
    OBVIOUS
  <2>2. QED
    BY <1>5, <1>6, <2>1 DEF FunctionsCoded
<1>8. Len(compilers) = 1 /\ compilers[1] = c /\ FunctionObject(c) = f
  BY <1>1 DEF f
<1>9. CompilersCoded(fs, compilers)
  <2>1. \A k \in 1..1 : k = 1
    OBVIOUS
  <2>2. QED
    BY <1>6, <1>8, <2>1 DEF CompilersCoded
<1> DEFINE K == <<1>>
<1>10. Len(rules) = 1 /\ rules[1] = r /\ Last(rules) = r
  BY <1>1 DEF Last
<1>11. K \in Seq(Nat) /\ Len(K) = 1 /\ K[1] = 1
  OBVIOUS
<1> HIDE DEF K
<1>12. Placed(rules, Len(compilers), K)
  <2>1. 1..(1 - 1) = {} /\ \A i \in 1..1 : i = 1
    OBVIOUS
  <2>2. \A i, j \in 1..Len(K) : i <= j => K[j] <= K[i]
    BY <1>11
  <2>3. \A i \in 1..(Len(K) - 1) :
          rules[i].rule # "script" /\ K[i + 1] = K[i] - IF rules[i].rule = "function" THEN 1 ELSE 0
    BY <1>11, <2>1
  <2>4. QED
    BY <1>4, <1>8, <1>10, <1>11, <2>2, <2>3 DEF Placed
<1>13. Promises(fs, compilers, rules, K)
  <2>1. \A i \in 1..1 : i = 1
    OBVIOUS
  <2>2. \A i \in 1..Len(rules) : rules[i] = r
    BY <1>10, <2>1
  <2>3. \A i \in 1..Len(rules) : LET g == FunctionObject(compilers[K[i]]) IN
          /\ ConstantsFit(g) => Carries(fs, rules[i], g)
          /\ rules[i].rule = "define" => NamesConstant(g, rules[i].index) \/ Inside(rules, i)
    BY <1>4, <2>2
  <2>4. \A k \in 1..Len(compilers) : Open(fs, FunctionObject(compilers[k])) = {}
    BY <1>6, <1>8, <2>1
  <2>5. QED
    BY <2>3, <2>4 DEF Promises
<1>14. QED
  BY <1>7, <1>9, <1>12, <1>13 DEF CodeInv, Coded, fs

LEMMA DeclarationCode ==
  ASSUME CompilerInv, CodeInv, Declaration, compilers' \in Seq(CompilerType)
  PROVE  CodeInv'
<1>1. CASE \E name \in Names : VariableDeclaration(name)
  BY <1>1, VariableDeclarationCode
<1>2. CASE \E name \in Names : ClassDeclaration(name)
  BY <1>2, ClassDeclarationCode
<1>3. CASE \E name \in Names, parameters \in Parameters : FunctionDeclaration(name, parameters)
  BY <1>3, FunctionDeclarationCode
<1>4. CASE ReturnStatement
  BY <1>4, ReturnStatementCode
<1>5. CASE \E name \in Members, parameters \in Parameters : Method(name, parameters)
  BY <1>5, MethodCode
<1>6. CASE EndClass
  BY <1>6, EndClassCode
<1>7. CASE EndFunction
  BY <1>7, EndFunctionCode
<1>8. CASE EndScript
  BY <1>8, EndScriptCode
<1>9. QED
  BY <1>1, <1>2, <1>3, <1>4, <1>5, <1>6, <1>7, <1>8 DEF Declaration

LEMMA StatementCode ==
  ASSUME CompilerInv, CodeInv, Statement
  PROVE  CodeInv'
<1>1. CASE PrintStatement \/ ExpressionStatement \/ IfStatement
  BY <1>1, PlainStatementCode
<1>2. CASE Block
  BY <1>2, BlockCode
<1>3. CASE EndBlock
  BY <1>3, EndBlockCode
<1>4. CASE Then
  BY <1>4, ThenCode
<1>5. CASE Else
  BY <1>5, ElseCode
<1>6. CASE WhileStatement
  BY <1>6, WhileStatementCode
<1>7. CASE WhileBody \/ ForExit
  BY <1>7, ConditionCode
<1>8. CASE EndWhile \/ EndFor
  BY <1>8, EndLoopsCode
<1>9. CASE ForStatement
  BY <1>9, ForStatementCode
<1>10. CASE ForCondition
  BY <1>10, ForConditionCode
<1>11. CASE ForIncrement
  BY <1>11, ForIncrementCode
<1>12. CASE ForLoop
  BY <1>12, ForLoopCode
<1>13. QED
  BY <1>1, <1>2, <1>3, <1>4, <1>5, <1>6, <1>7, <1>8, <1>9, <1>10, <1>11, <1>12 DEF Statement

LEMMA OperandCode ==
  ASSUME CompilerInv, CodeInv, Operands
  PROVE  CodeInv'
<1>1. CASE \/ \E op \in {"OP_NIL", "OP_TRUE", "OP_FALSE"} : Literal(op)
           \/ \E n \in Numbers : NumberLiteral(n)
  BY <1>1, LiteralCode
<1>2. CASE (\E name \in Names : Variable(name)) \/ This
  BY <1>2, VariableCode
<1>3. CASE Grouping \/ EndGrouping \/ EndExpression
  BY <1>3, GroupingCode
<1>4. CASE \E op \in {"OP_NEGATE", "OP_NOT"} : Unary(op)
  BY <1>4, UnaryCode
<1>5. CASE \E token \in DOMAIN BinaryOperator : Binary(token)
  BY <1>5, BinaryCode
<1>6. CASE And
  BY <1>6, AndCode
<1>7. CASE Or
  BY <1>7, OrCode
<1>8. CASE Call \/ Argument
  BY <1>8, CallCode
<1>9. CASE \E name \in Members : Dot(name)
  BY <1>9, DotCode
<1>10. CASE Finish
  BY <1>10, FinishCode
<1>11. QED
  BY <1>1, <1>2, <1>3, <1>4, <1>5, <1>6, <1>7, <1>8, <1>9, <1>10 DEF Operands

LEMMA NextCode == CompilerInv /\ CodeInv /\ [Next]_compilerVars => CodeInv'
<1> SUFFICES ASSUME CompilerInv, CodeInv, [Next]_compilerVars
             PROVE  CodeInv'
  OBVIOUS
<1>1. CASE UNCHANGED compilerVars
  BY <1>1 DEF compilerVars, CodeInv
<1>2. CASE Next
  <2>1. UNCHANGED grammar /\ (Declaration \/ Statement \/ Operands)
    BY <1>2 DEF Next
  <2>2. ConstantValue' = ConstantValue /\ LocalType' = LocalType
    BY <2>1 DEF ConstantValue, LocalType, Names, Members
  <2>3. CompilerType' = CompilerType
    BY <2>2 DEF CompilerType
  <2>4. compilers' \in Seq(CompilerType')
    BY NextInv DEF CompilerInv, TypeOK
  <2>5. compilers' \in Seq(CompilerType)
    BY <2>3, <2>4
  <2>6. QED
    BY <2>1, <2>5, DeclarationCode, StatementCode, OperandCode
<1>3. QED
  BY <1>1, <1>2

-------------------------------------------------------------------------------
(***************************************************************************)
(* The function that lists the instructions is defined from the back, and  *)
(* lists those of any decoding.                                            *)
(***************************************************************************)
From(f, from, ip) ==
  LET next == ip + InstructionLength(f, ip)
  IN  {ip} \cup IF ip < Len(f.byte_code) /\ next \in (ip + 1)..Len(f.byte_code) THEN from[next] ELSE {}

\* InstructionStarts unfolds to the function its definition chooses.
LEMMA InstructionStartsSteps ==
  ASSUME NEW f, Len(f.byte_code) \in Nat
  PROVE  \E from :
           /\ InstructionStarts(f) = from[0]
           /\ \A ip \in 0..Len(f.byte_code) : from[ip] = From(f, from, ip)
<1> DEFINE end == Len(f.byte_code)
           Lists(g, m) == g = [ip \in m..end |-> From(f, g, ip)]
           Done == {n \in Nat : n <= end => \E g : Lists(g, end - n)}
<1>1. end \in Nat
  OBVIOUS
<1>2. 0 \in Done
  <2> DEFINE g == [ip \in end..end |-> {ip}]
  <2>1. \A ip \in end..end : ~(ip < end)
    OBVIOUS
  <2>2. \A ip \in end..end : From(f, g, ip) = {ip}
    BY <2>1 DEF From
  <2>3. Lists(g, end)
    <3> HIDE DEF end
    <3>1. QED
      BY <2>2
  <2>4. end - 0 = end
    OBVIOUS
  <2> HIDE DEF g, Lists, end
  <2>5. QED
    BY <2>3, <2>4
<1>3. ASSUME NEW n \in Nat, n \in Done
      PROVE  n + 1 \in Done
  <2> SUFFICES ASSUME n + 1 <= end
               PROVE  \E g : Lists(g, end - (n + 1))
    OBVIOUS
  <2> DEFINE m == end - (n + 1)
  <2>1. m \in Nat /\ m + 1 = end - n /\ m < end
    BY <1>1
  <2>2. PICK h : Lists(h, m + 1)
    BY <1>3, <2>1
  <2>3. \A ip \in (m + 1)..end : h[ip] = From(f, h, ip)
    BY <2>2
  <2> HIDE DEF m, end
  <2> DEFINE g == [ip \in m..end |-> From(f, h, ip)]
  <2>4. \A ip \in (m + 1)..end : g[ip] = h[ip]
    BY <1>1, <2>1, <2>3
  <2>5. \A ip \in m..end : From(f, g, ip) = From(f, h, ip)
    <3> SUFFICES ASSUME NEW ip \in m..end
                 PROVE  From(f, g, ip) = From(f, h, ip)
      OBVIOUS
    <3> HIDE DEF g
    <3>1. \A next \in (ip + 1)..end : g[next] = h[next]
      <4>1. \A next \in (ip + 1)..end : next \in (m + 1)..end
        BY <1>1, <2>1
      <4>2. QED
        BY <2>4, <4>1
    <3>2. QED
      BY <3>1 DEF From, end
  <2>6. Lists(g, m)
    <3>1. g = [ip \in m..end |-> From(f, h, ip)]
      OBVIOUS
    <3> HIDE DEF g
    <3>2. QED
      BY <2>5, <3>1
  <2> HIDE DEF g, Lists
  <2>7. QED
    BY <2>6 DEF m
<1>4. Nat \subseteq Done
  <2> HIDE DEF Done
  <2>1. QED
    BY <1>2, <1>3, Induction
<1>5. \E g : Lists(g, 0)
  <2>1. end \in Done
    <3> HIDE DEF Done
    <3>1. QED
      BY <1>1, <1>4
  <2>2. end - end = 0 /\ end <= end
    BY <1>1
  <2> HIDE DEF end, Lists
  <2>3. QED
    BY <2>1, <2>2
<1> DEFINE from == CHOOSE g : Lists(g, 0)
<1>6. Lists(from, 0)
  BY <1>5
<1>7. InstructionStarts(f) = from[0]
  BY DEF InstructionStarts, From
<1> HIDE DEF from
<1>8. \A ip \in 0..end : from[ip] = From(f, from, ip)
  BY <1>6
<1>9. QED
  BY <1>7, <1>8

LEMMA InstructionStartsAre ==
  ASSUME functions \in Seq(FunctionType), NEW f, f.byte_code \in Seq(0..255),
         NEW S, Decoded(functions, f, S)
  PROVE  InstructionStarts(f) = S
<1> DEFINE end == Len(f.byte_code)
<1>1. end \in Nat /\ S \subseteq 0..end /\ 0 \in S /\ end \in S
  BY DEF Decoded
<1>2. PICK from : /\ InstructionStarts(f) = from[0]
                  /\ \A ip \in 0..end : from[ip] = From(f, from, ip)
  BY <1>1, InstructionStartsSteps
<1>3. ASSUME NEW ip \in S \ {end}
      PROVE  LET next == ip + Length(functions, f, ip) IN
             /\ next \in S /\ next \in (ip + 1)..end /\ from[ip] = {ip} \cup from[next]
             /\ \A s \in S : s <= ip \/ next <= s
  <2> DEFINE next == ip + Length(functions, f, ip)
  <2>1. /\ Valid(functions, f, ip) /\ next \in S
        /\ \A s \in S : s <= ip \/ next <= s
    BY DEF Decoded
  <2>2. Length(functions, f, ip) \in Nat \ {0}
    BY <2>1, LengthOf
  <2>3. next \in (ip + 1)..end /\ ip < end /\ ip \in 0..end
    BY <1>1, <2>1, <2>2
  <2>4. InstructionLength(f, ip) = Length(functions, f, ip)
    BY DEF InstructionLength, Length, OpOf, InnerId
  <2>5. from[ip] = From(f, from, ip)
    BY <1>2, <2>3
  <2>6. from[ip] = {ip} \cup from[next]
    BY <2>3, <2>4, <2>5 DEF From
  <2>7. QED
    BY <2>1, <2>3, <2>6
<1> DEFINE Listed == {n \in Nat : \A ip \in S : end - ip <= n => from[ip] = {t \in S : ip <= t}}
<1>4. from[end] = {t \in S : end <= t}
  <2>1. from[end] = {end}
    <3>1. from[end] = From(f, from, end) /\ ~(end < end)
      BY <1>1, <1>2
    <3>2. QED
      BY <3>1 DEF From
  <2> HIDE DEF end
  <2>2. \A t \in S : end <= t <=> t = end
    BY <1>1
  <2>3. QED
    BY <1>1, <2>1, <2>2
<1>5. 0 \in Listed
  <2>1. \A ip \in S : end - ip <= 0 => ip = end
    BY <1>1
  <2> HIDE DEF end
  <2>2. \A ip \in S : end - ip <= 0 => from[ip] = {t \in S : ip <= t}
    BY <1>4, <2>1
  <2>3. QED
    BY <2>2
<1>6. ASSUME NEW n \in Nat, n \in Listed
      PROVE  n + 1 \in Listed
  <2> SUFFICES ASSUME NEW ip \in S, end - ip <= n + 1
               PROVE  from[ip] = {t \in S : ip <= t}
    OBVIOUS
  <2>1. CASE ip = end
    BY <1>4, <2>1
  <2>2. CASE ip # end
    <3> DEFINE next == ip + Length(functions, f, ip)
    <3>1. /\ next \in S /\ next \in (ip + 1)..end /\ from[ip] = {ip} \cup from[next]
          /\ \A s \in S : s <= ip \/ next <= s
      BY <1>3, <2>2
    <3> HIDE DEF next, end
    <3>2. end - next <= n /\ ip \in 0..end
      BY <1>1, <3>1
    <3>3. from[next] = {t \in S : next <= t}
      BY <1>6, <3>1, <3>2
    <3>4. \A t \in S : ip <= t <=> t = ip \/ next <= t
      BY <1>1, <3>1, <3>2
    <3>5. QED
      BY <3>1, <3>3, <3>4
  <2>3. QED
    BY <2>1, <2>2
<1>7. Nat \subseteq Listed
  <2> HIDE DEF Listed
  <2>1. QED
    BY <1>5, <1>6, Induction
<1>8. from[0] = {t \in S : 0 <= t}
  <2>1. end \in Listed
    <3> HIDE DEF Listed
    <3>1. QED
      BY <1>1, <1>7
  <2>2. end - 0 <= end
    BY <1>1
  <2> HIDE DEF end
  <2>3. QED
    BY <1>1, <2>1, <2>2
<1>9. QED
  <2>1. \A t \in S : 0 <= t
    BY <1>1
  <2>2. QED
    BY <1>2, <1>8, <2>1

\* The functions that are compiled, as TLC lists their instructions.
LEMMA CompiledFunction ==
  ASSUME CompilerInv, CodeInv, NEW i \in DOMAIN functions, ConstantsFit(functions[i])
  PROVE  LET f == functions[i] IN
         /\ f \in FunctionType /\ Finished(functions, f)
         /\ InstructionStarts(f) = Starts(functions, f)
         /\ Decoded(functions, f, Starts(functions, f))
<1> DEFINE f == functions[i]
<1>1. functions \in Seq(FunctionType) /\ i \in 1..Len(functions)
  BY DEF CompilerInv
<1>2. f \in FunctionType /\ f.byte_code \in Seq(0..255)
  BY <1>1, FunctionFields
<1>3. Finished(functions, f)
  BY <1>1 DEF CodeInv, Coded, FunctionsCoded
<1>4. Decoded(functions, f, Starts(functions, f))
  BY <1>3, StartsDecode DEF Finished
<1> HIDE DEF f
<1>5. InstructionStarts(f) = Starts(functions, f)
  BY <1>1, <1>2, <1>4, InstructionStartsAre
<1>6. QED
  BY <1>2, <1>3, <1>4, <1>5 DEF f

\* The code every function is compiled to is whole instructions, the jumps that do
\* not land are those a pending rule will patch, and a finished function has none.
THEOREM CodeInvariant == Spec => []CodeInv
<1>1. QED
  BY InitCode, NextCode, CompilerInvariant, PTL DEF Spec

\* Every index that compiler.cpp emits refers to what its instruction takes it for:
\* a constant of the right kind, an upvalue the function has, a function that is
\* there, its captured upvalues those of the enclosing function; for programs of
\* any size in which no function has more constants than addConstant asserts.
THEOREM OperandsStayValid ==
  Spec => []((\A i \in DOMAIN functions : ConstantsFit(functions[i])) => OperandsValid)
<1>1. ASSUME CompilerInv, CodeInv, \A i \in DOMAIN functions : ConstantsFit(functions[i])
      PROVE  OperandsValid
  <2>1. ASSUME NEW i \in DOMAIN functions,
               NEW ip \in InstructionStarts(functions[i]) \ {Len(functions[i].byte_code)}
        PROVE  OperandValid(functions[i], ip)
    <3> DEFINE f == functions[i]
    <3>1. InstructionStarts(f) = Starts(functions, f) /\ Decoded(functions, f, Starts(functions, f))
      BY <1>1, CompiledFunction
    <3>2. Valid(functions, f, ip)
      BY <2>1, <3>1 DEF Decoded
    <3> HIDE DEF f
    <3>3. OperandValid(f, ip)
      BY <3>2 DEF Valid, OperandValid, OpOf, InnerId
    <3>4. QED
      BY <3>3 DEF f
  <2>2. QED
    BY <2>1 DEF OperandsValid
<1>2. QED
  BY <1>1, CodeInvariant, CompilerInvariant, PTL

\* Every jump and loop that compiler.cpp emits and patches leads to an instruction of
\* its function, every path ends in OP_RETURN, and no jump is left unpatched; for
\* programs of any size and nesting, as long as no function has more code than a
\* jump can pass, which patchJump and emitLoop check, nor more constants.
THEOREM JumpsStayLanded ==
  Spec => []((\A i \in DOMAIN functions : ConstantsFit(functions[i]) /\ CodeFits(functions[i]))
               => JumpsLand)
<1>1. ASSUME CompilerInv, CodeInv,
             \A i \in DOMAIN functions : ConstantsFit(functions[i]) /\ CodeFits(functions[i])
      PROVE  JumpsLand
  <2>1. ASSUME NEW i \in DOMAIN functions,
               NEW ip \in InstructionStarts(functions[i]) \ {Len(functions[i].byte_code)}
        PROVE  Targets(functions[i], ip) \subseteq
                 InstructionStarts(functions[i]) \ {Len(functions[i].byte_code)}
    <3> DEFINE f == functions[i]
               starts == Instructions(functions, f)
               next == ip + Length(functions, f, ip)
    <3>1. /\ f \in FunctionType /\ Finished(functions, f)
          /\ InstructionStarts(f) = Starts(functions, f)
          /\ Decoded(functions, f, Starts(functions, f))
      BY <1>1, CompiledFunction
    <3>2. functions \in Seq(FunctionType)
      BY <1>1 DEF CompilerInv
    <3> HIDE DEF f
    <3>3. InstructionStarts(f) \ {Len(f.byte_code)} = starts /\ ip \in starts
      BY <2>1, <3>1 DEF Instructions, f
    <3>4. /\ Valid(functions, f, ip)
          /\ next \in Starts(functions, f)
      BY <3>1, <3>3 DEF Decoded, Instructions
    <3>5. /\ next = Len(f.byte_code) => OpOf(f, ip) = "OP_RETURN"
          /\ Landing(f, ip) \subseteq starts
      BY <1>1, <3>1, <3>3 DEF Finished, f
    <3>6. ip + InstructionLength(f, ip) = next
      BY DEF InstructionLength, Length, OpOf, InnerId
    <3>7. OpOf(f, ip) \in Jump \cup {"OP_LOOP"} => next = ip + 3
      <4>1. Jump \cup {"OP_LOOP"} \subseteq IndexOps \ {"OP_CLOSURE"}
        BY DEF Jump, IndexOps
      <4>2. QED
        BY <3>2, <3>4, <4>1, LengthOf
    <3>8. OpOf(f, ip) # "OP_RETURN" => next \in starts
      BY <3>4, <3>5 DEF Instructions
    <3> HIDE DEF starts, next
    <3>9. Starts(functions, f) \subseteq 0..Len(f.byte_code) /\ Len(f.byte_code) \in Nat
      BY <3>1, FieldTypes DEF Decoded
    <3>10. ip \in Nat /\ next \in Nat /\ next <= Len(f.byte_code)
      <4>1. ip \in Starts(functions, f)
        BY <3>3 DEF Instructions, starts
      <4>2. QED
        BY <3>4, <3>9, <4>1
    <3>11. OpOf(f, ip) = "OP_LOOP" => OperandAt(f, ip) \in Nat
      <4>1. Richer(f, f)
        BY <3>1, FieldTypes DEF Richer
      <4>2. OpOf(f, ip) \in IndexOps => OperandAt(f, ip) \in Nat
        BY <3>1, <3>2, <3>4, <3>10, <4>1, SameInstruction DEF next
      <4>3. QED
        BY <4>2 DEF IndexOps
    <3>12. Targets(f, ip) \subseteq starts
      <4>1. CASE OpOf(f, ip) = "OP_JUMP"
        <5>1. Targets(f, ip) = {next + OperandAt(f, ip)}
          BY <3>6, <4>1 DEF Targets, OpOf
        <5>2. Landing(f, ip) = {ip + 3 + OperandAt(f, ip)} /\ next = ip + 3
          BY <3>7, <4>1 DEF Landing, Jump
        <5>3. QED
          BY <3>5, <5>1, <5>2
      <4>2. CASE OpOf(f, ip) = "OP_LOOP"
        <5>1. Targets(f, ip) = {next - OperandAt(f, ip)}
          BY <3>6, <4>2 DEF Targets, OpOf
        <5>2. Landing(f, ip) = {ip + 3 - OperandAt(f, ip)} /\ ip + 3 = next
          BY <3>7, <4>2 DEF Landing, Jump
        <5>3. \A k \in Nat : ip + 3 - k = (ip + 3) - k
          BY <3>10
        <5>4. Targets(f, ip) = Landing(f, ip)
          BY <3>11, <4>2, <5>1, <5>2, <5>3 DEF Jump
        <5>5. QED
          BY <3>5, <5>4
      <4>3. CASE OpOf(f, ip) = "OP_JUMP_IF_FALSE"
        <5>1. Targets(f, ip) = {next, next + OperandAt(f, ip)}
          BY <3>6, <4>3 DEF Targets, OpOf
        <5>2. Landing(f, ip) = {ip + 3 + OperandAt(f, ip)} /\ next = ip + 3
          BY <3>7, <4>3 DEF Landing, Jump
        <5>3. next \in starts
          BY <3>8, <4>3
        <5>4. QED
          BY <3>5, <5>1, <5>2, <5>3
      <4>4. CASE OpOf(f, ip) = "OP_RETURN"
        BY <4>4 DEF Targets, OpOf
      <4>5. CASE OpOf(f, ip) \notin Jump \cup {"OP_LOOP", "OP_RETURN"}
        <5>1. Targets(f, ip) = {next}
          BY <3>6, <4>5 DEF Targets, OpOf, Jump
        <5>2. QED
          BY <3>8, <4>5, <5>1
      <4>6. QED
        BY <4>1, <4>2, <4>3, <4>4, <4>5 DEF Jump
    <3>13. QED
      BY <3>3, <3>12 DEF f
  <2>2. QED
    BY <2>1 DEF JumpsLand
<1>2. QED
  BY <1>1, CodeInvariant, CompilerInvariant, PTL
================================================================================
