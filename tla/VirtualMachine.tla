----------------------------- MODULE VirtualMachine -----------------------------
(***************************************************************************)
(* The stack machine of src/virtual_machine.cpp: one action per opcode of  *)
(* run(), with call, captureUpvalue and closeUpvalues.                     *)
(*                                                                         *)
(* Objects are numbered in allocation order and never freed: that the heap *)
(* frees nothing the machine can reach is what module HeapProofs shows.    *)
(* No property tells numbers apart, so arithmetic yields any number and a  *)
(* comparison any truth value.  Strings as values are left out.            *)
(***************************************************************************)
EXTENDS Chunk, SequencesExt, FiniteSetsExt

CONSTANTS
  Numbers,   \* the numbers there are
  MaxFrames, \* bound on the depth of calls
  MaxObjects \* bound on the objects allocated

VARIABLES
  status,          \* "ready", "running", "returned", "error", or "aborted"
  m_value_stack, m_frames, m_globals,
  m_open_upvalues, \* the UpvalueObjects not yet closed
  objects,         \* every object allocated
  in_order         \* no part of the program: upvalues were so far captured
                   \* from the bottom of the stack upwards

machineVars == <<status, m_value_stack, m_frames, m_globals, m_open_upvalues, objects,
                 in_order>>

-------------------------------------------------------------------------------
Object(id) == [type |-> "object", object |-> id]
IsObject(value, type) == value.type = "object" /\ objects[value.object].type = type

Closure(function, upvalues) ==
  [type |-> "closure", function |-> function, upvalues |-> upvalues]
Upvalue(index) ==
  [type |-> "upvalue", closed |-> FALSE, stack_index |-> index, value |-> Nil]
\* Mutant: the value is not kept.
ClosedWithoutValue(upvalue, value) ==
  [type |-> "upvalue", closed |-> TRUE, stack_index |-> 0, value |-> Nil]
Closed(upvalue, value) ==
  [type |-> "upvalue", closed |-> TRUE, stack_index |-> 0, value |-> value]
Class == [type |-> "class", methods |-> <<>>]
Instance(class) == [type |-> "instance", class |-> class, fields |-> <<>>]
BoundMethod(receiver, method) ==
  [type |-> "bound_method", receiver |-> receiver, method |-> method]
Native(name) == [type |-> "native_function", native_function |-> name]

\* The id of the next object.
Allocated == Len(objects) + 1

\* A table with one entry added or replaced.
With(table, key, value) ==
  [k \in DOMAIN table \cup {key} |-> IF k = key THEN value ELSE table[k]]

NativeFunctions == <<"SystemTimeNow", "Echo">>

MachineInit ==
  /\ status = "ready"
  /\ m_value_stack = <<>> /\ m_frames = <<>> /\ m_globals = <<>>
  /\ m_open_upvalues = <<>> /\ objects = <<>> /\ in_order = TRUE

\* The rest of Interpret: a closure for the script, its frame, the native functions.
\* They come on top of what the machine holds already.
Interpret ==
  /\ status = "ready" /\ status' = "running"
  /\ objects' = objects \o <<Closure(Script, <<>>)>>
                         \o [i \in DOMAIN NativeFunctions |-> Native(NativeFunctions[i])]
  /\ m_frames' = Append(m_frames, [closure |-> Allocated, instruction_pointer |-> 0, slot |-> 0])
  /\ m_globals' = [name \in Range(NativeFunctions) |->
                     Object(Allocated + (CHOOSE i \in DOMAIN NativeFunctions :
                                           NativeFunctions[i] = name))] @@ m_globals
  /\ UNCHANGED <<m_value_stack, m_open_upvalues, in_order>>

-------------------------------------------------------------------------------
heapVars == <<objects, m_open_upvalues, in_order>>

Frame    == Last(m_frames)
Running  == functions[objects[Frame.closure].function]
Ip       == Frame.instruction_pointer
Index    == IndexAt(Running.byte_code, Ip + 1)
Constant == ConstantAt(Running, Ip + 1)
NextIp   == Ip + InstructionLength(Running, Ip)

IsAtEnd       == Ip = Len(Running.byte_code)
Executing(op) == status = "running" /\ ~IsAtEnd /\ OpAt(Running.byte_code, Ip) = op

Top(n)   == m_value_stack[Len(m_value_stack) - n]   \* peekStack(n)
Pop(n)   == SubSeq(m_value_stack, 1, Len(m_value_stack) - n)
Holds(n) == Len(m_value_stack) >= n
IsSlot(index)  == index \in 0..(Len(m_value_stack) - 1)
IsFalsy(value) == value \in {Nil, Bool(FALSE)}

\* How an instruction ends: going on with the value stack s; with an error of the
\* program, through runtimeError or without it, and what it leaves of the value stack;
\* or, where ok does not hold, in an assertion or a range error.
MoveTo(ip)  == [m_frames EXCEPT ![Len(m_frames)].instruction_pointer = ip]
Continue(s) == m_value_stack' = s /\ m_frames' = MoveTo(NextIp) /\ UNCHANGED status
Step(s)     == Continue(s) /\ UNCHANGED <<m_globals, heapVars>>
JumpTo(ip)  == /\ m_frames' = MoveTo(ip)
               /\ UNCHANGED <<status, m_value_stack, m_globals, heapVars>>
Abort       == /\ status' = "aborted"
               /\ UNCHANGED <<m_value_stack, m_frames, m_globals, heapVars>>
Throw(s, ip) == /\ status' = "error" /\ m_value_stack' = s /\ m_frames' = MoveTo(ip)
                /\ UNCHANGED <<m_globals, m_open_upvalues, in_order>>
RuntimeErrorLeaving(s) == Throw(s, Len(Running.byte_code)) /\ UNCHANGED objects
RuntimeError == RuntimeErrorLeaving(m_value_stack)
Asserting(ok, action) == IF ok THEN action ELSE Abort

-------------------------------------------------------------------------------
(***************************************************************************)
(* Values, variables and jumps.                                            *)
(***************************************************************************)
Push(value) == Step(Append(m_value_stack, value))

PushConstant ==
  \/ Executing("OP_CONSTANT") /\ Push(Constant)
  \/ Executing("OP_NIL")      /\ Push(Nil)
  \/ Executing("OP_TRUE")     /\ Push(Bool(TRUE))
  \/ Executing("OP_FALSE")    /\ Push(Bool(FALSE))

Discard ==
  /\ Executing("OP_POP") \/ Executing("OP_PRINT")
  /\ Asserting(Holds(1), Step(Pop(1)))

\* The error of a negation shows a line of Chunk::lines, which nothing fills: reading
\* beyond its end may end the process or yield any number, and then the error.
Negate ==
  /\ Executing("OP_NEGATE")
  /\ Asserting(Holds(1),
       \/ /\ Top(0).type = "double"
          /\ \E n \in Numbers : Step(Append(Pop(1), Number(n)))
       \/ Top(0).type # "double" /\ (RuntimeErrorLeaving(Pop(1)) \/ Abort))

Not ==
  /\ Executing("OP_NOT")
  /\ Asserting(Holds(1), Step(Append(Pop(1), Bool(IsFalsy(Top(0))))))

\* Value::operator== has no case for objects other than strings and functions.
Equal ==
  /\ Executing("OP_EQUAL") \/ Executing("OP_NOT_EQUAL")
  /\ Asserting(Holds(2) /\ ~(Top(0).type = "object" /\ Top(1).type = "object"),
               Step(Append(Pop(2), Bool(Executing("OP_EQUAL") <=> Top(0) = Top(1)))))

Arithmetic == {"OP_ADD", "OP_SUBTRACT", "OP_MULTIPLY", "OP_DIVIDE"}
Comparison == {"OP_GREATER", "OP_GREATER_EQUAL", "OP_LESS", "OP_LESS_EQUAL"}

\* The left operand is popped only after the right one proved a number.
BinaryOperation(results) ==
  Asserting(Holds(1) /\ (Top(0).type = "double" => Holds(2)),
    IF Top(0).type # "double" THEN RuntimeErrorLeaving(Pop(1))
    ELSE IF Top(1).type # "double" THEN RuntimeErrorLeaving(Pop(2))
    ELSE \E result \in results : Step(Append(Pop(2), result)))

Binary ==
  \/ \E op \in Arithmetic : Executing(op) /\ BinaryOperation({Number(n) : n \in Numbers})
  \/ \E op \in Comparison : Executing(op) /\ BinaryOperation({Bool(b) : b \in BOOLEAN})

DefineGlobal ==
  /\ Executing("OP_DEFINE_GLOBAL")
  /\ Asserting(Holds(1), /\ m_globals' = With(m_globals, Constant.name, Top(0))
                         /\ Continue(Pop(1)) /\ UNCHANGED heapVars)

GetGlobal ==
  /\ Executing("OP_GET_GLOBAL")
  /\ IF Constant.name \notin DOMAIN m_globals THEN RuntimeError
     ELSE Push(m_globals[Constant.name])

SetGlobal ==
  /\ Executing("OP_SET_GLOBAL")
  /\ IF Constant.name \notin DOMAIN m_globals THEN RuntimeError
     ELSE Asserting(Holds(1), /\ m_globals' = With(m_globals, Constant.name, Top(0))
                              /\ Continue(m_value_stack) /\ UNCHANGED heapVars)

LocalSlot == Frame.slot + Index - 1

GetLocal ==
  /\ Executing("OP_GET_LOCAL")
  /\ Asserting(IsSlot(LocalSlot), Push(m_value_stack[LocalSlot + 1]))

SetLocal ==
  /\ Executing("OP_SET_LOCAL")
  /\ Asserting(IsSlot(LocalSlot), Step([m_value_stack EXCEPT ![LocalSlot + 1] = Top(0)]))

\* Mutant: the condition is popped.
JumpIfFalsePops ==
  /\ Executing("OP_JUMP_IF_FALSE")
  /\ Asserting(Holds(1), /\ m_value_stack' = Pop(1)
                         /\ m_frames' = MoveTo(IF IsFalsy(Top(0)) THEN NextIp + Index ELSE NextIp)
                         /\ UNCHANGED <<status, m_globals, heapVars>>)

JumpIfFalse ==
  /\ Executing("OP_JUMP_IF_FALSE")
  /\ Asserting(Holds(1), JumpTo(IF IsFalsy(Top(0)) THEN NextIp + Index ELSE NextIp))

Jump ==
  \/ Executing("OP_JUMP") /\ JumpTo(NextIp + Index)
  \/ Executing("OP_LOOP") /\ JumpTo(NextIp - Index)

-------------------------------------------------------------------------------
(***************************************************************************)
(* Closures.                                                               *)
(***************************************************************************)
StackIndex(id) == objects[id].stack_index

\* captureUpvalue: walk the list down to the first upvalue not above the slot.
\* A new upvalue goes in front of the one passed last.  Objects and the list are
\* parameters, since one OP_CLOSURE may capture several variables.
\* Mutant: it goes to the end of the list.
CaptureAtEnd(state, slot) ==
  LET open == state.open
      it   == Min({i \in DOMAIN open : state.objects[open[i]].stack_index <= slot}
                    \cup {Len(open) + 1})
      new  == Len(state.objects) + 1
  IN  IF it <= Len(open) /\ state.objects[open[it]].stack_index = slot
      THEN [state EXCEPT !.captured = Append(@, open[it])]
      ELSE [captured |-> Append(state.captured, new),
            open     |-> Append(open, new),
            objects  |-> Append(state.objects, Upvalue(slot)),
            in_order |-> state.in_order /\ it = 1,
            ok       |-> state.ok /\ IsSlot(slot)]
Capture(state, slot) ==
  LET open  == state.open
      it    == Min({i \in DOMAIN open : state.objects[open[i]].stack_index <= slot}
                     \cup {Len(open) + 1})
      prev  == Max({1, it - 1})
      new   == Len(state.objects) + 1
  IN  IF it <= Len(open) /\ state.objects[open[it]].stack_index = slot
      THEN [state EXCEPT !.captured = Append(@, open[it])]
      ELSE [captured |-> Append(state.captured, new),
            open     |-> InsertAt(open, prev, new),
            objects  |-> Append(state.objects, Upvalue(slot)),
            in_order |-> state.in_order /\ it = 1,
            ok       |-> state.ok /\ IsSlot(slot)]

\* Resolve the i-th captured variable of an OP_CLOSURE: a slot of this frame, or
\* an upvalue of the closure that runs.
CaptureOne(state, upvalue) ==
  LET own == objects[Frame.closure].upvalues IN
  IF upvalue.type = 1 THEN Capture(state, Frame.slot + upvalue.index - 1)
  ELSE IF upvalue.index < Len(own)
    THEN [state EXCEPT !.captured = Append(@, own[upvalue.index + 1])]
  ELSE [state EXCEPT !.ok = FALSE]

MakeClosure ==
  /\ Executing("OP_CLOSURE")
  /\ LET function == functions[Constant.function]
         start    == [captured |-> <<>>, open |-> m_open_upvalues, objects |-> objects,
                      in_order |-> in_order, ok |-> TRUE]
         Operand(i) == UpvalueAt(Running.byte_code, Ip + UpvalueSize * i)
         done     == FoldLeft(CaptureOne, start, [i \in 1..function.upvalue_count |-> Operand(i)])
     IN  /\ Len(done.objects) < MaxObjects
         /\ Asserting(done.ok,
              /\ objects' = Append(done.objects, Closure(Constant.function, done.captured))
              /\ m_open_upvalues' = done.open /\ in_order' = done.in_order
              /\ Continue(Append(m_value_stack, Object(Len(done.objects) + 1)))
              /\ UNCHANGED m_globals)

UpvalueId == objects[Frame.closure].upvalues[Index + 1]
UpvalueOperand == objects[UpvalueId]
HasUpvalue == Index < Len(objects[Frame.closure].upvalues)

GetUpvalue ==
  /\ Executing("OP_GET_UPVALUE")
  /\ Asserting(HasUpvalue,
       IF UpvalueOperand.closed THEN Push(UpvalueOperand.value)
       ELSE Asserting(IsSlot(UpvalueOperand.stack_index),
                      Push(m_value_stack[UpvalueOperand.stack_index + 1])))

SetUpvalue ==
  /\ Executing("OP_SET_UPVALUE")
  /\ Asserting(HasUpvalue /\ Holds(1),
       IF UpvalueOperand.closed
       THEN /\ objects' = [objects EXCEPT ![UpvalueId].value = Top(0)]
            /\ Continue(m_value_stack)
            /\ UNCHANGED <<m_globals, m_open_upvalues, in_order>>
       ELSE Asserting(IsSlot(UpvalueOperand.stack_index),
              Step([m_value_stack EXCEPT ![UpvalueOperand.stack_index + 1] = Top(0)])))

\* closeUpvalues: the front of the list, as long as it is not below the index.
\* Mutant: as long as it is above it.
ClosingAbove(index) ==
  Min({i \in DOMAIN m_open_upvalues : StackIndex(m_open_upvalues[i]) <= index}
        \cup {Len(m_open_upvalues) + 1}) - 1
Closing(index) ==
  Min({i \in DOMAIN m_open_upvalues : StackIndex(m_open_upvalues[i]) < index}
        \cup {Len(m_open_upvalues) + 1}) - 1

CloseUpvalue ==
  /\ Executing("OP_CLOSE_UPVALUE")
  /\ LET closing == Closing(Len(m_value_stack) - 1)
         closed  == {m_open_upvalues[i] : i \in 1..closing}
     IN  Asserting(Holds(1) /\ \A u \in closed : IsSlot(StackIndex(u)),
           /\ objects' = [id \in DOMAIN objects |->
                            IF id \in closed
                            THEN Closed(objects[id], m_value_stack[StackIndex(id) + 1])
                            ELSE objects[id]]
           /\ m_open_upvalues' = SubSeq(m_open_upvalues, closing + 1, Len(m_open_upvalues))
           /\ Continue(Pop(1)) /\ UNCHANGED <<m_globals, in_order>>)

-------------------------------------------------------------------------------
(***************************************************************************)
(* Calls.                                                                  *)
(***************************************************************************)

\* A new frame for the closure, over the arguments on the stack s.
\* Mutant: the frame begins above the arguments.
EnterFrameAbove(closure, s, arguments) ==
  /\ Len(m_frames) < MaxFrames
  /\ m_frames' = Append(MoveTo(NextIp),
                        [closure |-> closure, instruction_pointer |-> 0, slot |-> Len(s)])
  /\ m_value_stack' = s /\ UNCHANGED <<status, m_globals, m_open_upvalues, in_order>>
EnterFrame(closure, s, arguments) ==
  /\ Len(m_frames) < MaxFrames
  /\ m_frames' = Append(MoveTo(NextIp),
                        [closure |-> closure, instruction_pointer |-> 0,
                         slot |-> Len(s) - arguments])
  /\ m_value_stack' = s /\ UNCHANGED <<status, m_globals, m_open_upvalues, in_order>>

Arity(closure) == functions[objects[closure].function].arity
Callee(n) == objects[Top(n).object]
WithCallee(n, value) == [m_value_stack EXCEPT ![Len(m_value_stack) - n] = value]

CallClosure(n) ==
  /\ Callee(n).type = "closure"
  /\ IF Arity(Top(n).object) # n THEN RuntimeError
     ELSE EnterFrame(Top(n).object, m_value_stack, n) /\ UNCHANGED objects

\* Echo returns its argument and asserts that there is one; the time is a number.
CallNative(n) ==
  /\ Callee(n).type = "native_function"
  /\ IF Callee(n).native_function = "Echo"
     THEN Asserting(n > 0, IF n = 1 THEN Step(Append(Pop(2), Top(0))) ELSE RuntimeError)
     ELSE IF n # 0 THEN RuntimeError
     ELSE \E time \in Numbers : Step(Append(Pop(1), Number(time)))

\* The instance takes the place of the class, then init is called on it.
CallClass(n) ==
  /\ Callee(n).type = "class" /\ Allocated <= MaxObjects
  /\ LET methods  == Callee(n).methods
         s        == WithCallee(n, Object(Allocated))
         Allocate == objects' = Append(objects, Instance(Top(n).object))
     IN  IF "init" \in DOMAIN methods
         THEN /\ Allocate
              /\ IF Arity(methods["init"]) # n THEN Throw(s, Len(Running.byte_code))
                 ELSE EnterFrame(methods["init"], s, n)
         ELSE IF n # 0 THEN Throw(s, Len(Running.byte_code)) /\ Allocate
         ELSE /\ Continue(s) /\ Allocate
              /\ UNCHANGED <<m_globals, m_open_upvalues, in_order>>

\* Mutant: the receiver does not take the place of the bound method.
CallBoundMethodInPlace(n) ==
  /\ Callee(n).type = "bound_method"
  /\ IF Arity(Callee(n).method) # n THEN RuntimeError
     ELSE EnterFrame(Callee(n).method, m_value_stack, n) /\ UNCHANGED objects

CallBoundMethod(n) ==
  /\ Callee(n).type = "bound_method"
  /\ IF Arity(Callee(n).method) # n THEN RuntimeError
     ELSE /\ EnterFrame(Callee(n).method, WithCallee(n, Object(Callee(n).receiver)), n)
          /\ UNCHANGED objects

NotCallable(n) == Callee(n).type \in {"instance"} /\ RuntimeError

Call ==
  /\ Executing("OP_CALL")
  /\ Asserting(Len(m_value_stack) > Index,
       IF Top(Index).type # "object" THEN RuntimeError
       ELSE \/ CallClosure(Index) \/ CallNative(Index) \/ CallClass(Index)
            \/ CallBoundMethod(Index) \/ NotCallable(Index))

EndProgram ==
  /\ status' = "returned" /\ m_frames' = MoveTo(NextIp)
  /\ UNCHANGED <<m_value_stack, m_globals, heapVars>>

\* The script ends, its frame stays; a function leaves its value in place of its arguments and
\* of what was called.
\* Mutant: what was called stays under its result.
ReturnKeepsCallee ==
  /\ Executing("OP_RETURN")
  /\ IF Len(m_frames) = 1 THEN EndProgram
     ELSE LET popped == 1 + Running.arity
          IN  Asserting(Holds(popped),
                /\ m_value_stack' = Append(Pop(popped), Top(0))
                /\ m_frames' = Front(m_frames)
                /\ UNCHANGED <<status, m_globals, heapVars>>)

Return ==
  /\ Executing("OP_RETURN")
  /\ IF Len(m_frames) = 1 THEN EndProgram
     ELSE LET popped == 1 + Running.arity + 1
          IN  Asserting(Holds(popped),
                /\ m_value_stack' = Append(Pop(popped), Top(0))
                /\ m_frames' = Front(m_frames)
                /\ UNCHANGED <<status, m_globals, heapVars>>)

-------------------------------------------------------------------------------
(***************************************************************************)
(* Classes.                                                                *)
(***************************************************************************)
Allocates(object, s) ==
  /\ Allocated <= MaxObjects
  /\ objects' = Append(objects, object) /\ Continue(s)
  /\ UNCHANGED <<m_globals, m_open_upvalues, in_order>>

MakeClass == Executing("OP_CLASS") /\ Allocates(Class, Append(m_value_stack, Object(Allocated)))

\* A field hides a method of the same name.
GetProperty ==
  /\ Executing("OP_GET_PROPERTY")
  /\ Asserting(Holds(1),
       IF ~IsObject(Top(0), "instance") THEN Throw(m_value_stack, Ip + 1) /\ UNCHANGED objects
       ELSE LET instance == objects[Top(0).object]
                methods  == objects[instance.class].methods
            IN  IF Constant.name \in DOMAIN instance.fields
                THEN Step(Append(Pop(1), instance.fields[Constant.name]))
                ELSE IF Constant.name \notin DOMAIN methods
                THEN Throw(m_value_stack, NextIp) /\ UNCHANGED objects
                ELSE Allocates(BoundMethod(Top(0).object, methods[Constant.name]),
                               Append(Pop(1), Object(Allocated))))

SetProperty ==
  /\ Executing("OP_SET_PROPERTY")
  /\ Asserting(Holds(2),
       IF ~IsObject(Top(1), "instance") THEN Throw(Pop(2), Ip + 1) /\ UNCHANGED objects
       ELSE /\ objects' = [objects EXCEPT ![Top(1).object].fields =
                                          With(@, Constant.name, Top(0))]
            /\ Continue(Append(Pop(2), Top(0)))
            /\ UNCHANGED <<m_globals, m_open_upvalues, in_order>>)

\* The closure stays on the stack.
AddMethod ==
  /\ Executing("OP_METHOD")
  /\ Asserting(Holds(2) /\ IsObject(Top(0), "closure") /\ IsObject(Top(1), "class"),
       /\ objects' = [objects EXCEPT ![Top(1).object].methods =
                                     With(@, Constant.name, Top(0).object)]
       /\ Continue(m_value_stack)
       /\ UNCHANGED <<m_globals, m_open_upvalues, in_order>>)

Instruction ==
  \/ PushConstant \/ Discard \/ Negate \/ Not \/ Equal \/ Binary
  \/ DefineGlobal \/ GetGlobal \/ SetGlobal \/ GetLocal \/ SetLocal
  \/ JumpIfFalse \/ Jump
  \/ MakeClosure \/ GetUpvalue \/ SetUpvalue \/ CloseUpvalue
  \/ Call \/ Return
  \/ MakeClass \/ GetProperty \/ SetProperty \/ AddMethod
================================================================================
