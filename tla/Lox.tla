---------------------------------- MODULE Lox ----------------------------------
(***************************************************************************)
(* VirtualMachine::Interpret: the compiler produces the functions of a     *)
(* program, the virtual machine runs them.  The two meet in functions and  *)
(* in what byte code promises: jumps that land on instructions, operands   *)
(* that exist, and locals that are on the stack where the compiler counts  *)
(* them.                                                                   *)
(***************************************************************************)
EXTENDS Compiler

CONSTANTS
  MaxFrames, \* bound on the depth of calls
  MaxObjects \* bound on the objects allocated

ASSUME MachineConstants == MaxFrames \in Nat \ {0} /\ MaxObjects \in Nat

VARIABLES status, m_value_stack, m_frames, m_globals, m_open_upvalues, objects, in_order

Machine == INSTANCE VirtualMachine

machineVars == <<status, m_value_stack, m_frames, m_globals, m_open_upvalues, objects, in_order>>
vars == <<compilerVars, machineVars>>

LoxInit == Init /\ Machine!MachineInit

LoxNext ==
  \/ Next /\ UNCHANGED machineVars
  \/ compilation = "compiled" /\ Machine!Interpret /\ UNCHANGED compilerVars
  \/ Machine!Instruction /\ UNCHANGED compilerVars

LoxSpec == LoxInit /\ [][LoxNext]_vars

-------------------------------------------------------------------------------
Running == status = "running"

\* Only the values a program computes can end the process: two objects compared, Echo
\* called with nothing, anything but a number negated.  What the machine asserts or
\* assumes of the stack, the frames, the upvalues and the operands of byte code holds,
\* as long as captures go up the stack.
Compares(op) == op \in {"OP_EQUAL", "OP_NOT_EQUAL"}
AbortsOnValuesOnly ==
  in_order /\ status = "aborted" =>
    LET op == OpAt(Machine!Running.byte_code, Machine!Ip) IN
    \/ Compares(op) /\ \A n \in {0, 1} : Machine!Top(n).type = "object"
    \/ op = "OP_NEGATE" /\ m_value_stack # <<>> /\ Machine!Top(0).type # "double"
    \/ /\ op = "OP_CALL" /\ Machine!Index = 0
       /\ Machine!IsObject(Machine!Top(0), "native_function")

\* Where a declaration or a statement begins, the value stack of the frame holds
\* exactly the locals that the compiler counted there: slot 0 is the function
\* called, or nothing in the script.  A function that declares a class with methods
\* is left out: see StackBalanced.
Layout ==
  Running => \A h \in Machine!Running.heights :
    h[1] = Machine!Ip => \/ Len(m_value_stack) = Machine!Frame.slot + h[2] - 1
                         \/ AddsMethods(Machine!Running)

UpvalueIds == {id \in DOMAIN objects : objects[id].type = "upvalue"}
Open == {id \in UpvalueIds : ~objects[id].closed}

\* The closures over a variable share one upvalue while the variable is on the
\* stack, so that what one assigns the others see.
OneUpvaluePerVariable ==
  \A u, v \in Open : objects[u].stack_index = objects[v].stack_index => u = v

\* captureUpvalue finds the upvalue of a slot, and closeUpvalues all above one,
\* only if the list is sorted from the top of the stack down and holds every
\* upvalue that is open.  It is and does, as long as captures go up the stack.
OpenUpvaluesSorted ==
  in_order =>
    /\ Open = Range(m_open_upvalues)
    /\ \A i, j \in DOMAIN m_open_upvalues : i < j =>
         objects[m_open_upvalues[i]].stack_index > objects[m_open_upvalues[j]].stack_index

\* An upvalue that is still open refers to a slot that is still there.
NoStaleUpvalue ==
  in_order => \A id \in Open : Machine!IsSlot(objects[id].stack_index)

\* The value of a captured variable: in its slot of the stack, later in the upvalue.
Cell(id) == IF objects[id].closed THEN objects[id].value
            ELSE m_value_stack[objects[id].stack_index + 1]

\* Only an assignment changes a captured variable: the closures that share it, and
\* the block it belongs to, see one variable throughout, also when the block ends,
\* when its slot is used again, and while calls come and go on the stack above it.
Assigns(id) ==
  \/ Machine!Executing("OP_SET_UPVALUE") /\ Machine!UpvalueId = id
  \/ Machine!Executing("OP_SET_LOCAL") /\ ~objects[id].closed
       /\ Machine!LocalSlot = objects[id].stack_index
OnlyAssignmentChangesVariable ==
  [][ in_order' => \A id \in UpvalueIds : Cell(id)' = Cell(id) \/ Assigns(id) ]_vars

\* A return leaves on the stack of the caller one value in place of the callee
\* and its arguments.
ReturnReplacesCall ==
  [][Len(m_frames') < Len(m_frames) => Len(m_value_stack') = Machine!Frame.slot]_vars

MethodClosures ==
  UNION {Range(objects[id].methods) : id \in {id \in DOMAIN objects : objects[id].type = "class"}}

\* While a method runs, slot 0 of its frame, which this refers to, holds an
\* instance of a class that has the method.
ThisIsInstance ==
  \A i \in DOMAIN m_frames : m_frames[i].closure \in MethodClosures =>
    LET this == m_value_stack[m_frames[i].slot]
    IN  /\ Machine!IsObject(this, "instance")
        /\ m_frames[i].closure \in Range(objects[objects[this.object].class].methods)

\* What an initializer leaves in place of the class called is the instance.
Initializers == {id \in MethodClosures :
  \E class \in DOMAIN objects : objects[class].type = "class" /\ <<"init", id>> \in
    {<<name, objects[class].methods[name]>> : name \in DOMAIN objects[class].methods}}
InitReturnsInstance ==
  [][ Len(m_frames') < Len(m_frames) /\ Last(m_frames).closure \in Initializers
        => Last(m_value_stack') = m_value_stack[Last(m_frames).slot] ]_vars
================================================================================
