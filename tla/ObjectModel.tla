----------------------------- MODULE ObjectModel -----------------------------
(***************************************************************************)
(* The garbage-collected object types of src/object.h: which pointer       *)
(* fields each type has, what a field may point at, and which fields the   *)
(* collector follows.  Field contents other than pointers (names, arity,   *)
(* byte code, string data) are left to the modules that need them.         *)
(***************************************************************************)

ObjectType == {"STRING", "FUNCTION", "CLOSURE", "NATIVE_FUNCTION", "UPVALUE",
               "CLASS", "INSTANCE", "BOUND_METHOD"}

\* Every pointer-carrying member, by its name in object.h.  "constants" is
\* FunctionObject::chunk.constant_pool, "closed" the Value alternative of
\* UpvalueObject::m_data.
Field == {"constants", "function", "upvalues", "closed", "methods", "class_",
          "fields", "receiver", "method"}

FieldsOf(type) ==
  CASE type \in {"STRING", "NATIVE_FUNCTION"} -> {}
    [] type = "FUNCTION"     -> {"constants"}
    [] type = "CLOSURE"      -> {"function", "upvalues"}
    [] type = "UPVALUE"      -> {"closed"}
    [] type = "CLASS"        -> {"methods"}
    [] type = "INSTANCE"     -> {"class_", "fields"}
    [] type = "BOUND_METHOD" -> {"receiver", "method"}

\* The object types a Value on the stack, in a variable or in a property can
\* hold: functions and upvalues are only ever reached through a closure.
ValueTypes == ObjectType \ {"FUNCTION", "UPVALUE"}

Holds(field) ==
  CASE field = "constants"            -> {"STRING", "FUNCTION"}
    [] field = "function"             -> {"FUNCTION"}
    [] field = "upvalues"             -> {"UPVALUE"}
    [] field \in {"closed", "fields"} -> ValueTypes
    [] field \in {"methods", "method"} -> {"CLOSURE"}
    [] field = "class_"               -> {"CLASS"}
    [] field = "receiver"             -> {"INSTANCE"}

\* Heap::blackenObject hands these to markRoot(Object*), which marks and
\* greys its argument whether or not it is already marked ...
TracedPointers(type) ==
  CASE type = "CLOSURE"      -> {"function", "upvalues"}
    [] type = "CLASS"        -> {"methods"}
    [] type = "BOUND_METHOD" -> {"receiver", "method"}
    [] OTHER                 -> {}

\* ... and these to markRoot(Value), which skips what is already marked.
TracedValues(type) ==
  CASE type = "UPVALUE"  -> {"closed"}
    [] type = "FUNCTION" -> {"constants"}
    [] type = "INSTANCE" -> {"fields"}
    [] OTHER             -> {}

Traced(type) == TracedPointers(type) \cup TracedValues(type)
===============================================================================
