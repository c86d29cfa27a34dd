--------------------------------- MODULE Heap ---------------------------------
(***************************************************************************)
(* The mark-and-sweep heap of src/heap.cpp: the intrusive list of objects, *)
(* allocateObject with the collection it may run first, markRoots, the     *)
(* grey-object loop of traceObjects, sweep with its unlinking, and the     *)
(* reset of the destructor.                                                *)
(*                                                                         *)
(* Objects are numbered in allocation order and a freed number is never    *)
(* reused, so a reference to a freed object stays recognisable.  The       *)
(* client (virtual machine and compilers) owns the roots and the pointer   *)
(* fields and stands still while allocateObject runs.  It handles only     *)
(* objects it reaches along the fields the collector traces; the one place *)
(* where the code follows another field is governed by ClassesStayReachable*)
(***************************************************************************)
EXTENDS Integers, FiniteSets, Functions, ObjectModel

CONSTANTS
  STRESS_TEST_GC,       \* build option: collect on every allocation
  InitialThreshold,     \* m_next_collection_threhold of a new heap (1024)
  SizeOf,               \* sizeof of each object type
  RootSource,           \* the root sources in play
  ClassesStayReachable, \* the program itself keeps the class of every
                        \* instance it uses reachable, as a global does
  MaxLive,              \* bound on the live objects of each type
  MaxAllocations        \* bound on the number of objects ever allocated

ASSUME HeapConstants ==
  /\ STRESS_TEST_GC \in BOOLEAN /\ ClassesStayReachable \in BOOLEAN
  /\ InitialThreshold \in Nat
  /\ SizeOf \in [ObjectType -> Nat \ {0}]
  /\ \A t \in ObjectType : SizeOf[t] <= InitialThreshold
  /\ RootSource \subseteq {"m_value_stack", "m_globals", "m_frames",
                           "m_open_upvalues", "m_current_compiler"}
  /\ "m_current_compiler" \in RootSource
  /\ MaxLive \in [ObjectType -> Nat]
  /\ MaxAllocations \in Nat \ {0}

VARIABLES
  phase,     \* where allocateObject or reset stands, "client" when outside them
  request,   \* the allocation in progress: object type and initial fields
  allocated, \* how many objects were ever allocated, hence their last number
  live,      \* the objects not yet deleted
  object,    \* their types and pointer fields
  roots,     \* the objects each root source of markRoots holds
  m_head, next,                 \* the list of all objects, newest first
  marked, m_greyed_objects,     \* mark bits and the grey stack
  currentObject, previousObject, \* the cursors of sweep
  m_number_of_heap_objects_allocated,
  m_bytes_allocated, m_next_collection_threhold

clientVars  == <<object, roots>>
listVars    == <<allocated, live, m_head, next>>
markVars    == <<marked, m_greyed_objects>>
cursorVars  == <<currentObject, previousObject>>
countVars   == <<m_number_of_heap_objects_allocated, m_bytes_allocated>>
vars == <<phase, request, clientVars, listVars, markVars, cursorVars, countVars,
          m_next_collection_threhold>>

Id   == Nat \ {0}
null == 0

Object == [type : ObjectType, refs : [Field -> SUBSET Id]]

NoRefs == [f \in Field |-> {}]
NoRequest == [type |-> "STRING", refs |-> NoRefs]

RootSet == UNION {roots[s] : s \in RootSource}

Pointees(o, fields) == UNION {object[o].refs[f] : f \in fields}
Children(o) == Pointees(o, Traced(object[o].type))
AllPointees(o) == Pointees(o, FieldsOf(object[o].type))

ClosedUnderTracing(T) == RootSet \subseteq T /\ \A o \in T : Children(o) \subseteq T

\* What this collection lets live: everything before its sweep, then what it
\* has passed and what it will find marked.
Survivors ==
  IF phase = "sweep" THEN {o \in live : o > currentObject \/ o \in marked}
  ELSE IF phase \in {"reset", "destroyed"} THEN {} ELSE live

\* What the client can reach along traced fields: the least set of objects that
\* holds the roots and is closed under tracing.
Accessible == LET closed == {T \in SUBSET Survivors : ClosedUnderTracing(T)}
              IN  {o \in Survivors : \A T \in closed : o \in T}

AccessibleOf(types) == {o \in Accessible : object[o].type \in types}

\* VirtualMachine's constructor has run: the heap holds the top-level
\* function, rooted by the top-level compiler for the life of the heap.
TopLevel == 1
Init ==
  /\ phase = "client" /\ request = NoRequest
  /\ allocated = TopLevel /\ live = {TopLevel} /\ m_head = TopLevel
  /\ object = [o \in live |-> [type |-> "FUNCTION", refs |-> NoRefs]]
  /\ next = [o \in live |-> null]
  /\ roots = [s \in RootSource |->
                IF s = "m_current_compiler" THEN {TopLevel} ELSE {}]
  /\ marked = {} /\ m_greyed_objects = {}
  /\ currentObject = null /\ previousObject = null
  /\ m_number_of_heap_objects_allocated = 1
  /\ m_bytes_allocated = SizeOf["FUNCTION"]
  /\ m_next_collection_threhold = InitialThreshold

-------------------------------------------------------------------------------
(***************************************************************************)
(* The client between two allocations.                                     *)
(***************************************************************************)

\* The object types each root source holds.
Roots(s) ==
  CASE s \in {"m_value_stack", "m_globals"} -> ValueTypes
    [] s = "m_frames"                       -> {"CLOSURE"}
    [] s = "m_open_upvalues"                -> {"UPVALUE"}
    [] s = "m_current_compiler"             -> {"FUNCTION"}

\* A push, a variable definition, a call frame: one more root.  Open upvalues
\* and the functions of compilers are rooted when they are constructed, only.
AddRoot(s, o) ==
  /\ phase = "client"
  /\ s \in {"m_value_stack", "m_globals", "m_frames"}
  /\ o \in AccessibleOf(Roots(s)) \ roots[s]
  /\ roots' = [roots EXCEPT ![s] = @ \cup {o}]
  /\ UNCHANGED <<phase, request, object, listVars, markVars, cursorVars,
                 countVars, m_next_collection_threhold>>

\* A pop, an overwritten variable, a return: one root less.
DropRoot(s, o) ==
  /\ phase = "client"
  /\ s \in {"m_value_stack", "m_globals", "m_frames"}
  /\ o \in roots[s]
  /\ roots' = [roots EXCEPT ![s] = @ \ {o}]
  /\ UNCHANGED <<phase, request, object, listVars, markVars, cursorVars,
                 countVars, m_next_collection_threhold>>

\* Compiler::function once the body is compiled: the function goes to the
\* constant pool of the enclosing one, which is the current compiler again.
Innermost(fn, functions) == fn \in functions /\ \A g \in functions : g <= fn
EndCompiler(fn) ==
  LET compilers == roots["m_current_compiler"] IN
  /\ phase = "client"
  /\ Innermost(fn, compilers)
  /\ \E enclosing \in compilers \ {fn} :
       /\ Innermost(enclosing, compilers \ {fn})
       /\ object' = [object EXCEPT ![enclosing].refs["constants"] = @ \cup {fn}]
  /\ roots' = [roots EXCEPT !["m_current_compiler"] = @ \ {fn}]
  /\ UNCHANGED <<phase, request, listVars, markVars, cursorVars, countVars,
                 m_next_collection_threhold>>

AtMostOneOf(S) == {{}} \cup {{x} : x \in S}

\* closeUpvalues, or OP_SET_UPVALUE of a closed one: the upvalue takes a value
\* of its own and is on the list of open upvalues no longer.
CloseUpvalue(u) ==
  /\ phase = "client"
  /\ u \in AccessibleOf({"UPVALUE"})
  /\ \E value \in AtMostOneOf(AccessibleOf(ValueTypes)) :
       object' = [object EXCEPT ![u].refs["closed"] = value]
  /\ roots' = [roots EXCEPT !["m_open_upvalues"] = @ \ {u}]
  /\ UNCHANGED <<phase, request, listVars, markVars, cursorVars, countVars,
                 m_next_collection_threhold>>

\* OP_METHOD and OP_SET_PROPERTY: one entry of the table is added or replaced.
SetEntry(o, table) ==
  /\ phase = "client"
  /\ table \in {"methods", "fields"} \cap FieldsOf(object[o].type)
  /\ o \in Accessible
  /\ \E old \in AtMostOneOf(object[o].refs[table]),
        value \in AtMostOneOf(AccessibleOf(Holds(table))) :
       /\ table = "methods" => value # {}
       /\ object' = [object EXCEPT ![o].refs[table] = (@ \ old) \cup value]
  /\ UNCHANGED <<phase, request, roots, listVars, markVars, cursorVars,
                 countVars, m_next_collection_threhold>>

LiveOf(type) == {o \in live : object[o].type = type}

\* OP_GET_PROPERTY takes the method from the receiver's class.
MethodsOf(instance) ==
  LET classes == IF ClassesStayReachable THEN AccessibleOf({"CLASS"}) ELSE LiveOf("CLASS")
  IN  UNION {object[c].refs["methods"] : c \in object[instance].refs["class_"] \cap classes}

\* The pointer fields the Allocate... functions and OP_CLOSURE fill in.
InitialRefs(type) ==
  CASE type = "CLOSURE" ->
         {[NoRefs EXCEPT !["function"] = {fn}, !["upvalues"] = ups] :
            fn \in AccessibleOf({"FUNCTION"}), ups \in SUBSET AccessibleOf({"UPVALUE"})}
    [] type = "INSTANCE" ->
         {[NoRefs EXCEPT !["class_"] = {c}] : c \in AccessibleOf({"CLASS"})}
    [] type = "BOUND_METHOD" ->
         UNION {{[NoRefs EXCEPT !["receiver"] = {r}, !["method"] = {m}] :
                   m \in MethodsOf(r)} : r \in AccessibleOf({"INSTANCE"})}
    [] OTHER -> {NoRefs}

\* Mutant: the threshold is compared with the number of objects.
AllocateObjectByCount(type) ==
  /\ phase = "client"
  /\ allocated < MaxAllocations /\ Cardinality(LiveOf(type)) < MaxLive[type]
  /\ \E refs \in InitialRefs(type) : request' = [type |-> type, refs |-> refs]
  /\ phase' = IF STRESS_TEST_GC \/ m_number_of_heap_objects_allocated > m_next_collection_threhold
                THEN "markRoots" ELSE "construct"
  /\ UNCHANGED <<clientVars, listVars, markVars, cursorVars, countVars,
                 m_next_collection_threhold>>

\* Heap::allocateObject, up to and including the decision to collect.
AllocateObject(type) ==
  /\ phase = "client"
  /\ allocated < MaxAllocations /\ Cardinality(LiveOf(type)) < MaxLive[type]  \* bounds
  /\ \E refs \in InitialRefs(type) : request' = [type |-> type, refs |-> refs]
  /\ phase' = IF STRESS_TEST_GC \/ m_bytes_allocated > m_next_collection_threhold
                THEN "markRoots" ELSE "construct"
  /\ UNCHANGED <<clientVars, listVars, markVars, cursorVars, countVars,
                 m_next_collection_threhold>>

-------------------------------------------------------------------------------
(***************************************************************************)
(* collectGarbage.                                                         *)
(***************************************************************************)
\* Mutant: markRoots does not walk one of its sources.
MarkRootsBut(source) ==
  LET marking == UNION {roots[s] : s \in RootSource \ {source}} IN
  /\ phase = "markRoots"
  /\ marked' = marked \cup marking
  /\ m_greyed_objects' = m_greyed_objects \cup marking
  /\ phase' = "trace"
  /\ UNCHANGED <<request, clientVars, listVars, cursorVars, countVars,
                 m_next_collection_threhold>>
MarkRootsWithoutUpvalues == MarkRootsBut("m_open_upvalues")
MarkRootsWithoutFrames   == MarkRootsBut("m_frames")

MarkRoots ==
  /\ phase = "markRoots"
  /\ marked' = marked \cup RootSet
  /\ m_greyed_objects' = m_greyed_objects \cup RootSet
  /\ phase' = "trace"
  /\ UNCHANGED <<request, clientVars, listVars, cursorVars, countVars,
                 m_next_collection_threhold>>

\* Mutants: upvalues, or methods, are not traced; the mark is never tested, so
\* a cycle is greyed for ever.
BlackenAs(o, greyed) ==
  /\ phase = "trace" /\ o \in m_greyed_objects
  /\ marked' = marked \cup greyed
  /\ m_greyed_objects' = (m_greyed_objects \ {o}) \cup greyed
  /\ UNCHANGED <<phase, request, clientVars, listVars, cursorVars, countVars,
                 m_next_collection_threhold>>
BlackenNoUpvalues(o) ==
  BlackenAs(o, Pointees(o, TracedPointers(object[o].type) \ {"upvalues"})
                 \cup (Pointees(o, TracedValues(object[o].type)) \ marked))
BlackenNoMethods(o) ==
  BlackenAs(o, Pointees(o, TracedPointers(object[o].type) \ {"methods"})
                 \cup (Pointees(o, TracedValues(object[o].type)) \ marked))
BlackenUntested(o) == BlackenAs(o, Children(o))

\* One round of traceObjects.  The grey stack is a set and any element of it
\* may be next: the result does not depend on the order.
BlackenObject(o) ==
  /\ phase = "trace"
  /\ o \in m_greyed_objects
  /\ LET greyed == Pointees(o, TracedPointers(object[o].type))
                     \cup (Pointees(o, TracedValues(object[o].type)) \ marked)
     IN  /\ marked' = marked \cup greyed
         /\ m_greyed_objects' = (m_greyed_objects \ {o}) \cup greyed
  /\ UNCHANGED <<phase, request, clientVars, listVars, cursorVars, countVars,
                 m_next_collection_threhold>>

BeginSweep ==
  /\ phase = "trace" /\ m_greyed_objects = {}
  /\ phase' = "sweep"
  /\ currentObject' = m_head /\ previousObject' = null
  /\ UNCHANGED <<request, clientVars, listVars, markVars, countVars,
                 m_next_collection_threhold>>

\* Mutant: the mark of a survivor is left for the next collection.
SweepMarkedKeepsMark ==
  /\ phase = "sweep" /\ currentObject # null /\ currentObject \in marked
  /\ previousObject' = currentObject
  /\ currentObject' = next[currentObject]
  /\ UNCHANGED <<phase, request, clientVars, listVars, markVars, countVars,
                 m_next_collection_threhold>>

SweepMarked ==
  /\ phase = "sweep" /\ currentObject # null /\ currentObject \in marked
  /\ marked' = marked \ {currentObject}
  /\ previousObject' = currentObject
  /\ currentObject' = next[currentObject]
  /\ UNCHANGED <<phase, request, clientVars, listVars, m_greyed_objects,
                 countVars, m_next_collection_threhold>>

\* Mutant: the size of the object is not taken off the account.
FreeObjectKeepsBytes(o) ==
  /\ live' = live \ {o}
  /\ object' = Restrict(object, live')
  /\ m_number_of_heap_objects_allocated' = m_number_of_heap_objects_allocated - 1
  /\ m_bytes_allocated' = m_bytes_allocated

\* Heap::freeObject.
FreeObject(o) ==
  /\ live' = live \ {o}
  /\ object' = Restrict(object, live')
  /\ m_number_of_heap_objects_allocated' = m_number_of_heap_objects_allocated - 1
  /\ m_bytes_allocated' = m_bytes_allocated - SizeOf[object[o].type]

\* Mutant: the object before the freed one is not linked to the one after it.
SweepNoUnlink ==
  /\ phase = "sweep" /\ currentObject # null /\ currentObject \notin marked
  /\ currentObject' = next[currentObject]
  /\ next' = Restrict(next, live \ {currentObject})
  /\ m_head' = IF previousObject = null THEN next[currentObject] ELSE m_head
  /\ FreeObject(currentObject)
  /\ UNCHANGED <<phase, request, roots, allocated, markVars, previousObject,
                 m_next_collection_threhold>>

SweepUnmarked ==
  /\ phase = "sweep" /\ currentObject # null /\ currentObject \notin marked
  /\ currentObject' = next[currentObject]
  /\ IF previousObject # null
       THEN /\ next' = Restrict([next EXCEPT ![previousObject] = next[currentObject]],
                                live \ {currentObject})
            /\ m_head' = m_head
       ELSE /\ next' = Restrict(next, live \ {currentObject})
            /\ m_head' = next[currentObject]
  /\ FreeObject(currentObject)
  /\ UNCHANGED <<phase, request, roots, allocated, markVars, previousObject,
                 m_next_collection_threhold>>

HEAP_GROW_FACTOR == 2

EndCollection ==
  /\ phase = "sweep" /\ currentObject = null
  /\ m_next_collection_threhold' = HEAP_GROW_FACTOR * m_next_collection_threhold
  /\ phase' = "construct"
  /\ previousObject' = null   \* a local of sweep, gone with it
  /\ UNCHANGED <<request, clientVars, listVars, markVars, currentObject, countVars>>

-------------------------------------------------------------------------------
\* Where the client puts a new object before it does anything else: strings
\* go to the constant pool of the function being compiled, the rest is rooted.
Destination(type) ==
  CASE type = "FUNCTION"        -> {"m_current_compiler"}
    [] type = "CLOSURE"         -> {"m_value_stack", "m_frames"}
    [] type = "NATIVE_FUNCTION" -> {"m_globals"}
    [] type = "UPVALUE"         -> {"m_open_upvalues"}
    [] OTHER                    -> {"m_value_stack"}

Store(o, type, refs) ==
  LET object1 == [x \in live \cup {o} |->
                    IF x = o THEN [type |-> type, refs |-> refs] ELSE object[x]]
  IN  IF type = "STRING"
        THEN /\ \E fn \in live :
                  /\ Innermost(fn, roots["m_current_compiler"])
                  /\ object' = [object1 EXCEPT ![fn].refs["constants"] = @ \cup {o}]
             /\ roots' = roots
        ELSE /\ object' = object1
             /\ \E s \in Destination(type) \cap RootSource :
                  roots' = [roots EXCEPT ![s] = @ \cup {o}]

\* The rest of allocateObject, insertAtHead, and the caller's first use.
Construct ==
  LET o == allocated + 1 IN
  /\ phase = "construct"
  /\ allocated' = o
  /\ live' = live \cup {o}
  /\ m_head' = o
  /\ next' = [x \in live' |-> IF x = o THEN m_head ELSE next[x]]
  /\ m_number_of_heap_objects_allocated' = m_number_of_heap_objects_allocated + 1
  /\ m_bytes_allocated' = m_bytes_allocated + SizeOf[request.type]
  /\ Store(o, request.type, request.refs)
  /\ phase' = "client" /\ request' = NoRequest
  /\ UNCHANGED <<markVars, cursorVars, m_next_collection_threhold>>

-------------------------------------------------------------------------------
(***************************************************************************)
(* Heap::reset, run by the destructor.  VirtualMachine declares m_heap     *)
(* last, so it is destroyed first, while the roots still hold pointers.    *)
(***************************************************************************)
BeginReset ==
  /\ phase = "client"
  /\ phase' = "reset" /\ currentObject' = m_head
  /\ UNCHANGED <<request, clientVars, listVars, markVars, previousObject,
                 countVars, m_next_collection_threhold>>

ResetObject ==
  /\ phase = "reset" /\ currentObject # null
  /\ currentObject' = next[currentObject]
  /\ FreeObject(currentObject)
  /\ next' = Restrict(next, live')
  /\ UNCHANGED <<phase, request, roots, allocated, m_head, markVars,
                 previousObject, m_next_collection_threhold>>

\* Mutant: the loop stops at the last object instead of after it.
EndResetEarly ==
  /\ phase = "reset" /\ (IF currentObject = null THEN TRUE ELSE next[currentObject] = null)
  /\ phase' = "destroyed" /\ m_head' = null
  /\ UNCHANGED <<request, clientVars, allocated, live, next, markVars, cursorVars,
                 countVars, m_next_collection_threhold>>

EndReset ==
  /\ phase = "reset" /\ currentObject = null
  /\ phase' = "destroyed" /\ m_head' = null
  /\ UNCHANGED <<request, clientVars, allocated, live, next, markVars, cursorVars,
                 countVars, m_next_collection_threhold>>

-------------------------------------------------------------------------------
Client ==
  \/ \E s \in RootSource, o \in live : AddRoot(s, o) \/ DropRoot(s, o)
  \/ \E o \in live : CloseUpvalue(o) \/ SetEntry(o, "methods") \/ SetEntry(o, "fields")
  \/ \E fn \in live : EndCompiler(fn)
  \/ \E type \in ObjectType : AllocateObject(type)
  \/ BeginReset

Collector ==
  \/ MarkRoots
  \/ \E o \in m_greyed_objects : BlackenObject(o)
  \/ BeginSweep \/ SweepMarked \/ SweepUnmarked \/ EndCollection

Next == Client \/ Collector \/ Construct \/ ResetObject \/ EndReset

\* Once entered, allocateObject and reset run to their end on the only thread
\* there is; the client need never call them.
Fairness == WF_vars(Collector \/ Construct \/ ResetObject \/ EndReset)

Spec == Init /\ [][Next]_vars /\ Fairness

-------------------------------------------------------------------------------
(***************************************************************************)
(* Properties.                                                             *)
(***************************************************************************)
TypeOK ==
  /\ phase \in {"client", "markRoots", "trace", "sweep", "construct",
                "reset", "destroyed"}
  /\ request \in Object
  /\ allocated \in Nat
  /\ live \subseteq 1..allocated
  /\ object \in [live -> Object]
  /\ roots \in [RootSource -> SUBSET (1..allocated)]
  /\ m_head \in 0..allocated /\ next \in [live -> 0..allocated]
  /\ marked \subseteq live /\ m_greyed_objects \subseteq marked
  /\ currentObject \in live \cup {null} /\ previousObject \in live \cup {null}
  /\ m_number_of_heap_objects_allocated \in Int
  /\ m_bytes_allocated \in Int
  /\ m_next_collection_threhold \in Nat

\* p is the newest live object older than o, null if there is none.
IsNewestBelow(p, o) ==
  /\ p = null \/ (p \in live /\ p < o)
  /\ \A q \in live : q < o => q <= p

\* The intrusive list threads every live object exactly once, newest first:
\* insertAtHead and the unlinking of sweep lose no object and leave no
\* pointer to a deleted one.  reset leaves m_head behind until it is done.
ListHoldsLive ==
  /\ phase # "reset" => IsNewestBelow(m_head, allocated + 1)
  /\ \A o \in live : IsNewestBelow(next[o], o)

\* Where sweep and reset stand in that list.
CursorsInList ==
  /\ phase # "sweep" => previousObject = null
  /\ phase = "reset" => IsNewestBelow(currentObject, allocated + 1)
  /\ phase = "sweep" =>
       /\ previousObject = null => currentObject = m_head
       /\ previousObject # null => /\ currentObject = next[previousObject]
                                  /\ previousObject > currentObject

RequestRefs == UNION {request.refs[f] : f \in Field}

\* No collection deletes an object the program can still reach along traced
\* fields: the roots, the traced fields of survivors and the arguments of the
\* allocation that ran the collection all lead to survivors, at every step.
NoTracedDangling ==
  phase \notin {"reset", "destroyed"} =>
    /\ ClosedUnderTracing(Survivors)
    /\ RequestRefs \subseteq Survivors

\* The tricolor invariant of traceObjects: a black object has no white child.
Tricolor ==
  phase = "trace" =>
    /\ RootSet \subseteq marked
    /\ \A o \in marked \ m_greyed_objects : Children(o) \subseteq marked

\* No mark and no grey object outlives the collection that made it: a stale
\* mark would keep garbage and, worse, hide an object from markRoot(Value).
MarksClear ==
  /\ phase \notin {"trace", "sweep"} => marked = {}
  /\ phase = "sweep" => \A o \in marked : o <= currentObject
  /\ phase # "trace" => m_greyed_objects = {}

\* The arguments of the allocation in progress stay within reach.
RequestAccessible ==
  RequestRefs \subseteq
    (IF phase \in {"markRoots", "trace", "sweep", "construct"} THEN Accessible ELSE {})

\* Nothing is marked, and nothing survives, that the client cannot reach.
MarksAccessible == /\ phase = "trace" => marked \subseteq Accessible
                   /\ phase = "sweep" => Survivors \subseteq Accessible

\* The inductive invariant behind the theorems of HeapProofs.
Inv == /\ TypeOK /\ ListHoldsLive /\ CursorsInList /\ NoTracedDangling
       /\ Tricolor /\ MarksClear /\ RequestAccessible /\ MarksAccessible

\* A collection deletes all the garbage there is: what it leaves is exactly
\* what the client can reach.
CollectsAllGarbage == [][EndCollection => live = Accessible]_vars

\* The two counters of the heap agree with the objects on its list: what freeObject
\* takes off is what allocateObject has added, by the type the object then has.
BytesOf(type) == SizeOf[type] * Cardinality(LiveOf(type))
BytesLive == BytesOf("STRING") + BytesOf("FUNCTION") + BytesOf("CLOSURE")
               + BytesOf("NATIVE_FUNCTION") + BytesOf("UPVALUE") + BytesOf("CLASS")
               + BytesOf("INSTANCE") + BytesOf("BOUND_METHOD")
Accounting == /\ m_number_of_heap_objects_allocated = Cardinality(live)
              /\ m_bytes_allocated = BytesLive

\* Allocation never outruns the threshold by more than the object that
\* crossed it, although the check comes before the allocation.
HeapBounded ==
  \E t \in ObjectType : m_bytes_allocated <= m_next_collection_threhold + SizeOf[t]

\* The destructor deletes every object, and the counters return to zero.
ResetFreesAll ==
  phase = "destroyed" =>
    live = {} /\ m_number_of_heap_objects_allocated = 0 /\ m_bytes_allocated = 0

\* traceObjects terminates although markRoot(Object*) greys marked objects
\* again, because pointer fields alone form no cycle; so does sweep, and the
\* allocation that started them is served.
AllocationServed == (phase \in {"markRoots", "construct"}) ~> (phase = "client")

\* The heap implements the abstract collector: marking and sweeping, step by
\* step, is one atomic removal of the unreachable objects.
GC == INSTANCE GarbageCollector WITH
        nodes <- Survivors,
        edges <- [o \in Survivors |-> Children(o)],
        roots <- RootSet
ImplementsCollector == GC!Spec

\* No live object the program can reach holds a pointer to a deleted object,
\* in any field: heap.cpp:237 says what is freed is "Not marked as reachable".
NoDangling ==
  phase = "client" => \A o \in Accessible : AllPointees(o) \subseteq live
===============================================================================
