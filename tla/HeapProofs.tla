------------------------------ MODULE HeapProofs ------------------------------
(***************************************************************************)
(* Proofs about Heap, for every value of its constants.                    *)
(***************************************************************************)
EXTENDS Heap, TLAPS

LEMMA AccessibleInSurvivors == Accessible \subseteq Survivors /\ Survivors \subseteq live
  BY DEF Accessible, Survivors

\* What the client reaches is closed under tracing: it stays within reach.
LEMMA AccessibleClosed ==
  ASSUME ClosedUnderTracing(Survivors)
  PROVE  ClosedUnderTracing(Accessible)
<1>1. RootSet \subseteq Accessible
  BY DEF Accessible, ClosedUnderTracing
<1>2. ASSUME NEW o \in Accessible, NEW p \in Children(o)
      PROVE  p \in Accessible
  <2>1. p \in Survivors
    BY AccessibleInSurvivors, <1>2 DEF ClosedUnderTracing
  <2>2. ASSUME NEW T \in SUBSET Survivors, ClosedUnderTracing(T)
        PROVE  p \in T
    <3>1. o \in T
      BY <2>2 DEF Accessible
    <3>2. QED
      BY <2>2, <3>1 DEF ClosedUnderTracing
  <2>3. QED
    BY <2>1, <2>2 DEF Accessible
<1>3. QED
  BY <1>1, <1>2 DEF ClosedUnderTracing

\* A step that shows the client nothing: it keeps the survivors, the roots and
\* what leads from one to the other.
Stutter == /\ Survivors' = Survivors /\ RootSet' = RootSet
           /\ \A o \in Survivors : Children(o)' = Children(o)

\* Such a step keeps what the client can reach.
LEMMA AccessibleStable ==
  ASSUME Survivors' = Survivors, roots' = roots,
         \A o \in Survivors : object'[o] = object[o]
  PROVE  /\ Stutter
         /\ Accessible' = Accessible
         /\ ClosedUnderTracing(Survivors) => ClosedUnderTracing(Survivors)'
<1>1. RootSet' = RootSet
  BY DEF RootSet
<1>2. \A o \in Survivors : Children(o)' = Children(o)
  BY DEF Children, Pointees
<1>3. \A T \in SUBSET Survivors : ClosedUnderTracing(T)' <=> ClosedUnderTracing(T)
  BY <1>1, <1>2 DEF ClosedUnderTracing
<1>4. Accessible' = Accessible
  BY <1>3 DEF Accessible
<1>5. ClosedUnderTracing(Survivors) => ClosedUnderTracing(Survivors)'
  BY <1>1, <1>2 DEF ClosedUnderTracing
<1>6. QED
  BY <1>1, <1>2, <1>4, <1>5 DEF Stutter

-------------------------------------------------------------------------------
LEMMA InitInv == Init => Inv
<1> SUFFICES ASSUME Init PROVE Inv
  OBVIOUS
<1> USE HeapConstants DEF Init, TopLevel, null
<1>1. NoRefs \in [Field -> SUBSET Id] /\ NoRequest \in Object /\ RequestRefs = {}
  BY DEF NoRefs, NoRequest, Object, ObjectType, RequestRefs
<1>2. object \in [live -> Object] /\ object[1].type = "FUNCTION" /\ object[1].refs = NoRefs
  BY <1>1 DEF Object, ObjectType
<1>3. RootSet = {1} /\ Children(1) = {} /\ Survivors = {1}
  <2>1. Children(1) = {}
    BY <1>2 DEF Children, Pointees, Traced, TracedPointers, TracedValues, NoRefs, Field
  <2>2. RootSet = {1}
    BY DEF RootSet
  <2>3. QED
    BY <2>1, <2>2 DEF Survivors
<1>4. TypeOK
  BY <1>1, <1>2 DEF TypeOK, ObjectType
<1>5. ListHoldsLive /\ CursorsInList
  BY DEF ListHoldsLive, CursorsInList, IsNewestBelow
<1>6. NoTracedDangling
  BY <1>1, <1>3 DEF NoTracedDangling, ClosedUnderTracing
<1>7. Tricolor /\ MarksClear /\ RequestAccessible /\ MarksAccessible
  BY <1>1 DEF Tricolor, MarksClear, RequestAccessible, MarksAccessible
<1>8. QED
  BY <1>4, <1>5, <1>6, <1>7 DEF Inv

-------------------------------------------------------------------------------
(***************************************************************************)
(* The client's steps between allocations change only roots and fields.    *)
(***************************************************************************)
LEMMA ClientFacts ==
  ASSUME Inv, phase = "client"
  PROVE  /\ Survivors = live /\ Accessible \subseteq live
         /\ roots \in [RootSource -> SUBSET live]
         /\ \A o \in live : Children(o) \subseteq live
         /\ ClosedUnderTracing(Survivors)
<1>1. Survivors = live /\ Accessible \subseteq live
  BY AccessibleInSurvivors DEF Survivors
<1>2. ClosedUnderTracing(live)
  BY <1>1 DEF Inv, NoTracedDangling
<1>3. roots \in [RootSource -> SUBSET live]
  BY <1>2 DEF Inv, TypeOK, ClosedUnderTracing, RootSet
<1>4. QED
  BY <1>1, <1>2, <1>3 DEF ClosedUnderTracing

\* What all these steps have in common: objects and fields change, and the
\* client spreads only what it can reach.
Mutation ==
  /\ phase = "client" /\ phase' = "client" /\ request' = request
  /\ UNCHANGED <<listVars, markVars, cursorVars, countVars, m_next_collection_threhold>>
  /\ object' \in [live -> Object]
  /\ \A o \in live : Children(o)' \subseteq Children(o) \cup Accessible
  /\ roots' \in [RootSource -> SUBSET Accessible]

LEMMA MutationInv ==
  ASSUME Inv, Mutation
  PROVE  Inv'
<1>0. /\ Accessible \subseteq live
      /\ \A o \in live : Children(o)' \subseteq live
  BY ClientFacts DEF Mutation
<1> USE DEF Inv, Mutation, listVars, markVars, cursorVars, countVars
<1>1. TypeOK'
  BY <1>0 DEF TypeOK
<1>2. ListHoldsLive' /\ CursorsInList'
  BY DEF ListHoldsLive, CursorsInList, IsNewestBelow
<1>3. RequestRefs' = {} /\ Survivors' = live
  BY DEF RequestAccessible, RequestRefs, Survivors
<1>4. NoTracedDangling'
  BY <1>0, <1>3 DEF NoTracedDangling, ClosedUnderTracing, RootSet
<1>5. Tricolor' /\ MarksClear' /\ RequestAccessible' /\ MarksAccessible'
  BY <1>3 DEF Tricolor, MarksClear, RequestAccessible, MarksAccessible
<1>6. QED
  BY <1>1, <1>2, <1>4, <1>5

\* The roots are within reach.
LEMMA RootsAccessible ==
  ASSUME Inv, phase = "client"
  PROVE  roots \in [RootSource -> SUBSET Accessible]
<1>1. RootSet \subseteq Accessible
  BY ClientFacts, AccessibleClosed DEF ClosedUnderTracing
<1>2. QED
  BY <1>1 DEF RootSet, Inv, TypeOK

LEMMA RootChange ==
  ASSUME Inv, NEW s \in RootSource, NEW o \in live, AddRoot(s, o) \/ DropRoot(s, o)
  PROVE  Mutation
<1>1. roots' \in [RootSource -> SUBSET Accessible]
  BY RootsAccessible DEF AddRoot, DropRoot, AccessibleOf
<1>2. \A x \in live : Children(x)' = Children(x)
  BY DEF AddRoot, DropRoot, Children, Pointees
<1>3. QED
  BY <1>1, <1>2 DEF Mutation, AddRoot, DropRoot, Inv, TypeOK

\* Writing a field of one object: its entries are old ones or within reach.
LEMMA FieldWrite ==
  ASSUME Inv, phase = "client", NEW o \in live, NEW f \in Field,
         NEW S \in SUBSET (object[o].refs[f] \cup Accessible),
         object' = [object EXCEPT ![o].refs[f] = S]
  PROVE  /\ object' \in [live -> Object]
         /\ \A x \in live : Children(x)' \subseteq Children(x) \cup Accessible
<1>1. object \in [live -> Object] /\ live \subseteq Id
  BY DEF Inv, TypeOK, Id
<1>2. S \subseteq Id
  BY <1>1, ClientFacts DEF Object
<1>3. /\ object' \in [live -> Object]
      /\ \A x \in live : object'[x].type = object[x].type
      /\ \A x \in live, g \in Field :
           object'[x].refs[g] = IF x = o /\ g = f THEN S ELSE object[x].refs[g]
  BY <1>1, <1>2 DEF Object
<1>4. ASSUME NEW x \in live PROVE Children(x)' \subseteq Children(x) \cup Accessible
  <2>1. Traced(object[x].type) \subseteq Field
    BY DEF Traced, TracedPointers, TracedValues, Field
  <2>2. QED
    BY <1>3, <2>1 DEF Children, Pointees
<1>5. QED
  BY <1>3, <1>4

LEMMA EndCompilerMutates ==
  ASSUME Inv, NEW fn \in live, EndCompiler(fn)
  PROVE  Mutation
<1>1. PICK enclosing \in roots["m_current_compiler"] \ {fn} :
        object' = [object EXCEPT ![enclosing].refs["constants"] = @ \cup {fn}]
  BY DEF EndCompiler
<1>2. phase = "client" /\ "constants" \in Field
  BY DEF EndCompiler, Field
<1>3. "m_current_compiler" \in RootSource /\ fn \in roots["m_current_compiler"]
  BY HeapConstants DEF EndCompiler, Innermost
<1>4. enclosing \in live /\ fn \in Accessible
  BY <1>2, <1>3, ClientFacts, RootsAccessible
<1> PICK S : S = object[enclosing].refs["constants"] \cup {fn}
  OBVIOUS
<1>5. S \in SUBSET (object[enclosing].refs["constants"] \cup Accessible)
  BY <1>4
<1>6. phase = "client" /\ object' = [object EXCEPT ![enclosing].refs["constants"] = S]
  BY <1>1, <1>2
<1>7. /\ object' \in [live -> Object]
      /\ \A x \in live : Children(x)' \subseteq Children(x) \cup Accessible
  <2>1. enclosing \in live
    BY <1>4
  <2>2. QED
    BY <1>2, <2>1, <1>5, <1>6, FieldWrite
<1>8. roots' \in [RootSource -> SUBSET Accessible]
  BY <1>2, <1>3, RootsAccessible DEF EndCompiler
<1>9. QED
  BY <1>7, <1>8 DEF Mutation, EndCompiler

LEMMA CloseUpvalueMutates ==
  ASSUME Inv, NEW u \in live, CloseUpvalue(u)
  PROVE  Mutation
<1>1. phase = "client" /\ "closed" \in Field
  BY DEF CloseUpvalue, Field
<1>2. PICK value \in SUBSET Accessible : object' = [object EXCEPT ![u].refs["closed"] = value]
  BY DEF CloseUpvalue, AtMostOneOf, AccessibleOf
<1>3. value \subseteq object[u].refs["closed"] \cup Accessible
  OBVIOUS
<1>4. /\ object' \in [live -> Object]
      /\ \A x \in live : Children(x)' \subseteq Children(x) \cup Accessible
  BY <1>1, <1>2, <1>3, FieldWrite
<1>5. roots' \in [RootSource -> SUBSET Accessible]
  BY <1>1, RootsAccessible DEF CloseUpvalue
<1>6. QED
  BY <1>4, <1>5 DEF Mutation, CloseUpvalue

LEMMA SetEntryMutates ==
  ASSUME Inv, NEW o \in live, NEW table \in Field, SetEntry(o, table)
  PROVE  Mutation
<1>1. phase = "client"
  BY DEF SetEntry
<1>2. PICK old \in SUBSET object[o].refs[table], value \in SUBSET Accessible :
        object' = [object EXCEPT ![o].refs[table] = (@ \ old) \cup value]
  BY DEF SetEntry, AtMostOneOf, AccessibleOf
<1> PICK S : S = (object[o].refs[table] \ old) \cup value
  OBVIOUS
<1>3. S \subseteq object[o].refs[table] \cup Accessible
  OBVIOUS
<1>4. object' = [object EXCEPT ![o].refs[table] = S]
  BY <1>2
<1>5. /\ object' \in [live -> Object]
      /\ \A x \in live : Children(x)' \subseteq Children(x) \cup Accessible
  BY <1>1, <1>3, <1>4, FieldWrite
<1>6. roots' \in [RootSource -> SUBSET Accessible]
  BY <1>1, RootsAccessible DEF SetEntry
<1>7. QED
  BY <1>5, <1>6 DEF Mutation, SetEntry

-------------------------------------------------------------------------------
(***************************************************************************)
(* allocateObject and the collector.                                       *)
(***************************************************************************)

\* Every argument AllocateObject can pass is within the client's reach.
LEMMA InitialRefsAccessible ==
  ASSUME Inv, phase = "client", ClassesStayReachable,
         NEW type \in ObjectType, NEW refs \in InitialRefs(type)
  PROVE  refs \in [Field -> SUBSET Id] /\ UNION {refs[f] : f \in Field} \subseteq Accessible
<1>1. Accessible \subseteq Id
  <2>1. live \subseteq Id
    BY DEF Inv, TypeOK, Id
  <2>2. QED
    BY <2>1, ClientFacts
<1>2. NoRefs \in [Field -> SUBSET Id] /\ \A f \in Field : NoRefs[f] = {}
  BY DEF NoRefs
<1>3. CASE type = "CLOSURE"
  <2>1. PICK fn \in AccessibleOf({"FUNCTION"}), ups \in SUBSET AccessibleOf({"UPVALUE"}) :
          refs = [NoRefs EXCEPT !["function"] = {fn}, !["upvalues"] = ups]
    BY <1>3 DEF InitialRefs
  <2>2. {fn} \subseteq Accessible /\ ups \subseteq Accessible
    BY DEF AccessibleOf
  <2>3. QED
    BY <1>1, <1>2, <2>1, <2>2
<1>4. CASE type = "INSTANCE"
  <2>1. PICK c \in AccessibleOf({"CLASS"}) : refs = [NoRefs EXCEPT !["class_"] = {c}]
    BY <1>4 DEF InitialRefs
  <2>2. QED
    BY <1>1, <1>2, <2>1 DEF AccessibleOf
<1>5. CASE type = "BOUND_METHOD"
  <2>1. PICK r \in AccessibleOf({"INSTANCE"}) : \E m \in MethodsOf(r) :
          refs = [NoRefs EXCEPT !["receiver"] = {r}, !["method"] = {m}]
    BY <1>5 DEF InitialRefs
  <2> PICK m \in MethodsOf(r) :
          refs = [NoRefs EXCEPT !["receiver"] = {r}, !["method"] = {m}]
    BY <2>1
  <2>2. PICK c \in AccessibleOf({"CLASS"}) : m \in object[c].refs["methods"]
    BY DEF MethodsOf
  <2>3. c \in Accessible /\ object[c].type = "CLASS"
    BY DEF AccessibleOf
  <2>4. m \in Children(c)
    BY <2>2, <2>3 DEF Children, Pointees, Traced, TracedPointers
  <2>5. m \in Accessible
    BY <2>3, <2>4, ClientFacts, AccessibleClosed DEF ClosedUnderTracing
  <2>6. {r} \subseteq Accessible /\ {m} \subseteq Accessible
    BY <2>5 DEF AccessibleOf
  <2>7. QED
    BY <1>1, <1>2, <2>6
<1>6. CASE type \notin {"CLOSURE", "INSTANCE", "BOUND_METHOD"}
  <2>1. refs = NoRefs
    BY <1>6 DEF InitialRefs
  <2>2. QED
    BY <1>2, <2>1
<1>7. QED
  BY <1>3, <1>4, <1>5, <1>6

LEMMA AllocateObjectInv ==
  ASSUME Inv, ClassesStayReachable, NEW type \in ObjectType, AllocateObject(type)
  PROVE  Inv' /\ Stutter
<1> USE DEF Inv, clientVars, listVars, markVars, cursorVars, countVars
<1>1. phase = "client" /\ phase' \in {"markRoots", "construct"}
  BY DEF AllocateObject
<1>2. PICK refs \in InitialRefs(type) : request' = [type |-> type, refs |-> refs]
  BY DEF AllocateObject
<1>3. request' \in Object /\ RequestRefs' \subseteq Accessible
  BY <1>1, <1>2, InitialRefsAccessible DEF Object, RequestRefs
<1>4. Survivors' = Survivors
  BY <1>1 DEF AllocateObject, Survivors
<1>5. Stutter /\ Accessible' = Accessible /\ ClosedUnderTracing(Survivors)'
  BY <1>1, <1>4, AccessibleStable, ClientFacts DEF AllocateObject
<1>6. TypeOK'
  BY <1>1, <1>3 DEF TypeOK, AllocateObject
<1>7. ListHoldsLive' /\ CursorsInList'
  BY <1>1 DEF ListHoldsLive, CursorsInList, IsNewestBelow, AllocateObject
<1>8. NoTracedDangling' /\ RequestAccessible'
  BY <1>1, <1>3, <1>4, <1>5, AccessibleInSurvivors DEF NoTracedDangling, RequestAccessible
<1>9. Tricolor' /\ MarksClear' /\ MarksAccessible'
  BY <1>1 DEF Tricolor, MarksClear, MarksAccessible, AllocateObject
<1>10. QED
  BY <1>5, <1>6, <1>7, <1>8, <1>9

LEMMA MarkRootsInv == ASSUME Inv, MarkRoots PROVE Inv' /\ Stutter
<1> USE DEF Inv, MarkRoots, clientVars, listVars, markVars, cursorVars, countVars
<1>1. Survivors' = Survivors /\ Survivors = live
  BY DEF Survivors
<1>2. /\ Stutter /\ Accessible' = Accessible /\ RootSet' = RootSet
      /\ ClosedUnderTracing(Survivors)'
  BY <1>1, AccessibleStable DEF NoTracedDangling, Stutter
<1>3. RootSet \subseteq Accessible /\ Accessible \subseteq live
  BY <1>1, AccessibleInSurvivors, AccessibleClosed DEF NoTracedDangling, ClosedUnderTracing
<1>4. marked' = RootSet /\ m_greyed_objects' = RootSet
  BY DEF MarksClear
<1>5. TypeOK'
  BY <1>3, <1>4 DEF TypeOK
<1>6. ListHoldsLive' /\ CursorsInList'
  BY DEF ListHoldsLive, CursorsInList, IsNewestBelow
<1>7. NoTracedDangling' /\ RequestAccessible'
  BY <1>1, <1>2 DEF NoTracedDangling, RequestAccessible, RequestRefs
<1>8. Tricolor' /\ MarksClear' /\ MarksAccessible'
  BY <1>2, <1>3, <1>4 DEF Tricolor, MarksClear, MarksAccessible
<1>9. QED
  BY <1>2, <1>5, <1>6, <1>7, <1>8

LEMMA BlackenObjectInv ==
  ASSUME Inv, NEW o \in m_greyed_objects, BlackenObject(o) PROVE Inv' /\ Stutter
<1> USE DEF Inv, clientVars, listVars, markVars, cursorVars, countVars
<1> DEFINE greyed == Pointees(o, TracedPointers(object[o].type))
                       \cup (Pointees(o, TracedValues(object[o].type)) \ marked)
<1>1. /\ phase = "trace" /\ phase' = "trace"
      /\ marked' = marked \cup greyed
      /\ m_greyed_objects' = (m_greyed_objects \ {o}) \cup greyed
      /\ UNCHANGED <<request, clientVars, listVars, cursorVars, countVars,
                     m_next_collection_threhold>>
  BY DEF BlackenObject
<1>2. greyed \subseteq Children(o) /\ Children(o) \subseteq marked'
  BY <1>1 DEF Children, Pointees, Traced
<1> HIDE DEF greyed
<1>3. Survivors' = Survivors /\ Survivors = live
  BY <1>1 DEF Survivors
<1>4. /\ Stutter /\ Accessible' = Accessible /\ RootSet' = RootSet
      /\ ClosedUnderTracing(Survivors)'
      /\ \A x \in live : Children(x)' = Children(x)
  BY <1>1, <1>3, AccessibleStable DEF NoTracedDangling, Stutter
<1>5. o \in Accessible /\ Children(o) \subseteq Accessible /\ Accessible \subseteq live
  BY <1>1, <1>3, AccessibleInSurvivors, AccessibleClosed
     DEF TypeOK, MarksAccessible, NoTracedDangling, ClosedUnderTracing
<1>6. TypeOK'
  BY <1>1, <1>2, <1>5 DEF TypeOK
<1>7. ListHoldsLive' /\ CursorsInList'
  BY <1>1 DEF ListHoldsLive, CursorsInList, IsNewestBelow
<1>8. NoTracedDangling' /\ RequestAccessible'
  BY <1>1, <1>3, <1>4 DEF NoTracedDangling, RequestAccessible, RequestRefs
<1>9. MarksClear' /\ MarksAccessible'
  BY <1>1, <1>2, <1>4, <1>5 DEF MarksClear, MarksAccessible
<1>10. Tricolor'
  <2>1. RootSet' \subseteq marked'
    BY <1>1, <1>4 DEF Tricolor
  <2>2. ASSUME NEW x \in marked' \ m_greyed_objects' PROVE Children(x)' \subseteq marked'
    <3>1. x \in live /\ x \in marked /\ (x = o \/ x \notin m_greyed_objects)
      BY <1>1, <2>2 DEF TypeOK
    <3>2. QED
      BY <1>1, <1>2, <1>4, <3>1 DEF Tricolor
  <2>3. QED
    BY <2>1, <2>2 DEF Tricolor
<1>11. QED
  BY <1>4, <1>6, <1>7, <1>8, <1>9, <1>10

LEMMA Numbers ==
  ASSUME Inv
  PROVE  /\ allocated \in Nat /\ m_head \in Nat /\ next \in [live -> Nat]
         /\ currentObject \in Nat /\ previousObject \in Nat
         /\ \A o \in live : o \in Nat /\ o > 0 /\ o < allocated + 1
  BY DEF Inv, TypeOK, null

LEMMA BeginSweepInv == ASSUME Inv, BeginSweep PROVE Inv'
<1> USE DEF BeginSweep, clientVars, listVars, markVars, countVars
<1>1. /\ phase = "trace" /\ currentObject' = m_head
      /\ IsNewestBelow(m_head, allocated + 1)
  BY DEF Inv, ListHoldsLive
<1>2. Survivors = live /\ Survivors' = marked
  <2>1. \A o \in live : ~(o > m_head)
    BY <1>1, Numbers DEF IsNewestBelow
  <2>2. marked \subseteq live
    BY DEF Inv, TypeOK
  <2>3. QED
    BY <1>1, <2>1, <2>2 DEF Survivors
<1>3. ClosedUnderTracing(marked) /\ ClosedUnderTracing(marked)'
  BY DEF Inv, Tricolor, ClosedUnderTracing, RootSet, Children, Pointees
<1>4. Accessible = marked
  BY <1>1, <1>2, <1>3 DEF Accessible, Inv, MarksAccessible, TypeOK
<1>5. Accessible' = marked
  <2>1. ASSUME NEW T \in SUBSET marked, ClosedUnderTracing(T)', NEW o \in marked
        PROVE  o \in T
    <3>1. ClosedUnderTracing(T)
      BY <2>1 DEF ClosedUnderTracing, RootSet, Children, Pointees
    <3>2. T \in SUBSET Survivors /\ o \in Accessible
      BY <1>2, <1>4 DEF Inv, TypeOK
    <3>3. QED
      BY <3>1, <3>2 DEF Accessible
  <2>2. QED
    BY <1>2, <2>1 DEF Accessible
<1>6. TypeOK'
  BY <1>1 DEF Inv, TypeOK, IsNewestBelow
<1>7. ListHoldsLive' /\ CursorsInList'
  BY <1>1 DEF Inv, ListHoldsLive, CursorsInList, IsNewestBelow
<1>8. NoTracedDangling' /\ RequestAccessible'
  BY <1>2, <1>3, <1>4, <1>5 DEF Inv, NoTracedDangling, RequestAccessible, RequestRefs
<1>9. MarksClear'
  <2>1. \A o \in marked : o <= m_head
    BY <1>1, Numbers DEF IsNewestBelow, Inv, TypeOK
  <2>2. QED
    BY <2>1 DEF Inv, MarksClear
<1>10. Tricolor' /\ MarksAccessible'
  BY <1>2, <1>5 DEF Tricolor, MarksAccessible
<1>11. QED
  BY <1>6, <1>7, <1>8, <1>9, <1>10 DEF Inv

LEMMA SweepMarkedInv == ASSUME Inv, SweepMarked PROVE Inv' /\ Stutter
<1> USE DEF SweepMarked, clientVars, listVars, countVars, null
<1>1. /\ phase = "sweep" /\ phase' = "sweep"
      /\ currentObject \in live /\ currentObject' = next[currentObject]
      /\ IsNewestBelow(next[currentObject], currentObject)
  BY DEF Inv, TypeOK, ListHoldsLive
<1>2. Survivors' = Survivors
  <2>1. \A o \in live : o > currentObject' <=> (o > currentObject \/ o = currentObject)
    BY <1>1, Numbers DEF IsNewestBelow
  <2>2. QED
    BY <1>1, <2>1 DEF Survivors
<1>3. Stutter /\ Accessible' = Accessible /\ ClosedUnderTracing(Survivors)'
  BY <1>1, <1>2, AccessibleStable DEF Inv, NoTracedDangling
<1>4. TypeOK'
  <2>1. m_greyed_objects = {}
    BY <1>1 DEF Inv, MarksClear
  <2>2. QED
    BY <1>1, <2>1 DEF Inv, TypeOK, IsNewestBelow
<1>5. ListHoldsLive' /\ CursorsInList'
  <2>1. ListHoldsLive'
    BY <1>1 DEF Inv, ListHoldsLive, IsNewestBelow
  <2>2. currentObject > currentObject'
    BY <1>1, Numbers DEF IsNewestBelow
  <2>3. CursorsInList'
    BY <1>1, <2>2 DEF CursorsInList
  <2>4. QED
    BY <2>1, <2>3
<1>6. NoTracedDangling' /\ RequestAccessible'
  BY <1>1, <1>2, <1>3 DEF Inv, NoTracedDangling, RequestAccessible, RequestRefs
<1>7. MarksClear'
  <2>1. \A o \in live : o <= currentObject /\ o # currentObject => o <= currentObject'
    BY <1>1, Numbers DEF IsNewestBelow
  <2>2. \A o \in marked' : o <= currentObject'
    BY <1>1, <2>1 DEF Inv, MarksClear, TypeOK
  <2>3. QED
    BY <1>1, <2>2 DEF Inv, MarksClear
<1>8. Tricolor' /\ MarksAccessible'
  BY <1>1, <1>2, <1>3 DEF Inv, Tricolor, MarksAccessible
<1>9. QED
  BY <1>3, <1>4, <1>5, <1>6, <1>7, <1>8 DEF Inv

\* What SweepUnmarked does, the list apart.
LEMMA SweepUnmarkedFacts ==
  ASSUME Inv, SweepUnmarked
  PROVE  /\ phase = "sweep" /\ phase' = "sweep"
         /\ currentObject \in live /\ currentObject \notin marked
         /\ currentObject' = next[currentObject]
         /\ live' = live \ {currentObject}
         /\ IsNewestBelow(next[currentObject], currentObject)
         /\ object' = [o \in live' |-> object[o]]
         /\ UNCHANGED <<request, roots, allocated, marked, m_greyed_objects,
                        previousObject, m_next_collection_threhold>>
  BY DEF Inv, TypeOK, ListHoldsLive, SweepUnmarked, FreeObject, Restrict, markVars, null

\* Unlinking the object under the cursor leaves a list of the others.
LEMMA Unlink ==
  ASSUME Inv, SweepUnmarked
  PROVE  ListHoldsLive' /\ CursorsInList'
<1> USE DEF null
<1>1. /\ phase = "sweep" /\ phase' = "sweep" /\ allocated' = allocated
      /\ currentObject \in live /\ currentObject' = next[currentObject]
      /\ live' = live \ {currentObject} /\ previousObject' = previousObject
      /\ IsNewestBelow(next[currentObject], currentObject)
  BY SweepUnmarkedFacts
<1>2. \A o \in live : IsNewestBelow(next[o], o)
  BY DEF Inv, ListHoldsLive
<1>3. IsNewestBelow(m_head, allocated + 1)
  BY <1>1 DEF Inv, ListHoldsLive
<1>4. CASE previousObject = null
  <2>1. currentObject = m_head /\ m_head' = next[currentObject]
    BY <1>1, <1>4 DEF Inv, CursorsInList, SweepUnmarked
  <2>2. \A o \in live' : next'[o] = next[o]
    BY <1>1, <1>4 DEF SweepUnmarked, Restrict
  <2>3. \A o \in live' : o < currentObject
    BY <1>1, <1>3, <2>1, Numbers DEF IsNewestBelow
  <2>4. IsNewestBelow(m_head, allocated + 1)'
    BY <1>1, <2>1, <2>3, Numbers DEF IsNewestBelow
  <2>5. ASSUME NEW o \in live' PROVE IsNewestBelow(next[o], o)'
    BY <1>1, <1>2, <2>2, <2>3, Numbers DEF IsNewestBelow
  <2>6. QED
    BY <1>1, <1>4, <2>1, <2>4, <2>5 DEF ListHoldsLive, CursorsInList
<1>5. CASE previousObject # null
  <2>1. /\ previousObject \in live' /\ currentObject = next[previousObject]
        /\ previousObject > currentObject /\ m_head' = m_head
    BY <1>1, <1>5, Numbers DEF Inv, CursorsInList, SweepUnmarked, TypeOK
  <2>2. \A o \in live' : next'[o] = IF o = previousObject THEN next[currentObject] ELSE next[o]
    BY <1>1, <1>5, <2>1, Numbers DEF SweepUnmarked, Restrict
  <2>3. IsNewestBelow(m_head, allocated + 1)'
    <3>1. m_head # currentObject
      BY <1>1, <1>3, <2>1, Numbers DEF IsNewestBelow
    <3>2. QED
      BY <1>1, <1>3, <2>1, <3>1 DEF IsNewestBelow
  <2>4. ASSUME NEW o \in live' PROVE IsNewestBelow(next[o], o)'
    <3>1. CASE o = previousObject
      BY <1>1, <1>2, <2>1, <2>2, <3>1, Numbers DEF IsNewestBelow
    <3>2. CASE o # previousObject
      <4>1. next'[o] = next[o] /\ IsNewestBelow(next[o], o)
        BY <1>1, <1>2, <2>2, <3>2
      <4>2. next[o] # currentObject
        BY <1>1, <1>2, <2>1, <3>2, <4>1, Numbers DEF IsNewestBelow
      <4>3. QED
        BY <1>1, <4>1, <4>2 DEF IsNewestBelow
    <3>3. QED
      BY <3>1, <3>2
  <2>5. next[currentObject] = next'[previousObject] /\ previousObject > next[currentObject]
    BY <1>1, <2>1, <2>2, Numbers DEF IsNewestBelow
  <2>6. QED
    BY <1>1, <1>5, <2>3, <2>4, <2>5 DEF ListHoldsLive, CursorsInList
<1>6. QED
  BY <1>4, <1>5

LEMMA SweepUnmarkedInv == ASSUME Inv, SweepUnmarked PROVE Inv' /\ Stutter
<1> USE DEF null
<1>1. /\ phase = "sweep" /\ phase' = "sweep"
      /\ currentObject \in live /\ currentObject \notin marked
      /\ currentObject' = next[currentObject]
      /\ live' = live \ {currentObject}
      /\ IsNewestBelow(next[currentObject], currentObject)
      /\ object' = [o \in live' |-> object[o]]
      /\ UNCHANGED <<request, roots, allocated, marked, m_greyed_objects,
                     previousObject, m_next_collection_threhold>>
  BY SweepUnmarkedFacts
<1>2. Survivors' = Survivors
  <2>1. \A o \in live' : o > currentObject' <=> o > currentObject
    BY <1>1, Numbers DEF IsNewestBelow
  <2>2. currentObject \notin Survivors
    BY <1>1, Numbers DEF Survivors
  <2>3. QED
    BY <1>1, <2>1, <2>2 DEF Survivors
<1>3. Stutter /\ Accessible' = Accessible /\ ClosedUnderTracing(Survivors)'
  <2>1. \A o \in Survivors : object'[o] = object[o]
    BY <1>1, <1>2, AccessibleInSurvivors DEF Survivors
  <2>2. QED
    BY <1>1, <1>2, <2>1, AccessibleStable DEF Inv, NoTracedDangling
<1>4. TypeOK'
  <2>1. /\ object' \in [live' -> Object]
        /\ m_bytes_allocated' \in Int /\ m_number_of_heap_objects_allocated' \in Int
    <3>1. object' \in [live' -> Object]
      BY <1>1 DEF Inv, TypeOK
    <3>2. SizeOf[object[currentObject].type] \in Int
      BY <1>1, HeapConstants DEF Inv, TypeOK, Object
    <3>3. /\ m_bytes_allocated' = m_bytes_allocated - SizeOf[object[currentObject].type]
          /\ m_number_of_heap_objects_allocated' = m_number_of_heap_objects_allocated - 1
      BY DEF SweepUnmarked, FreeObject
    <3>4. m_bytes_allocated \in Int /\ m_number_of_heap_objects_allocated \in Int
      BY DEF Inv, TypeOK
    <3>5. QED
      BY <3>1, <3>2, <3>3, <3>4
  <2>2. m_head' \in 0..allocated /\ next' \in [live' -> 0..allocated]
    BY <1>1 DEF Inv, TypeOK, SweepUnmarked, Restrict
  <2>3. currentObject' \in live' \cup {null}
    BY <1>1, Numbers DEF IsNewestBelow
  <2>4. previousObject \in live' \cup {null}
    BY <1>1, Numbers DEF Inv, CursorsInList, TypeOK
  <2>5. QED
    BY <1>1, <2>1, <2>2, <2>3, <2>4 DEF Inv, TypeOK
<1>5. NoTracedDangling' /\ RequestAccessible'
  BY <1>1, <1>2, <1>3 DEF Inv, NoTracedDangling, RequestAccessible, RequestRefs
<1>6. MarksClear'
  <2>1. \A o \in live : o <= currentObject /\ o # currentObject => o <= currentObject'
    BY <1>1, Numbers DEF IsNewestBelow
  <2>2. \A o \in marked : o <= currentObject'
    BY <1>1, <2>1 DEF Inv, MarksClear, TypeOK
  <2>3. QED
    BY <1>1, <2>2 DEF Inv, MarksClear
<1>7. Tricolor' /\ MarksAccessible'
  BY <1>1, <1>2, <1>3 DEF Inv, Tricolor, MarksAccessible
<1>8. QED
  BY <1>3, <1>4, <1>5, <1>6, <1>7, Unlink DEF Inv

LEMMA EndCollectionInv == ASSUME Inv, EndCollection PROVE Inv' /\ Stutter
<1> USE DEF Inv, EndCollection, clientVars, listVars, markVars, countVars, null
<1>1. Survivors = live /\ Survivors' = live
  BY Numbers DEF Survivors
<1>2. Stutter /\ Accessible' = Accessible /\ ClosedUnderTracing(Survivors)'
  BY <1>1, AccessibleStable DEF NoTracedDangling
<1>3. TypeOK'
  BY DEF TypeOK, HEAP_GROW_FACTOR
<1>4. ListHoldsLive' /\ CursorsInList'
  BY DEF ListHoldsLive, CursorsInList, IsNewestBelow
<1>5. NoTracedDangling' /\ RequestAccessible'
  BY <1>1, <1>2 DEF NoTracedDangling, RequestAccessible, RequestRefs
<1>6. Tricolor' /\ MarksClear' /\ MarksAccessible'
  BY Numbers DEF Tricolor, MarksClear, MarksAccessible, TypeOK
<1>7. QED
  BY <1>2, <1>3, <1>4, <1>5, <1>6

\* What Construct makes of the objects: the new one, the old ones as they were
\* but for a string that joins a constant pool.
LEMMA ConstructFacts ==
  ASSUME Inv, Construct
  PROVE  LET o == allocated + 1 IN
         /\ phase = "construct" /\ phase' = "client"
         /\ live' = live \cup {o} /\ allocated' = o /\ o \notin live
         /\ object' \in [live' -> Object]
         /\ object'[o].refs = request.refs
         /\ \A x \in live : /\ object'[x].type = object[x].type
                            /\ \A f \in Field : object'[x].refs[f] \subseteq
                                                  object[x].refs[f] \cup {o}
         /\ roots' \in [RootSource -> SUBSET live']
         /\ \A s \in RootSource : roots'[s] \subseteq roots[s] \cup {o}
<1> DEFINE o == allocated + 1
<1> DEFINE object1 == [x \in live \cup {o} |-> IF x = o THEN request ELSE object[x]]
<1>1. /\ phase = "construct" /\ phase' = "client"
      /\ live' = live \cup {o} /\ allocated' = o /\ o \notin live /\ o \in Id
      /\ live \subseteq Id
  BY Numbers DEF Construct, Id
<1>2. request = [type |-> request.type, refs |-> request.refs] /\ request \in Object
  BY DEF Inv, TypeOK, Object
<1>3. object1 \in [live' -> Object]
  BY <1>1, <1>2 DEF Inv, TypeOK
<1>4. roots \in [RootSource -> SUBSET live]
  BY <1>1 DEF Inv, TypeOK, NoTracedDangling, ClosedUnderTracing, RootSet, Survivors
<1>5. CASE request.type = "STRING"
  <2> DEFINE stored == [x \in live \cup {o} |->
                          IF x = o THEN [type |-> request.type, refs |-> request.refs]
                          ELSE object[x]]
  <2>a. PICK fn \in live : object' = [stored EXCEPT ![fn].refs["constants"] = @ \cup {o}]
    BY <1>5 DEF Construct, Store
  <2>b. stored = object1
    BY <1>2
  <2>1. object' = [object1 EXCEPT ![fn].refs["constants"] = @ \cup {o}]
    BY <2>a, <2>b
  <2>2. roots' = roots
    BY <1>5 DEF Construct, Store
  <2>3. /\ object' \in [live' -> Object]
        /\ \A x \in live' : /\ object'[x].type = object1[x].type
                            /\ x # fn => object'[x].refs = object1[x].refs
                            /\ \A f \in Field : object'[x].refs[f] \subseteq
                                                  object1[x].refs[f] \cup {o}
    BY <1>1, <1>3, <2>1 DEF Object, Field
  <2>4. QED
    BY <1>1, <1>4, <2>1, <2>2, <2>3
<1>6. CASE request.type # "STRING"
  <2>1. object' = object1
    BY <1>2, <1>6 DEF Construct, Store
  <2>2. PICK s \in RootSource : roots' = [roots EXCEPT ![s] = @ \cup {o}]
    BY <1>6 DEF Construct, Store
  <2>3. QED
    BY <1>1, <1>3, <1>4, <2>1, <2>2
<1>7. QED
  BY <1>5, <1>6

LEMMA ConstructInv == ASSUME Inv, Construct PROVE Inv'
<1>0. PICK o : o = allocated + 1
  OBVIOUS
<1>1. /\ phase = "construct" /\ phase' = "client"
      /\ live' = live \cup {o} /\ allocated' = o /\ o \notin live
      /\ object' \in [live' -> Object]
      /\ object'[o].refs = request.refs
      /\ \A x \in live : /\ object'[x].type = object[x].type
                         /\ \A f \in Field : object'[x].refs[f] \subseteq
                                               object[x].refs[f] \cup {o}
      /\ roots' \in [RootSource -> SUBSET live']
  BY <1>0, ConstructFacts
<1>2. RequestRefs \subseteq live
  BY <1>1, AccessibleInSurvivors DEF Inv, RequestAccessible
<1>3. \A type \in ObjectType : Traced(type) \subseteq Field
  BY DEF Traced, TracedPointers, TracedValues, Field
<1>4. \A x \in live' : Children(x)' \subseteq live'
  <2>1. Children(o)' \subseteq live'
    <3>1. Traced(object'[o].type) \subseteq Field
      BY <1>1, <1>3 DEF Object
    <3>2. QED
      BY <1>1, <1>2, <3>1 DEF Children, Pointees, RequestRefs
  <2>2. ASSUME NEW x \in live PROVE Children(x)' \subseteq live'
    <3>1. Children(x) \subseteq live /\ Traced(object[x].type) \subseteq Field
      BY <1>1, <1>3 DEF Inv, TypeOK, NoTracedDangling, ClosedUnderTracing, Survivors, Object
    <3>2. Children(x)' \subseteq Children(x) \cup {o}
      BY <1>1, <3>1 DEF Children, Pointees
    <3>3. QED
      BY <1>1, <3>1, <3>2
  <2>3. QED
    BY <1>1, <2>1, <2>2
<1>5. TypeOK'
  <2>1. NoRequest \in Object
    BY DEF NoRequest, NoRefs, Object, ObjectType
  <2>2. /\ m_bytes_allocated' \in Int /\ m_number_of_heap_objects_allocated' \in Int
        /\ request' \in Object
    <3>1. SizeOf[request.type] \in Int
      BY HeapConstants DEF Inv, TypeOK, Object
    <3>2. QED
      BY <2>1, <3>1 DEF Inv, TypeOK, Construct
  <2>3. /\ m_head' \in 0..allocated' /\ next' \in [live' -> 0..allocated']
        /\ live' \subseteq 1..allocated'
        /\ roots' \in [RootSource -> SUBSET (1..allocated')]
    <3>1. m_head' = o /\ next' = [x \in live' |-> IF x = o THEN m_head ELSE next[x]]
      BY <1>0, <1>1 DEF Construct
    <3>2. live' \subseteq 1..allocated'
      BY <1>0, <1>1, Numbers
    <3>3. o \in 0..o /\ m_head \in 0..o /\ \A x \in live : next[x] \in 0..o
      BY <1>0, Numbers DEF Inv, TypeOK
    <3>4. QED
      BY <1>1, <3>1, <3>2, <3>3
  <2>4. QED
    BY <1>1, <2>2, <2>3 DEF Inv, TypeOK, Construct, markVars, cursorVars
<1>6. ListHoldsLive' /\ CursorsInList'
  <2>1. \A x \in live : x < o
    BY <1>0, Numbers
  <2>2. /\ m_head' = o /\ next'[o] = m_head
        /\ \A x \in live : next'[x] = next[x]
    BY <1>0, <1>1 DEF Construct
  <2>3. IsNewestBelow(m_head, o) /\ \A x \in live : IsNewestBelow(next[x], x)
    BY <1>0, <1>1 DEF Inv, ListHoldsLive
  <2>4. o \in Nat /\ o < o + 1
    BY <1>0, Numbers
  <2>5. IsNewestBelow(m_head, allocated + 1)'
    BY <1>1, <2>1, <2>2, <2>4, Numbers DEF IsNewestBelow
  <2>6. IsNewestBelow(next[o], o)'
    BY <1>1, <2>1, <2>2, <2>3, <2>4, Numbers DEF IsNewestBelow, null
  <2>7. ASSUME NEW x \in live PROVE IsNewestBelow(next[x], x)'
    BY <1>1, <2>1, <2>2, <2>3, <2>4, Numbers DEF IsNewestBelow
  <2>8. ListHoldsLive'
    BY <1>1, <2>5, <2>6, <2>7 DEF ListHoldsLive
  <2>9. CursorsInList'
    BY <1>1 DEF Inv, CursorsInList, Construct, cursorVars
  <2>10. QED
    BY <2>8, <2>9
<1>7. NoTracedDangling' /\ RequestAccessible'
  <2>1. Survivors' = live' /\ RootSet' \subseteq live'
    BY <1>1 DEF Survivors, RootSet
  <2>2. RequestRefs' = {}
    BY DEF Construct, RequestRefs, NoRequest, NoRefs
  <2>3. QED
    BY <1>4, <2>1, <2>2 DEF NoTracedDangling, RequestAccessible, ClosedUnderTracing
<1>8. Tricolor' /\ MarksClear' /\ MarksAccessible'
  BY <1>1 DEF Inv, Tricolor, MarksClear, MarksAccessible, Construct, markVars
<1>9. QED
  BY <1>5, <1>6, <1>7, <1>8 DEF Inv

-------------------------------------------------------------------------------
(***************************************************************************)
(* Heap::reset.                                                            *)
(***************************************************************************)
LEMMA BeginResetInv == ASSUME Inv, BeginReset PROVE Inv'
<1> USE DEF BeginReset, clientVars, listVars, markVars, countVars
<1>1. IsNewestBelow(m_head, allocated + 1)
  BY DEF Inv, ListHoldsLive
<1>2. TypeOK'
  BY <1>1 DEF Inv, TypeOK, IsNewestBelow
<1>3. ListHoldsLive' /\ CursorsInList'
  BY <1>1 DEF Inv, ListHoldsLive, CursorsInList, IsNewestBelow
<1>4. NoTracedDangling' /\ RequestAccessible' /\ MarksClear' /\ Tricolor' /\ MarksAccessible'
  BY DEF Inv, NoTracedDangling, RequestAccessible, RequestRefs, MarksClear, Tricolor,
         MarksAccessible
<1>5. QED
  BY <1>2, <1>3, <1>4 DEF Inv

LEMMA ResetObjectInv == ASSUME Inv, ResetObject PROVE Inv' /\ Stutter
<1> USE DEF null
<1>1. /\ phase = "reset" /\ phase' = "reset" /\ allocated' = allocated
      /\ currentObject \in live /\ currentObject' = next[currentObject]
      /\ live' = live \ {currentObject}
      /\ object' = [o \in live' |-> object[o]] /\ next' = [o \in live' |-> next[o]]
      /\ UNCHANGED <<request, roots, m_head, marked, m_greyed_objects, previousObject,
                     m_next_collection_threhold>>
  BY DEF Inv, TypeOK, ResetObject, FreeObject, Restrict, markVars
<1>2. /\ IsNewestBelow(currentObject, allocated + 1)
      /\ \A o \in live : IsNewestBelow(next[o], o)
  BY <1>1 DEF Inv, CursorsInList, ListHoldsLive
<1>3. \A o \in live' : o < currentObject
  BY <1>1, <1>2, Numbers DEF IsNewestBelow
<1>4. ListHoldsLive' /\ CursorsInList'
  <2>1. IsNewestBelow(currentObject, allocated + 1)'
    BY <1>1, <1>2, <1>3, Numbers DEF IsNewestBelow
  <2>2. ASSUME NEW o \in live' PROVE IsNewestBelow(next[o], o)'
    BY <1>1, <1>2, <1>3, Numbers DEF IsNewestBelow
  <2>3. previousObject' = null
    BY <1>1 DEF Inv, CursorsInList
  <2>4. QED
    BY <1>1, <2>1, <2>2, <2>3 DEF ListHoldsLive, CursorsInList
<1>5. TypeOK'
  <2>1. SizeOf[object[currentObject].type] \in Int
    BY <1>1, HeapConstants DEF Inv, TypeOK, Object
  <2>2. m_bytes_allocated' \in Int /\ m_number_of_heap_objects_allocated' \in Int
    BY <2>1 DEF Inv, TypeOK, ResetObject, FreeObject
  <2>3. currentObject' \in live' \cup {null}
    BY <1>1, <1>2, Numbers DEF IsNewestBelow
  <2>4. marked = {} /\ previousObject = null
    BY <1>1 DEF Inv, MarksClear, CursorsInList
  <2>5. QED
    BY <1>1, <2>2, <2>3, <2>4 DEF Inv, TypeOK
<1>6. NoTracedDangling' /\ RequestAccessible' /\ MarksClear' /\ Tricolor' /\ MarksAccessible'
  BY <1>1 DEF Inv, NoTracedDangling, RequestAccessible, RequestRefs, MarksClear, Tricolor,
              MarksAccessible
<1>7. Stutter
  BY <1>1 DEF Stutter, Survivors, RootSet
<1>8. QED
  BY <1>4, <1>5, <1>6, <1>7 DEF Inv

LEMMA EndResetInv == ASSUME Inv, EndReset PROVE Inv' /\ Stutter
<1> USE DEF EndReset, clientVars, markVars, cursorVars, countVars, null
<1>1. IsNewestBelow(currentObject, allocated + 1) /\ currentObject = null
  BY DEF Inv, CursorsInList
<1>2. live = {}
  BY <1>1, Numbers DEF IsNewestBelow
<1>3. TypeOK'
  BY <1>1, <1>2 DEF Inv, TypeOK
<1>4. ListHoldsLive' /\ CursorsInList'
  BY <1>1, <1>2 DEF Inv, ListHoldsLive, CursorsInList, IsNewestBelow
<1>5. NoTracedDangling' /\ RequestAccessible' /\ MarksClear' /\ Tricolor' /\ MarksAccessible'
  BY DEF Inv, NoTracedDangling, RequestAccessible, RequestRefs, MarksClear, Tricolor,
         MarksAccessible
<1>6. Stutter
  BY DEF Stutter, Survivors, RootSet
<1>7. QED
  BY <1>3, <1>4, <1>5, <1>6 DEF Inv

-------------------------------------------------------------------------------
(***************************************************************************)
(* Theorems.  ClassesStayReachable is the one assumption about the client: *)
(* without it OP_GET_PROPERTY hands allocateObject a method that only the  *)
(* untraced class of an instance leads to.                                 *)
(***************************************************************************)
LEMMA NextInv ==
  ASSUME Inv, ClassesStayReachable, [Next]_vars
  PROVE  Inv'
<1>1. CASE Client
  <2>1. ASSUME NEW s \in RootSource, NEW o \in live, AddRoot(s, o) \/ DropRoot(s, o)
        PROVE  Inv'
    BY <2>1, RootChange, MutationInv
  <2>2. ASSUME NEW o \in live,
               CloseUpvalue(o) \/ SetEntry(o, "methods") \/ SetEntry(o, "fields")
        PROVE  Inv'
    BY <2>2, CloseUpvalueMutates, SetEntryMutates, MutationInv DEF Field
  <2>3. ASSUME NEW fn \in live, EndCompiler(fn) PROVE Inv'
    BY <2>3, EndCompilerMutates, MutationInv
  <2>4. ASSUME NEW type \in ObjectType, AllocateObject(type) PROVE Inv'
    BY <2>4, AllocateObjectInv
  <2>5. QED
    BY <1>1, <2>1, <2>2, <2>3, <2>4, BeginResetInv DEF Client
<1>2. CASE Collector
  BY <1>2, MarkRootsInv, BlackenObjectInv, BeginSweepInv, SweepMarkedInv,
     SweepUnmarkedInv, EndCollectionInv DEF Collector
<1>3. CASE UNCHANGED vars
  <2> USE <1>3 DEF Inv, vars, clientVars, listVars, markVars, cursorVars, countVars
  <2>1. Survivors' = Survivors
    BY DEF Survivors
  <2>2. Accessible' = Accessible /\ RootSet' = RootSet
    BY <2>1, AccessibleStable DEF Stutter
  <2>3. TypeOK' /\ ListHoldsLive' /\ CursorsInList'
    BY DEF TypeOK, ListHoldsLive, CursorsInList, IsNewestBelow
  <2>4. NoTracedDangling' /\ RequestAccessible'
    BY <2>1, <2>2, AccessibleStable DEF NoTracedDangling, RequestAccessible, RequestRefs
  <2>5. Tricolor' /\ MarksClear' /\ MarksAccessible'
    BY <2>1, <2>2 DEF Tricolor, MarksClear, MarksAccessible, Children, Pointees
  <2>6. QED
    BY <2>3, <2>4, <2>5
<1>4. QED
  BY <1>1, <1>2, <1>3, ConstructInv, ResetObjectInv, EndResetInv DEF Next

\* The inductive invariant of the heap, for any program that keeps the classes
\* of its instances reachable, any object sizes and any number of objects.
THEOREM Invariance ==
  ASSUME ClassesStayReachable
  PROVE  Spec => []Inv
<1>1. Inv /\ [Next]_vars => Inv'
  BY NextInv
<1>2. QED
  BY <1>1, InitInv, PTL DEF Spec

\* The variables of the heap keep their types: cursors point at live objects
\* or nowhere, marks and grey objects are live.
THEOREM TypeCorrect ==
  ASSUME ClassesStayReachable
  PROVE  Spec => []TypeOK
<1>1. Inv => TypeOK
  BY DEF Inv
<1>2. QED
  BY <1>1, Invariance, PTL

\* insertAtHead, sweep and reset keep the intrusive list of all live objects.
THEOREM ListCorrect ==
  ASSUME ClassesStayReachable
  PROVE  Spec => []ListHoldsLive
<1>1. Inv => ListHoldsLive
  BY DEF Inv
<1>2. QED
  BY <1>1, Invariance, PTL

\* No collection deletes what the program reaches along traced fields, nor an
\* argument of the allocation that ran it.
THEOREM CollectorSafe ==
  ASSUME ClassesStayReachable
  PROVE  Spec => []NoTracedDangling
<1>1. Inv => NoTracedDangling
  BY DEF Inv
<1>2. QED
  BY <1>1, Invariance, PTL

\* Tracing leaves no black object with a white child.
THEOREM MarkingCorrect ==
  ASSUME ClassesStayReachable
  PROVE  Spec => []Tricolor
<1>1. Inv => Tricolor
  BY DEF Inv
<1>2. QED
  BY <1>1, Invariance, PTL

\* No mark and no grey object outlives the collection that made it.
THEOREM MarksCleared ==
  ASSUME ClassesStayReachable
  PROVE  Spec => []MarksClear
<1>1. Inv => MarksClear
  BY DEF Inv
<1>2. QED
  BY <1>1, Invariance, PTL

\* When sweep has ended, exactly the objects within reach are left.
THEOREM CollectorComplete ==
  ASSUME ClassesStayReachable
  PROVE  Spec => CollectsAllGarbage
<1>1. Inv /\ EndCollection => live = Accessible
  <2> SUFFICES ASSUME Inv, EndCollection PROVE live = Accessible
    OBVIOUS
  <2>1. Survivors = live
    BY Numbers DEF EndCollection, Survivors, null
  <2>2. QED
    BY <2>1, AccessibleInSurvivors DEF Inv, MarksAccessible, EndCollection
<1>2. Inv /\ [Next]_vars => [EndCollection => live = Accessible]_vars
  BY <1>1
<1>3. QED
  BY <1>2, Invariance, PTL DEF Spec, CollectsAllGarbage
===============================================================================
