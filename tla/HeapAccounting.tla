---------------------------- MODULE HeapAccounting ----------------------------
(***************************************************************************)
(* The counters of Heap count what is live, and the destructor brings them *)
(* to zero, for every value of the constants.                              *)
(***************************************************************************)
EXTENDS HeapProofs, FiniteSetTheorems

\* Accounting is inductive along Inv; ResetFreesAll needs to be told that nothing
\* is live once the heap is destroyed.
Counted == Accounting /\ (phase = "destroyed" => live = {})

Count(type) == Cardinality(LiveOf(type))

LEMMA LiveFinite ==
  ASSUME Inv
  PROVE  /\ IsFiniteSet(live) /\ Cardinality(live) \in Nat
         /\ \A t \in ObjectType : IsFiniteSet(LiveOf(t)) /\ Count(t) \in Nat
<1>1. IsFiniteSet(1..allocated) /\ live \subseteq 1..allocated
  BY FS_Interval DEF Inv, TypeOK
<1>2. IsFiniteSet(live)
  BY <1>1, FS_Subset
<1>3. \A t \in ObjectType : LiveOf(t) \in SUBSET live
  BY DEF LiveOf
<1>4. \A t \in ObjectType : IsFiniteSet(LiveOf(t))
  BY <1>2, <1>3, FS_Subset
<1>5. QED
  BY <1>2, <1>4, FS_CardinalityType DEF Count

\* One object more or less of a type: its size more or less.
LEMMA BytesStep ==
  ASSUME NEW type \in ObjectType, NEW d \in {-1, 1},
         \A t \in ObjectType : /\ Count(t) \in Nat
                               /\ Count(t)' = Count(t) + (IF t = type THEN d ELSE 0)
  PROVE  BytesLive' = BytesLive + d * SizeOf[type]
<1>1. ASSUME NEW t \in ObjectType
      PROVE  /\ BytesOf(t) \in Int
             /\ BytesOf(t)' = BytesOf(t) + (IF t = type THEN d * SizeOf[type] ELSE 0)
  <2>1. SizeOf[t] \in Int /\ BytesOf(t) = SizeOf[t] * Count(t)
        /\ BytesOf(t)' = SizeOf[t] * (Count(t) + (IF t = type THEN d ELSE 0))
    BY HeapConstants DEF BytesOf, Count
  <2>2. QED
    BY <2>1
<1>2. d * SizeOf[type] \in Int
  BY HeapConstants
<1>3. QED
  BY <1>1, <1>2 DEF BytesLive, ObjectType

-------------------------------------------------------------------------------
LEMMA InitCounted == Init => Counted
<1> SUFFICES ASSUME Init PROVE Counted
  OBVIOUS
<1>1. live = {1} /\ object[1].type = "FUNCTION"
  BY DEF Init, TopLevel
<1>2. \A t \in ObjectType : LiveOf(t) = IF t = "FUNCTION" THEN {1} ELSE {}
  BY <1>1 DEF LiveOf
<1>3. Cardinality({}) = 0 /\ Cardinality({1}) = 1
  BY FS_EmptySet, FS_Singleton
<1>4. \A t \in ObjectType : BytesOf(t) = IF t = "FUNCTION" THEN SizeOf[t] ELSE 0
  <2> SUFFICES ASSUME NEW t \in ObjectType
               PROVE  BytesOf(t) = IF t = "FUNCTION" THEN SizeOf[t] ELSE 0
    OBVIOUS
  <2>1. SizeOf[t] \in Int
    BY HeapConstants
  <2>2. Cardinality(LiveOf(t)) = IF t = "FUNCTION" THEN 1 ELSE 0
    BY <1>2, <1>3
  <2>3. QED
    BY <2>1, <2>2 DEF BytesOf
<1>5. BytesLive = SizeOf["FUNCTION"]
  <2>1. SizeOf["FUNCTION"] \in Int
    BY HeapConstants DEF ObjectType
  <2>2. QED
    BY <1>4, <2>1 DEF BytesLive, ObjectType
<1>6. QED
  BY <1>1, <1>3, <1>5 DEF Init, Counted, Accounting

\* A step that keeps the objects and their types keeps the count of them.
LEMMA SameObjects ==
  ASSUME Counted, live' = live, \A o \in live : object'[o].type = object[o].type,
         UNCHANGED countVars, phase' # "destroyed" \/ live = {}
  PROVE  Counted'
<1>1. \A t \in ObjectType : LiveOf(t)' = LiveOf(t)
  BY DEF LiveOf
<1>2. BytesLive' = BytesLive
  BY <1>1 DEF BytesLive, BytesOf, ObjectType
<1>3. QED
  BY <1>2 DEF Counted, Accounting, countVars

LEMMA ClientCounted ==
  ASSUME Inv, Counted, Client
  PROVE  Counted'
<1>1. object \in [live -> Object]
  BY DEF Inv, TypeOK
<1>2. CASE UNCHANGED <<object, live, countVars>> /\ phase' # "destroyed"
  BY <1>2, SameObjects
<1>3. ASSUME NEW o \in live, NEW f \in Field, NEW S, object' = [object EXCEPT ![o].refs[f] = S],
             UNCHANGED <<live, countVars>>, phase' # "destroyed"
      PROVE  Counted'
  <2>1. \A x \in live : object'[x].type = object[x].type
    BY <1>1, <1>3 DEF Object
  <2>2. QED
    BY <1>3, <2>1, SameObjects
<1>4. ASSUME NEW s \in RootSource, NEW o \in live, AddRoot(s, o) \/ DropRoot(s, o)
      PROVE  Counted'
  BY <1>2, <1>4 DEF AddRoot, DropRoot, listVars
<1>5. ASSUME NEW o \in live, CloseUpvalue(o) PROVE Counted'
  <2>1. PICK value : object' = [object EXCEPT ![o].refs["closed"] = value]
    BY <1>5 DEF CloseUpvalue
  <2>2. QED
    BY <1>3, <1>5, <2>1 DEF CloseUpvalue, listVars, Field
<1>6. ASSUME NEW o \in live, NEW table \in Field, SetEntry(o, table) PROVE Counted'
  <2>1. PICK old, value : object' = [object EXCEPT ![o].refs[table] = (@ \ old) \cup value]
    BY <1>6 DEF SetEntry
  <2>2. PICK S : S = (object[o].refs[table] \ old) \cup value
    OBVIOUS
  <2>3. object' = [object EXCEPT ![o].refs[table] = S]
    BY <2>1, <2>2
  <2>4. QED
    BY <1>3, <1>6, <2>3 DEF SetEntry, listVars
<1>7. ASSUME NEW fn \in live, EndCompiler(fn) PROVE Counted'
  <2>1. PICK enclosing \in roots["m_current_compiler"] :
          object' = [object EXCEPT ![enclosing].refs["constants"] = @ \cup {fn}]
    BY <1>7 DEF EndCompiler
  <2>2. enclosing \in live
    BY <1>7, <2>1, ClientFacts, HeapConstants DEF EndCompiler
  <2>3. PICK S : S = object[enclosing].refs["constants"] \cup {fn}
    OBVIOUS
  <2>4. object' = [object EXCEPT ![enclosing].refs["constants"] = S]
    BY <2>1, <2>3
  <2>5. QED
    BY <1>3, <1>7, <2>2, <2>4 DEF EndCompiler, listVars, Field
<1>8. ASSUME NEW type \in ObjectType, AllocateObject(type) PROVE Counted'
  BY <1>2, <1>8 DEF AllocateObject, clientVars, listVars
<1>9. CASE BeginReset
  BY <1>2, <1>9 DEF BeginReset, clientVars, listVars
<1>10. QED
  BY <1>4, <1>5, <1>6, <1>7, <1>8, <1>9 DEF Client, Field

\* freeObject takes the size of the object off the account, and the object off the list.
LEMMA FreeCounted ==
  ASSUME Inv, Counted, NEW o \in live, FreeObject(o), phase' # "destroyed"
  PROVE  Counted'
<1>1. object \in [live -> Object] /\ object[o].type \in ObjectType
  BY DEF Inv, TypeOK, Object
<1>2. live' = live \ {o} /\ \A x \in live' : object'[x] = object[x]
  BY <1>1 DEF FreeObject, Restrict
<1>3. Cardinality(live') = Cardinality(live) - 1
  BY <1>2, LiveFinite, FS_RemoveElement
<1>4. ASSUME NEW t \in ObjectType
      PROVE  Count(t) \in Nat /\ Count(t)' = Count(t) + (IF t = object[o].type THEN -1 ELSE 0)
  <2>1. LiveOf(t)' = LiveOf(t) \ {o} /\ (o \in LiveOf(t) <=> t = object[o].type)
    BY <1>2 DEF LiveOf
  <2>2. IsFiniteSet(LiveOf(t)) /\ Count(t) \in Nat
    BY LiveFinite
  <2>3. Cardinality(LiveOf(t) \ {o}) = IF o \in LiveOf(t) THEN Count(t) - 1 ELSE Count(t)
    BY <2>2, FS_RemoveElement DEF Count
  <2>4. QED
    BY <2>1, <2>2, <2>3 DEF Count
<1>5. BytesLive' = BytesLive + (-1) * SizeOf[object[o].type]
  BY <1>1, <1>4, BytesStep
<1>6. SizeOf[object[o].type] \in Int /\ m_bytes_allocated \in Int
  BY <1>1, HeapConstants DEF Inv, TypeOK
<1>7. QED
  BY <1>3, <1>5, <1>6 DEF Counted, Accounting, FreeObject

LEMMA ConstructCounted ==
  ASSUME Inv, Counted, Construct
  PROVE  Counted'
<1>1. PICK o : o = allocated + 1
  OBVIOUS
<1>2. /\ phase' = "client" /\ live' = live \cup {o} /\ o \notin live
      /\ \A x \in live : object'[x].type = object[x].type
  BY <1>1, ConstructFacts
<1>3. request.type \in ObjectType
  BY DEF Inv, TypeOK, Object
<1>4. object'[o].type = request.type
  <2> DEFINE stored == [x \in live \cup {o} |->
                          IF x = o THEN [type |-> request.type, refs |-> request.refs]
                          ELSE object[x]]
  <2>1. stored[o].type = request.type
    OBVIOUS
  <2>2. CASE request.type = "STRING"
    <3>1. PICK fn \in live : object' = [stored EXCEPT ![fn].refs["constants"] = @ \cup {o}]
      <4>1. Store(o, request.type, request.refs)
        BY <1>1 DEF Construct
      <4>2. QED
        BY <2>2, <4>1 DEF Store
    <3>2. fn # o
      BY <1>2
    <3>3. QED
      BY <2>1, <3>1, <3>2
  <2>3. CASE request.type # "STRING"
    BY <1>1, <2>1, <2>3 DEF Construct, Store
  <2>4. QED
    BY <2>2, <2>3
<1>5. Cardinality(live') = Cardinality(live) + 1
  BY <1>2, LiveFinite, FS_AddElement
<1>6. ASSUME NEW t \in ObjectType
      PROVE  Count(t) \in Nat /\ Count(t)' = Count(t) + (IF t = request.type THEN 1 ELSE 0)
  <2>1. LiveOf(t)' = (IF t = request.type THEN LiveOf(t) \cup {o} ELSE LiveOf(t))
    BY <1>2, <1>4 DEF LiveOf
  <2>2. IsFiniteSet(LiveOf(t)) /\ Count(t) \in Nat /\ o \notin LiveOf(t)
    BY <1>2, LiveFinite DEF LiveOf
  <2>3. Cardinality(LiveOf(t) \cup {o}) = Count(t) + 1
    BY <2>2, FS_AddElement DEF Count
  <2>4. QED
    BY <2>1, <2>2, <2>3 DEF Count
<1>7. BytesLive' = BytesLive + 1 * SizeOf[request.type]
  BY <1>3, <1>6, BytesStep
<1>8. SizeOf[request.type] \in Int /\ m_bytes_allocated \in Int
  BY <1>3, HeapConstants DEF Inv, TypeOK
<1>9. QED
  BY <1>2, <1>5, <1>7, <1>8 DEF Counted, Accounting, Construct

LEMMA NextCounted ==
  ASSUME Inv, Counted, [Next]_vars
  PROVE  Counted'
<1>1. CASE UNCHANGED <<object, live, countVars>> /\ (phase' # "destroyed" \/ live = {})
  BY <1>1, SameObjects
<1>2. CASE Collector
  <2>1. CASE SweepUnmarked
    BY <2>1, SweepUnmarkedFacts, FreeCounted DEF SweepUnmarked
  <2>2. CASE ~SweepUnmarked
    BY <1>1, <1>2, <2>2 DEF Collector, MarkRoots, BlackenObject, BeginSweep, SweepMarked,
                            EndCollection, clientVars, listVars
  <2>3. QED
    BY <2>1, <2>2
<1>3. CASE ResetObject
  BY <1>3, FreeCounted DEF ResetObject, Inv, TypeOK
<1>4. CASE EndReset
  <2>1. live = {}
    BY <1>4, Numbers DEF EndReset, Inv, CursorsInList, IsNewestBelow, null
  <2>2. QED
    BY <1>1, <1>4, <2>1 DEF EndReset, clientVars
<1>5. CASE UNCHANGED vars
  BY <1>1, <1>5 DEF vars, clientVars, listVars, Counted
<1>6. QED
  BY <1>2, <1>3, <1>4, <1>5, ClientCounted, ConstructCounted DEF Next

-------------------------------------------------------------------------------
LEMMA AlwaysCounted ==
  ASSUME ClassesStayReachable
  PROVE  Spec => []Counted
<1>1. Inv /\ Counted /\ [Next]_vars => Counted'
  BY NextCounted
<1>2. QED
  BY <1>1, InitCounted, Invariance, PTL DEF Spec

\* m_number_of_heap_objects_allocated and m_bytes_allocated count the objects of
\* the list, whatever collections there were.
THEOREM CountersCorrect ==
  ASSUME ClassesStayReachable
  PROVE  Spec => []Accounting
<1>1. Counted => Accounting
  BY DEF Counted
<1>2. QED
  BY <1>1, AlwaysCounted, PTL

\* The destructor leaves no object behind, and both counters at zero.
THEOREM DestructorCorrect ==
  ASSUME ClassesStayReachable
  PROVE  Spec => []ResetFreesAll
<1>1. Counted => ResetFreesAll
  <2> SUFFICES ASSUME Counted, phase = "destroyed" PROVE
        live = {} /\ m_number_of_heap_objects_allocated = 0 /\ m_bytes_allocated = 0
    BY DEF ResetFreesAll
  <2>1. live = {} /\ \A t \in ObjectType : LiveOf(t) = {}
    BY DEF Counted, LiveOf
  <2>2. \A t \in ObjectType : BytesOf(t) = 0
    BY <2>1, FS_EmptySet, HeapConstants DEF BytesOf
  <2>3. QED
    BY <2>1, <2>2, FS_EmptySet DEF Counted, Accounting, BytesLive, ObjectType
<1>2. QED
  BY <1>1, AlwaysCounted, PTL
===============================================================================
