---------------------------- MODULE HeapRefinement ----------------------------
(***************************************************************************)
(* Heap implements GarbageCollector, and allocation keeps to the threshold.*)
(* Both rest on the inductive invariant of HeapProofs.                     *)
(***************************************************************************)
EXTENDS HeapProofs

\* The abstract collector reaches what the client of the heap reaches.
LEMMA ReachableIsAccessible == GC!Reachable = Accessible
<1>1. ASSUME NEW T \in SUBSET Survivors
      PROVE  GC!Closed(T) <=> ClosedUnderTracing(T)
  BY DEF GC!Closed, ClosedUnderTracing
<1>2. QED
  BY <1>1 DEF GC!Reachable, Accessible

LEMMA StutterMaps == ASSUME Stutter PROVE UNCHANGED GC!vars
  BY DEF Stutter, GC!vars

LEMMA UnchangedMaps == ASSUME UNCHANGED vars PROVE UNCHANGED GC!vars
<1> USE DEF vars, clientVars, listVars, markVars, cursorVars, countVars
<1>1. Survivors' = Survivors
  BY DEF Survivors
<1>2. Stutter
  BY <1>1, AccessibleStable
<1>3. QED
  BY <1>2, StutterMaps

LEMMA InitMaps == Init => GC!Init
<1> SUFFICES ASSUME Init PROVE GC!Init
  OBVIOUS
<1>1. ClosedUnderTracing(Survivors)
  BY InitInv DEF Inv, NoTracedDangling, Init
<1>2. QED
  BY <1>1 DEF GC!Init, ClosedUnderTracing

LEMMA MutationMaps == ASSUME Inv, Mutation PROVE GC!Mutate
<1>1. Survivors = live /\ Survivors' = live
  BY DEF Mutation, Survivors, listVars
<1>2. RootSet' \subseteq Accessible
  BY DEF Mutation, RootSet
<1>3. \A o \in live : Children(o)' \subseteq Children(o) \cup Accessible
  BY DEF Mutation
<1>4. QED
  BY <1>1, <1>2, <1>3, ReachableIsAccessible DEF GC!Mutate

\* The moment tracing ends, the fate of every object is settled: this is the
\* step at which the abstract collection happens.
LEMMA BeginSweepMaps == ASSUME Inv, BeginSweep PROVE GC!Collect
<1> USE DEF BeginSweep, clientVars, listVars, markVars
<1>1. Survivors' = Accessible
  <2>1. Survivors = live /\ IsNewestBelow(m_head, allocated + 1)
    BY DEF Inv, ListHoldsLive, Survivors
  <2>2. \A o \in live : ~(o > m_head)
    BY <2>1, Numbers DEF IsNewestBelow
  <2>3. Survivors' = marked
    BY <2>2 DEF Survivors, Inv, TypeOK
  <2>4. ClosedUnderTracing(marked)
    BY DEF Inv, Tricolor, ClosedUnderTracing
  <2>5. Accessible = marked
    BY <2>1, <2>4 DEF Accessible, Inv, MarksAccessible, TypeOK
  <2>6. QED
    BY <2>3, <2>5
<1>2. Accessible \subseteq Survivors
  BY AccessibleInSurvivors
<1>3. RootSet' = RootSet /\ \A o \in Survivors : Children(o)' = Children(o)
  BY DEF RootSet, Children, Pointees
<1>4. QED
  BY <1>1, <1>2, <1>3, ReachableIsAccessible DEF GC!Collect

LEMMA ConstructMaps == ASSUME Inv, Construct PROVE GC!Allocate
<1>0. PICK o : o = allocated + 1
  OBVIOUS
<1>1. /\ phase = "construct" /\ phase' = "client"
      /\ live' = live \cup {o} /\ o \notin live
      /\ object' \in [live' -> Object]
      /\ object'[o].refs = request.refs
      /\ \A x \in live : /\ object'[x].type = object[x].type
                         /\ \A f \in Field : object'[x].refs[f] \subseteq
                                               object[x].refs[f] \cup {o}
      /\ \A s \in RootSource : roots'[s] \subseteq roots[s] \cup {o}
  BY <1>0, ConstructFacts
<1>2. Survivors = live /\ Survivors' = live \cup {o}
  BY <1>1 DEF Survivors
<1>3. \A type \in ObjectType : Traced(type) \subseteq Field
  BY DEF Traced, TracedPointers, TracedValues, Field
<1>4. Children(o)' \subseteq Accessible
  <2>1. RequestRefs \subseteq Accessible
    BY <1>1 DEF Inv, RequestAccessible
  <2>2. Traced(object'[o].type) \subseteq Field
    BY <1>1, <1>3 DEF Object
  <2>3. QED
    BY <1>1, <2>1, <2>2 DEF Children, Pointees, RequestRefs
<1>5. ASSUME NEW x \in live PROVE Children(x)' \subseteq Children(x) \cup {o}
  <2>1. Traced(object[x].type) \subseteq Field
    BY <1>3 DEF Inv, TypeOK, Object
  <2>2. QED
    BY <1>1, <2>1 DEF Children, Pointees
<1>6. RootSet' \subseteq RootSet \cup {o}
  BY <1>1 DEF RootSet
<1>7. QED
  BY <1>1, <1>2, <1>4, <1>5, <1>6, ReachableIsAccessible DEF GC!Allocate

LEMMA BeginResetMaps == ASSUME BeginReset PROVE GC!Destroy
  BY DEF BeginReset, clientVars, GC!Destroy, Survivors, RootSet

LEMMA NextMaps ==
  ASSUME Inv, ClassesStayReachable, [Next]_vars
  PROVE  [GC!Next]_(GC!vars)
<1> USE DEF GC!Next
<1>1. CASE Client
  <2>1. ASSUME NEW s \in RootSource, NEW o \in live, AddRoot(s, o) \/ DropRoot(s, o)
        PROVE  GC!Mutate
    BY <2>1, RootChange, MutationMaps
  <2>2. ASSUME NEW o \in live,
               CloseUpvalue(o) \/ SetEntry(o, "methods") \/ SetEntry(o, "fields")
        PROVE  GC!Mutate
    BY <2>2, CloseUpvalueMutates, SetEntryMutates, MutationMaps DEF Field
  <2>3. ASSUME NEW fn \in live, EndCompiler(fn) PROVE GC!Mutate
    BY <2>3, EndCompilerMutates, MutationMaps
  <2>4. ASSUME NEW type \in ObjectType, AllocateObject(type) PROVE UNCHANGED GC!vars
    BY <2>4, AllocateObjectInv, StutterMaps
  <2>5. QED
    BY <1>1, <2>1, <2>2, <2>3, <2>4, BeginResetMaps DEF Client
<1>2. CASE Collector
  <2>1. ASSUME MarkRoots \/ SweepMarked \/ SweepUnmarked \/ EndCollection
        PROVE  UNCHANGED GC!vars
    BY <2>1, MarkRootsInv, SweepMarkedInv, SweepUnmarkedInv, EndCollectionInv, StutterMaps
  <2>2. ASSUME NEW o \in m_greyed_objects, BlackenObject(o) PROVE UNCHANGED GC!vars
    BY <2>2, BlackenObjectInv, StutterMaps
  <2>3. QED
    BY <1>2, <2>1, <2>2, BeginSweepMaps DEF Collector
<1>3. CASE ResetObject \/ EndReset
  BY <1>3, ResetObjectInv, EndResetInv, StutterMaps
<1>4. CASE UNCHANGED vars
  BY <1>4, UnchangedMaps
<1>5. QED
  BY <1>1, <1>2, <1>3, <1>4, ConstructMaps DEF Next

\* The mark-and-sweep heap implements the atomic collector: to its client a
\* collection is one step that removes exactly the unreachable objects.
THEOREM Refinement ==
  ASSUME ClassesStayReachable
  PROVE  Spec => ImplementsCollector
<1>1. Inv /\ [Next]_vars => [GC!Next]_(GC!vars)
  BY NextMaps
<1>2. QED
  BY <1>1, InitMaps, Invariance, PTL DEF Spec, ImplementsCollector, GC!Spec

-------------------------------------------------------------------------------
(***************************************************************************)
(* The threshold.                                                          *)
(***************************************************************************)
\* HeapBounded is not inductive: what keeps it is that a construction starts
\* at or below the threshold, because the check came first or a collection
\* has just doubled the threshold.
Bounded ==
  /\ HeapBounded
  /\ m_next_collection_threhold >= InitialThreshold
  /\ phase = "construct" => m_bytes_allocated <= m_next_collection_threhold

LEMMA Sizes == SizeOf \in [ObjectType -> Nat] /\ InitialThreshold \in Nat
                 /\ \A t \in ObjectType : SizeOf[t] <= InitialThreshold
  BY HeapConstants

LEMMA InitBounded == Init => Bounded
  BY Sizes DEF Init, Bounded, HeapBounded, ObjectType

\* Deleting an object takes its size off the account.
LEMMA FreeBounded ==
  ASSUME Inv, Bounded, NEW o \in live, FreeObject(o), phase' = phase, phase # "construct",
         m_next_collection_threhold' = m_next_collection_threhold
  PROVE  Bounded'
<1>1. object[o].type \in ObjectType
  BY DEF Inv, TypeOK, Object
<1>2. m_bytes_allocated' = m_bytes_allocated - SizeOf[object[o].type]
  BY DEF FreeObject
<1>3. m_bytes_allocated' \in Int /\ m_bytes_allocated' <= m_bytes_allocated
  BY <1>1, <1>2, Sizes DEF Inv, TypeOK
<1>4. PICK t \in ObjectType : m_bytes_allocated <= m_next_collection_threhold + SizeOf[t]
  BY DEF Bounded, HeapBounded
<1>5. m_bytes_allocated' <= m_next_collection_threhold + SizeOf[t]
  BY <1>3, <1>4, Sizes DEF Inv, TypeOK
<1>6. QED
  BY <1>3, <1>5 DEF Bounded, HeapBounded

LEMMA NextBounded ==
  ASSUME Inv, Bounded, [Next]_vars
  PROVE  Bounded'
<1> USE DEF countVars
<1>1. CASE EndCollection
  <2>1. PICK t \in ObjectType : m_bytes_allocated <= m_next_collection_threhold + SizeOf[t]
    BY DEF Bounded, HeapBounded
  <2>2. /\ m_bytes_allocated' = m_bytes_allocated
        /\ m_next_collection_threhold' = 2 * m_next_collection_threhold
    BY <1>1 DEF EndCollection, HEAP_GROW_FACTOR
  <2>3. /\ m_bytes_allocated' <= m_next_collection_threhold'
        /\ m_next_collection_threhold' >= InitialThreshold
    BY <2>1, <2>2, Sizes DEF Inv, TypeOK, Bounded
  <2>4. m_bytes_allocated' <= m_next_collection_threhold' + SizeOf[t]
    BY <2>2, <2>3, Sizes DEF Inv, TypeOK
  <2>5. QED
    BY <2>2, <2>3, <2>4 DEF Bounded, HeapBounded, Inv, TypeOK
<1>2. CASE Construct
  <2>1. /\ phase = "construct" /\ phase' = "client" /\ request.type \in ObjectType
        /\ m_bytes_allocated' = m_bytes_allocated + SizeOf[request.type]
        /\ m_next_collection_threhold' = m_next_collection_threhold
    BY <1>2 DEF Construct, Inv, TypeOK, Object
  <2>2. /\ m_bytes_allocated' <= m_next_collection_threhold' + SizeOf[request.type]
        /\ m_bytes_allocated' \in Int
    BY <2>1, Sizes DEF Bounded, Inv, TypeOK
  <2>3. QED
    BY <2>1, <2>2 DEF Bounded, HeapBounded
<1>3. CASE SweepUnmarked
  BY <1>3, FreeBounded DEF SweepUnmarked, Inv, TypeOK
<1>4. CASE ResetObject
  BY <1>4, FreeBounded DEF ResetObject, Inv, TypeOK
<1>5. ASSUME NEW type \in ObjectType, AllocateObject(type) PROVE Bounded'
  BY <1>5 DEF AllocateObject, Bounded, HeapBounded, Inv, TypeOK
<1>6. CASE /\ UNCHANGED <<countVars, m_next_collection_threhold>>
           /\ phase' # "construct" \/ phase' = phase
  BY <1>6 DEF Bounded, HeapBounded, Inv, TypeOK
<1>7. QED
  <2>1. CASE Client
    BY <2>1, <1>5, <1>6 DEF Client, AddRoot, DropRoot, EndCompiler, CloseUpvalue,
                            SetEntry, BeginReset
  <2>2. CASE Collector
    BY <2>2, <1>1, <1>3, <1>6 DEF Collector, MarkRoots, BlackenObject, BeginSweep, SweepMarked
  <2>3. CASE EndReset
    BY <2>3, <1>6 DEF EndReset
  <2>4. CASE UNCHANGED vars
    BY <2>4, <1>6 DEF vars
  <2>5. QED
    BY <2>1, <2>2, <2>3, <2>4, <1>2, <1>4 DEF Next

\* The bytes allocated never exceed the threshold by more than one object,
\* whether or not the build collects on every allocation.
THEOREM AllocationBounded ==
  ASSUME ClassesStayReachable
  PROVE  Spec => []HeapBounded
<1>1. Inv /\ Bounded /\ [Next]_vars => Bounded'
  BY NextBounded
<1>2. Bounded => HeapBounded
  BY DEF Bounded
<1>3. QED
  BY <1>1, <1>2, InitBounded, Invariance, PTL DEF Spec
===============================================================================
