------------------------------- MODULE MCHeap -------------------------------
(***************************************************************************)
(* Instances of Heap for TLC.  Object sizes are small and distinct, so     *)
(* that the accounting cannot be right by accident.                        *)
(***************************************************************************)
EXTENDS Heap, TLC

MCSizeOf == [t \in ObjectType |->
  CASE t = "STRING"       -> 2 [] t = "FUNCTION" -> 4 [] t = "CLOSURE"  -> 3
    [] t = "UPVALUE"      -> 1 [] t = "CLASS"    -> 3 [] t = "INSTANCE" -> 2
    [] t = "BOUND_METHOD" -> 1 [] OTHER          -> 1]

Upto(bounds) == [t \in ObjectType |-> IF t \in DOMAIN bounds THEN bounds[t] ELSE 0]

ClosureTypes == Upto("FUNCTION" :> 2 @@ "CLOSURE" :> 2 @@ "UPVALUE" :> 2)
ClassTypes   == Upto("CLOSURE" :> 1 @@ "CLASS" :> 1 @@ "INSTANCE" :> 1 @@ "BOUND_METHOD" :> 1)
=============================================================================
