--------------------------- MODULE GarbageCollector ---------------------------
(***************************************************************************)
(* What a client of the collector may rely on: a graph of nodes, some of   *)
(* them roots.  The client rearranges edges and roots among the nodes it   *)
(* can reach and adds fresh nodes; a collection is one step that removes   *)
(* the unreachable nodes, all of them and no other.                        *)
(***************************************************************************)
VARIABLES nodes, edges, roots

vars == <<nodes, edges, roots>>

Closed(T) == roots \subseteq T /\ \A n \in T : edges[n] \subseteq T

\* The least closed set of nodes, stated without recursion.
Reachable == {n \in nodes : \A T \in SUBSET nodes : Closed(T) => n \in T}

Init == /\ edges \in [nodes -> SUBSET nodes]
        /\ roots \subseteq nodes

\* The client redirects what it can reach to what it can reach.
Mutate ==
  /\ nodes' = nodes
  /\ DOMAIN edges' = nodes
  /\ \A n \in nodes : edges'[n] \subseteq edges[n] \cup Reachable
  /\ roots' \subseteq Reachable

\* A fresh node appears, linked to and from reachable nodes only.
Allocate ==
  \E n \in nodes' \ nodes :
    /\ nodes' = nodes \cup {n}
    /\ DOMAIN edges' = nodes'
    /\ edges'[n] \subseteq Reachable
    /\ \A m \in nodes : edges'[m] \subseteq edges[m] \cup {n}
    /\ roots' \subseteq roots \cup {n}

Collect ==
  /\ nodes' = Reachable
  /\ edges' = [n \in nodes' |-> edges[n]]
  /\ roots' = roots

\* The end of the program: everything goes at once, reachable or not.
Destroy ==
  /\ nodes' = {} /\ DOMAIN edges' = {}
  /\ roots' = roots

Next == Mutate \/ Allocate \/ Collect \/ Destroy

Spec == Init /\ [][Next]_vars
===============================================================================
