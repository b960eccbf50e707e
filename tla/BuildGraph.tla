------------------------------ MODULE BuildGraph ------------------------------
(***************************************************************************)
(* The build graph the executor walks (src/src/graph.rs).                  *)
(*                                                                         *)
(* BuildGraph.graph is a petgraph DiGraphMap<BuildId, ()> whose edges point*)
(* from the consumer to the dependency.  A graph g is a function: g[b] is  *)
(* the set of builds b depends on.  DiGraphMap stores each edge once, so a *)
(* set is what neighbors_directed iterates over; the order of iteration is *)
(* not modelled.  A build no edge mentions is not a node of the DiGraphMap;*)
(* its neighbours are the empty iterator, here the empty set.              *)
(***************************************************************************)
CONSTANT BuildId   \* the builds of the graph: BuildId(0) .. BuildId(n - 1)

BuildGraphs == [BuildId -> SUBSET BuildId]

build_dependencies(g, b) == g[b]

build_dependents(g, b) == {c \in BuildId : b \in g[c]}

\* A set of builds that contains every dependency of its members.
DepClosed(g, T) == \A b \in T : build_dependencies(g, b) \subseteq T

\* What a depth-first search that follows the edges of g visits from S: the
\* least closed set that contains S.
Reach(g, S) ==
  {b \in BuildId : \A T \in SUBSET BuildId :
                     S \subseteq T /\ DepClosed(g, T) => b \in T}

\* The graphs GraphBuilder::build accepts: is_cyclic_directed found no cycle.
\* On a finite graph that is the same as: in every nonempty set of builds some
\* build depends on none of them.
Acyclic(g) ==
  \A S \in (SUBSET BuildId) \ {{}} :
    \E b \in S : build_dependencies(g, b) \cap S = {}
===============================================================================
