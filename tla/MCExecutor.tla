------------------------------ MODULE MCExecutor ------------------------------
(***************************************************************************)
(* Small instances of Executor for TLC.                                    *)
(***************************************************************************)
EXTENDS Executor, TLC

CONSTANTS b1, b2, b3, b4   \* model values

\* Every graph without a cycle over the builds.
AllDags == {g \in BuildGraphs : Acyclic(g)}

\* The graph g with its builds renamed by the permutation p.
Renamed(g, p) ==
  [b \in BuildId |-> LET c == CHOOSE c \in BuildId : p[c] = b
                     IN  {p[d] : d \in g[c]}]

\* One graph of each shape.  Nothing in Executor tells builds apart but their
\* edges, so the others have the same behaviours with other names.  (SYMMETRY
\* would say so too, but not together with a liveness property.)
Shapes ==
  LET SameShape(g) == {Renamed(g, p) : p \in Permutations(BuildId)}
  IN  {CHOOSE g \in shape : TRUE : shape \in {SameShape(g) : g \in AllDags}}
===============================================================================
