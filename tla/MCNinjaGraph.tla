----------------------------- MODULE MCNinjaGraph -----------------------------
(***************************************************************************)
(* Small instances of NinjaGraph for TLC: files x, y and z, and names p and*)
(* q that may be phony.                                                    *)
(***************************************************************************)
EXTENDS NinjaGraph, TLC

CONSTANTS b1, b2, b3, x, y, z, p, q

Phony(ins, order_only) == [ins |-> ins, order_only |-> order_only]

\* No phony target; one for two files; one that is order-only and leads
\* through another; two in a circle.  With default targets of each sort.
Tables ==
  { [phony |-> <<>>, defaults |-> {}],
    [phony |-> p :> Phony({x, y}, {}), defaults |-> {p}],
    [phony |-> (p :> Phony({q}, {z})) @@ (q :> Phony({x}, {})), defaults |-> {}],
    [phony |-> (p :> Phony({q, x}, {})) @@ (q :> Phony({}, {p})),
     defaults |-> {y, q}] }

Stmt(ins, order_only, out) ==
  [ins |-> ins, order_only |-> order_only, outs |-> {out}]

\* Sources of x and y, two readers of x, a circle through p, and readers of
\* p beside and instead of y.
Statements ==
  { Stmt({}, {}, x), Stmt({}, {}, y), Stmt({x}, {}, y), Stmt({x}, {}, z),
    Stmt({p}, {}, x), Stmt({p}, {}, z), Stmt({x, y}, {}, z), Stmt({y}, {p}, z) }

AllNinjaFiles ==
  {[builds |-> stmts, phony |-> t.phony, defaults |-> t.defaults] :
     stmts \in [BuildId -> Statements], t \in Tables}

Targets == {{}, {p}, {x, y}, {q, z}}
===============================================================================
