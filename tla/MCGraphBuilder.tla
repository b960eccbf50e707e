----------------------------- MODULE MCGraphBuilder -----------------------------
(***************************************************************************)
(* Small instances of GraphBuilder for TLC: b1 and b2 take every pair of   *)
(* shapes from two lists.                                                  *)
(***************************************************************************)
EXTENDS GraphBuilder, TLC

CONSTANTS b1, b2, b3   \* model values

Names == {"", "x", "y", "out"}

Shape(command, ins, outs, deps) ==
  [command |-> command, ins |-> ins, outs |-> outs, deps |-> deps]

Plan(one, two, three) == (b1 :> one) @@ (b2 :> two) @@ (b3 :> three)

\* Commands and outputs that are easily taken for each other.
Commands ==
  {Shape(c, <<>>, o, {}) :
     c \in {SubCommand("x", <<>>), SubCommand("x", <<"x">>), SubCommand("x", <<"out">>),
            SubCommand("x", <<"x", "out">>), Callback("out"), Callback(""), Phony},
     o \in {<<>>, <<"x", "y">>, <<"out">>}}
    \cup {Shape(SubCommand("x", <<"x">>), <<>>, <<"y", "x">>, {}),
          Shape(SubCommand("x", <<"x">>), <<>>, <<"y">>, {}),
          Shape(SubCommand("x", <<>>), <<>>, <<"out", "x">>, {})}

CommandPlans == {Plan(c, d, Shape(Phony, <<>>, <<>>, {})) : c, d \in Commands}

\* b3 makes x and y.  Inputs are listed, or come from b3 or from b1, which makes
\* y too; some of the plans have a cycle.
InputShapes(outs) ==
  {Shape(Phony, i, outs, d) :
     i \in {<<>>, <<"x", "y">>, <<"y", "x">>, <<"x", "x">>, <<"y", "y">>},
     d \in {{}, {b3}, {b1, b3}}}

InputPlans ==
  {Plan(c, d, Shape(Phony, <<>>, <<"x", "y">>, {})) :
     c \in InputShapes(<<"y">>), d \in InputShapes(<<>>)}

AllPlans == CommandPlans \cup InputPlans
===============================================================================
