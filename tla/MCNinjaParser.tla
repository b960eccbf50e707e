----------------------------- MODULE MCNinjaParser -----------------------------
(***************************************************************************)
(* Small ninja files for TLC: at most three pieces of one or two lines     *)
(* behind a beginning, with and without a line feed at the end.            *)
(***************************************************************************)
EXTENDS NinjaParser

CONSTANT MaxPieces   \* bound: the length of a file

T(k, w) == [k |-> k, w |-> w]
W(w) == T("word", w)
V(v) == T("var", v)
S == T("sp", " ")
P(k) == T(k, k)

Line(ls) == [ind |-> FALSE, toks |-> ls]
Indented(ls) == [ind |-> TRUE, toks |-> ls]
Blank == Line(<<>>)

Let(name, value) == <<W(name), S, P("=")>> \o value

Assign1 == <<Line(Let("x", <<S, W("gcc")>>))>>
Rule1 ==
  << Line(<<W("rule"), S, W("cc")>>),
     Indented(Let("command", <<S, V("y"), S, V("in")>>)) >>

Beginnings == {<<>>, Assign1 \o Rule1}

Pieces ==
  { Rule1,
    \* a build with all its lists, continued on a second line
    << Line(<<W("build"), S, W("o"), S, P("|"), S, W("oo"), P(":"), S, W("cc"), S,
              W("p"), S, P("|"), S, W("i"), S, T("cont", "$")>>),
       Indented(<<P("||"), S, W("q"), V("x")>>) >>,
    << Line(<<W("build"), S, V("x"), P(":"), S, W("cc"), S, W("p"), S, P("||"), S,
              T("esc", ":")>>) >>,
    << Line(<<W("build"), S, W("p"), S, W("pp"), P(":"), S, W("phony"), S, W("b")>>) >>,
    << Line(<<W("build"), S, W("o"), P(":"), S, W("cc"), S, P("||"), S, P("|")>>) >>,
    << Line(<<W("build"), S, W("o"), S, W("cc")>>) >>,
    << Line(<<W("default"), S, W("o"), V("x"), S, V("x"), S>>) >>,
    << Line(Let("x", <<P("|"), S, W("2"), S>>)) >>,
    << Line(Let("y", <<S, V("x"), P(":")>>)) >>,
    << Indented(Let("y", <<S, V("x"), V("out")>>)) >>,
    << Indented(Let("y", <<V("y")>>)) >>,
    << Indented(Let("deps", <<S, V("x")>>)) >>,
    << Blank >>,
    << Indented(<<>>) >>,
    << Line(<<T("comment", "#c")>>) >>,
    << Indented(<<T("comment", "#c")>>) >>,
    << Line(Let("x", <<S, T("bad", "$-")>>)) >>,
    << Line(<<W("include"), S, W("f")>>) >>,
    << Line(<<W("include"), S, W("g"), S>>) >>,
    << Line(<<W("include"), S, V("x")>>) >>,
    << Line(<<W("pool"), S, W("a")>>) >> }

AllMains ==
  {b \o FlattenSeq(ps) \o end :
     b \in Beginnings, ps \in BoundedSeq(Pieces, MaxPieces), end \in {<<>>, <<Blank>>}}

\* One file with statements of its own, and one that includes itself.
Files ==
  (<<"f">> :> << Line(Let("x", <<S, W("3")>>)),
                 Line(<<W("build"), S, W("p"), P(":"), S, W("phony"), S, W("d")>>),
                 Blank >>)
  @@ (<<"g">> :> << Line(<<W("include"), S, W("g")>>) >>)
===============================================================================
