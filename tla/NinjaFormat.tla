------------------------------ MODULE NinjaFormat ------------------------------
(***************************************************************************)
(* What a ninja file says, whatever the way it is read: a reference for    *)
(* module NinjaParser.  A file is a list of statements, each an unindented *)
(* line with the indented lines under it; variables are looked up in the   *)
(* order the comment at src/cli/src/ninja/model.rs:124 quotes from the     *)
(* manual, those of a rule late, all others where they stand.              *)
(***************************************************************************)
EXTENDS Naturals, FiniteSets, SequencesExt

CONSTANT Included   \* the files that can be included, by path

WordKinds == {"word", "esc", "var"}

Keyword(l) == IF l # <<>> /\ l[1].k = "word" THEN l[1].w ELSE ""

Count(q, k) == Cardinality({i \in DOMAIN q : q[i].k = k})

\* What is before, and behind, the first k.
PositionOf(q, k) ==
  CHOOSE i \in 1 .. Len(q) + 1 :
    /\ \A j \in 1 .. i - 1 : q[j].k # k
    /\ i <= Len(q) => q[i].k = k
Before(q, k) == SubSeq(q, 1, PositionOf(q, k) - 1)
Behind(q, k) == SubSeq(q, PositionOf(q, k) + 1, Len(q))

Trim(q) ==
  LET n == CHOOSE n \in 0 .. Len(q) :
             /\ \A i \in 1 .. n : q[i].k = "sp"
             /\ n < Len(q) => q[n + 1].k # "sp"
  IN SubSeq(q, n + 1, Len(q))

OnlyWords(q) == \A i \in DOMAIN q : q[i].k \in WordKinds \cup {"sp"}

\* The words of q: its longest pieces without a space.
Words(q) ==
  LET pieces == {p \in (DOMAIN q) \X (DOMAIN q) :
                   /\ p[1] <= p[2] /\ \A n \in p[1] .. p[2] : q[n].k # "sp"
                   /\ p[1] > 1 => q[p[1] - 1].k = "sp"
                   /\ p[2] < Len(q) => q[p[2] + 1].k = "sp"}
      order == SetToSortSeq(pieces, LAMBDA a, b : a[1] < b[1])
  IN [n \in DOMAIN order |-> SubSeq(q, order[n][1], order[n][2])]

-----------------------------------------------------------------------------
(* Lines and statements.                                                   *)

IsComment(l) == Len(l.toks) = 1 /\ l.toks[1].k = "comment"
EndsInCont(l) == l.toks # <<>> /\ Last(l.toks).k = "cont"

\* Files without what the parser is known to read in its own way: bytes that
\* are no token; comments that are not a line of their own at the margin with
\* the next line at the margin; indentation before any statement; and something
\* behind the path of an include.
Plain(lines) ==
  /\ lines # <<>> => ~lines[1].ind
  /\ \A i \in DOMAIN lines :
       LET l == lines[i]
       IN /\ Count(l.toks, "bad") = 0
          /\ Count(l.toks, "comment") > 0 =>
               /\ IsComment(l) /\ ~l.ind
               /\ i > 1 => ~EndsInCont(lines[i - 1])
               /\ i < Len(lines) /\ ~lines[i + 1].ind
          /\ EndsInCont(l) => i < Len(lines)
          /\ Keyword(l.toks) = "include" =>
               OnlyWords(Tail(l.toks)) /\ Len(Words(Tail(l.toks))) = 1

\* The lines with continued lines put together and comments left out.
Logical(lines) ==
  FoldLeft(LAMBDA done, l :
             IF done # <<>> /\ EndsInCont(Last(done))
             THEN Front(done) \o
                  <<[ind |-> Last(done).ind,
                     toks |-> Front(Last(done).toks)
                              \o (IF l.ind THEN <<[k |-> "sp", w |-> " "]>> ELSE <<>>)
                              \o l.toks]>>
             ELSE IF IsComment(l) THEN done ELSE Append(done, l),
           <<>>, lines)

Written(lines) == SelectSeq(Logical(lines), LAMBDA l : l.toks # <<>>)

Statements(lines) ==
  LET ls == Written(lines)
      heads == SetToSortSeq({i \in DOMAIN ls : ~ls[i].ind}, <)
  IN [n \in DOMAIN heads |->
        LET end == IF n = Len(heads) THEN Len(ls) ELSE heads[n + 1] - 1
        IN [head |-> ls[heads[n]].toks,
            body |-> [i \in 1 .. end - heads[n] |-> ls[heads[n] + i].toks]]]

\* An indented line is below some statement, and the line of a rule, a build
\* or a default ends with a line feed.
Shaped(lines) ==
  /\ Written(lines) # <<>> => ~Written(lines)[1].ind
  /\ lines # <<>> =>
       LET l == Last(Logical(lines))
       IN ~l.ind => Keyword(l.toks) \notin {"rule", "build", "default"}

-----------------------------------------------------------------------------
(* Variables.                                                              *)

Known(q, scope) == \A i \in DOMAIN q : q[i].k = "var" => q[i].w \in DOMAIN scope

Value(q, scope) ==
  FlattenSeq([i \in DOMAIN q |-> IF q[i].k = "var" THEN scope[q[i].w] ELSE <<q[i].w>>])

Text(value) == [i \in DOMAIN value |-> [k |-> "text", w |-> value[i]]]
Texts(scope) == [n \in DOMAIN scope |-> Text(scope[n])]
Late(q) == [i \in DOMAIN q |-> [k |-> IF q[i].k = "var" THEN "var" ELSE "text", w |-> q[i].w]]
Set(scope, n, value) == [m \in DOMAIN scope \cup {n} |-> IF m = n THEN value ELSE scope[m]]

Spaced(values) ==
  FlattenSeq([i \in DOMAIN values |-> IF i = 1 THEN values[i] ELSE <<" ">> \o values[i]])

\* The scopes of a build statement b, the nearest first.
Scopes(b, file) ==
  LET ins == [i \in DOMAIN b.inputs |->
                IF b.inputs[i] \in DOMAIN file.phony
                THEN file.phony[b.inputs[i]].targets ELSE <<b.inputs[i]>>]
  IN << [v \in {"in", "out"} |->
           Text(Spaced(IF v = "in" THEN FlattenSeq(ins) ELSE b.outputs))],
        Texts(b.vars),
        IF b.rule = "phony" THEN <<>> ELSE file.rules[b.rule],
        Texts(file.global_scope) >>

Has(v, scopes) == \E i \in DOMAIN scopes : v \in DOMAIN scopes[i]

Definition(v, scopes) ==
  scopes[CHOOSE i \in DOMAIN scopes :
           v \in DOMAIN scopes[i] /\ \A j \in 1 .. i - 1 : v \notin DOMAIN scopes[j]][v]

Rewritten(q, scopes) ==
  FlattenSeq([i \in DOMAIN q |->
    IF q[i].k # "var" THEN <<q[i]>>
    ELSE IF Has(q[i].w, scopes) THEN Definition(q[i].w, scopes) ELSE <<>>])

\* Rewriting a variable of each rule variable and one more ends what ends.
Final(q, scopes) ==
  LET final[n \in Nat] ==
        IF n = 0 THEN Late(q) ELSE Rewritten(final[n - 1], scopes)
  IN final[Cardinality(DOMAIN scopes[3]) + 1]

Defined(q, scopes) == Count(Final(q, scopes), "var") = 0
Meaning(q, scopes) == LET r == Final(q, scopes) IN [i \in DOMAIN r |-> r[i].w]
Variable(v) == <<[k |-> "var", w |-> v]>>

-----------------------------------------------------------------------------
(* What a statement adds to the file: {} if it must be rejected.           *)

IsAssignment(q) ==
  /\ Keyword(q) # "" /\ Count(q, "=") > 0
  /\ Count(Before(Tail(q), "="), "sp") = PositionOf(Tail(q), "=") - 1

Assigned(q) == Trim(Behind(q, "="))

AsGlobal(s, file) ==
  IF IsAssignment(s.head) /\ s.body = <<>> /\ Known(Assigned(s.head), file.global_scope)
  THEN {[file EXCEPT !.global_scope =
           Set(@, s.head[1].w, Value(Assigned(s.head), @))]}
  ELSE {}

AsRule(s, file) ==
  LET name == Words(Tail(s.head))
      vars == FoldLeft(LAMBDA vs, q : Set(vs, q[1].w, Late(Assigned(q))), <<>>, s.body)
  IN IF /\ Len(name) = 1 /\ Len(name[1]) = 1 /\ name[1][1].k = "word"
        /\ \A i \in DOMAIN s.body : IsAssignment(s.body[i])
        /\ name[1][1].w \notin DOMAIN file.rules
     THEN {[file EXCEPT !.rules = Set(@, name[1][1].w, vars)]}
     ELSE {}

AsDefault(s, file) ==
  LET names == Words(Tail(s.head))
  IN IF s.body = <<>> /\ OnlyWords(Tail(s.head)) /\ Known(s.head, file.global_scope)
     THEN {[file EXCEPT !.defaults =
              @ \o [i \in DOMAIN names |-> Value(names[i], file.global_scope)]]}
     ELSE {}

\* outputs | implicit outputs : rule inputs | implicit inputs || order-only.
IsBuild(q, file) ==
  LET left == Before(q, ":")
      right == Trim(Behind(q, ":"))
      rest == Tail(right)
  IN /\ Count(q, ":") = 1 /\ Count(q, "=") = 0
     /\ Count(left, "|") <= 1 /\ Count(left, "||") = 0
     /\ Keyword(right) \in DOMAIN file.rules \cup {"phony"}
     /\ Count(rest, "||") <= 1 /\ Count(Before(rest, "||"), "|") <= 1
     /\ Count(Behind(rest, "||"), "|") = 0
     /\ Known(q, file.global_scope)

BuildHead(q, file) ==
  LET left == Before(Tail(q), ":")
      right == Trim(Behind(q, ":"))
      rest == Before(Tail(right), "||")
      Paths(p) == LET ws == Words(p)
                  IN [i \in DOMAIN ws |-> Value(ws[i], file.global_scope)]
  IN [rule |-> right[1].w, vars |-> <<>>,
      outputs |-> Paths(Before(left, "|")),
      implicit_outputs |-> Paths(Behind(left, "|")),
      inputs |-> Paths(Before(rest, "|")),
      implicit_inputs |-> Paths(Behind(rest, "|")),
      order_only_inputs |-> Paths(Behind(Tail(right), "||"))]

\* The variables of a build, each with the meaning it has where it stands.
WithBody(b, body, file) ==
  FoldLeft(LAMBDA bs, q :
             UNION {IF IsAssignment(q) /\ Defined(Assigned(q), Scopes(c, file))
                    THEN {[c EXCEPT !.vars =
                             Set(@, q[1].w, Meaning(Assigned(q), Scopes(c, file)))]}
                    ELSE {} : c \in bs},
           {b}, body)

AsRealBuild(b, file) ==
  LET scopes == Scopes(b, file)
      M(v) == Meaning(Variable(v), scopes)
  IN IF /\ Has("command", scopes)
        /\ \A v \in {"command", "deps", "description"} : Defined(Variable(v), scopes)
        /\ Has("deps", scopes) => M("deps") \in {<<"gcc">>, <<"msvc">>}
     THEN {[file EXCEPT !.builds = Append(@,
             [inputs |-> b.inputs, implicit_inputs |-> b.implicit_inputs,
              order_only_inputs |-> b.order_only_inputs,
              outputs |-> b.outputs, implicit_outputs |-> b.implicit_outputs,
              command |-> M("command"), deps |-> M("deps"),
              description |-> M("description")])]}
     ELSE {}

AsPhony(b, file) ==
  LET phony == [targets |-> b.outputs, inputs |-> b.inputs,
                order_only_inputs |-> b.order_only_inputs,
                implicit_outputs |-> b.implicit_outputs,
                implicit_inputs |-> b.implicit_inputs,
                description |-> Meaning(Variable("description"), Scopes(b, file))]
      targets == ToSet(b.outputs)
  IN {[file EXCEPT !.phony =
          [p \in DOMAIN @ \cup targets |-> IF p \in targets THEN phony ELSE @[p]]]}

AsBuild(s, file) ==
  IF ~IsBuild(s.head, file) THEN {}
  ELSE UNION {IF b.rule = "phony" THEN AsPhony(b, file) ELSE AsRealBuild(b, file) :
                b \in WithBody(BuildHead(s.head, file), s.body, file)}

AsStatement(s, file) ==
  CASE Keyword(s.head) = "build" -> AsBuild(s, file)
    [] Keyword(s.head) = "rule" -> AsRule(s, file)
    [] Keyword(s.head) = "default" -> AsDefault(s, file)
    [] Keyword(s.head) \in {"include", "subninja", "pool", ""} -> {}
    [] OTHER -> AsGlobal(s, file)

\* The statements of lines, after those that made the file.
WithLines(lines, file) ==
  IF ~Shaped(lines) THEN {}
  ELSE FoldLeft(LAMBDA fs, s : UNION {AsStatement(s, f) : f \in fs},
                {file}, Statements(lines))

IncludedPath(s, file) ==
  Value(Words(Tail(s.head))[1], file.global_scope)

\* An include stands for the statements of the included file.
WithInclude(s, file) ==
  IF /\ Known(s.head, file.global_scope) /\ s.body = <<>>
     /\ IncludedPath(s, file) \in DOMAIN Included
  THEN WithLines(Included[IncludedPath(s, file)], file)
  ELSE {}

EmptyFile == [global_scope |-> <<>>, rules |-> <<>>, builds |-> <<>>,
              phony |-> <<>>, defaults |-> <<>>]

\* {the file that lines describe}, or {} if they describe none.
Reading(lines) ==
  IF ~Shaped(lines) THEN {}
  ELSE FoldLeft(LAMBDA fs, s :
                  UNION {IF Keyword(s.head) = "include" THEN WithInclude(s, f)
                         ELSE AsStatement(s, f) : f \in fs},
                {EmptyFile}, Statements(lines))
===============================================================================
