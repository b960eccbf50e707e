------------------------------ MODULE NinjaParser ------------------------------
(***************************************************************************)
(* How a ninja file is read: the tokens and the Lexer of                   *)
(* src/cli/src/ninja/tokenizer.rs, the recursive descent of parser.rs, and *)
(* the scopes of model.rs in which a build statement is expanded.          *)
(*                                                                         *)
(* A file is a sequence of lines; a line says whether it is indented and   *)
(* which tokens it has.  A token has its kind and its text, and text is a  *)
(* sequence of strings: how strings are put together and how `$in` is      *)
(* quoted is left out.  All errors are one outcome.                        *)
(***************************************************************************)
EXTENDS Naturals, FiniteSets, SequencesExt

CONSTANTS
  Mains,      \* the ninja files to consider; Init picks one
  Included,   \* the files that can be included, by path
  MaxDepth,   \* bound: calls of parse_inner inside each other
  Endless     \* for the value of a variable whose expansion does not end

VARIABLES
  main,       \* the file given to parse
  lexers,     \* what the Lexer of each parse_inner call has still to return,
              \* innermost call first
  file,       \* NinjaFile
  stmt,       \* the statement being read
  line,       \* what the last eat_newlines found
  pc,         \* where the parser is
  outcome     \* what parse returned, or how it died

vars == <<main, lexers, file, stmt, line, pc, outcome>>

-----------------------------------------------------------------------------
(* Tokens.  A comment and a line continuation contain the line feed, so    *)
(* that the next line begins with its spaces, if any.                      *)

Newline == {"lf", "ilf"}
CanStartWord == {"word", "esc", "var"}
Punctuation == {":", "|", "||", "="}
InValue == CanStartWord \cup Punctuation \cup {"sp"}
TokenKinds == Newline \cup InValue \cup {"bad"}
Skipped == {"comment", "cont"}

IsFile(lines) ==
  /\ lines \in Seq([ind : BOOLEAN, toks : Seq([k : TokenKinds \cup Skipped, w : STRING])])
  /\ \A i \in DOMAIN lines : \A j \in 1 .. Len(lines[i].toks) - 1 :
       lines[i].toks[j].k \notin Skipped

ASSUME MainsAssumption == \A f \in Mains : IsFile(f)
ASSUME IncludedAssumption == \A p \in DOMAIN Included : IsFile(Included[p])
ASSUME MaxDepthAssumption == MaxDepth \in Nat \ {0}
ASSUME EndlessAssumption == Endless \notin STRING

\* Known to TLC, but not to the provers.
ASSUME LiteralsAssumption ==
  {" ", "lf", "phony", "command", "deps", "description"} \subseteq STRING

Skips(l) == l.toks # <<>> /\ Last(l.toks).k \in Skipped

Space == [k |-> "sp", w |-> " "]

LeadOf(lines, i) ==
  IF i = 1 \/ Skips(lines[i - 1])
  THEN IF lines[i].ind THEN <<Space>> ELSE <<>>
  ELSE <<[k |-> IF lines[i].ind THEN "ilf" ELSE "lf", w |-> "lf"]>>

\* Without a line feed a comment is a word and a continuation is no token.
Unended(t) ==
  IF t.k = "comment" THEN [k |-> "word", w |-> t.w] ELSE [k |-> "bad", w |-> t.w]

BodyOf(lines, i) ==
  LET toks == lines[i].toks
  IN IF ~Skips(lines[i]) THEN toks
     ELSE Front(toks) \o (IF i = Len(lines) THEN <<Unended(Last(toks))>> ELSE <<>>)

\* All the tokens the Lexer returns; `ind` is kept for IndentationSeen only.
Tokens(lines) ==
  FlattenSeq([i \in DOMAIN lines |->
    LET toks == LeadOf(lines, i) \o BodyOf(lines, i)
    IN [j \in DOMAIN toks |->
          [k |-> toks[j].k, w |-> toks[j].w, ind |-> lines[i].ind]]])

-----------------------------------------------------------------------------
(* The Lexer.  A token that peek returned stays the first; one that is no  *)
(* token of the language ("bad") is consumed by peek with its error.       *)

Kind(q) == IF q = <<>> THEN "eof" ELSE q[1].k
After(q, n) == SubSeq(q, n + 1, Len(q))

\* How many of the first tokens are of these kinds.
Run(q, kinds) ==
  CHOOSE n \in 0 .. Len(q) :
    /\ \A i \in 1 .. n : q[i].k \in kinds
    /\ Kind(After(q, n)) \notin kinds

\* skip_spaces and eat_newlines take an error of peek for the end.
Swallow(q) == IF Kind(q) = "bad" THEN Tail(q) ELSE q

skip_spaces(q) == Swallow(After(q, Run(q, {"sp"})))

\* A bug: a blank line does not end the indentation.
eat_newlines_any(q) ==
  LET n == Run(q, Newline)
      found == Kind(After(q, n)) \notin {"eof", "bad"}
  IN [rest |-> Swallow(After(q, n)),
      line |-> [indented |-> (\E i \in 1 .. n : q[i].k = "ilf") /\ found,
                found |-> found]]

eat_newlines(q) ==
  LET n == Run(q, Newline)
      found == Kind(After(q, n)) \notin {"eof", "bad"}
  IN [rest |-> Swallow(After(q, n)),
      line |-> [indented |-> n > 0 /\ q[n].k = "ilf" /\ found,
                found |-> found]]

-----------------------------------------------------------------------------
(* Text and variables.  A function from names is a Scope.                  *)

Bind(scope, name, value) ==
  [n \in DOMAIN scope \cup {name} |-> IF n = name THEN value ELSE scope[n]]

\* parse_expand_word: variables are replaced at once and must be known.
Unknown(value) ==
  \E i \in DOMAIN value :
    value[i].k = "var" /\ value[i].w \notin DOMAIN file.global_scope

Expanded(value) ==
  FlattenSeq([i \in DOMAIN value |->
    IF value[i].k = "var" THEN file.global_scope[value[i].w] ELSE <<value[i].w>>])

\* parse_noexpand_word: an Expandable.
Expandable(value) ==
  [i \in DOMAIN value |->
     [k |-> IF value[i].k = "var" THEN "var" ELSE "text", w |-> value[i].w]]

Joined(paths) ==
  FlattenSeq([i \in DOMAIN paths |->
                IF i = 1 THEN paths[i] ELSE <<" ">> \o paths[i]])

\* An input that is a phony target stands for all targets of its statement.
InFiles(ins) ==
  FlattenSeq([i \in DOMAIN ins |->
    IF ins[i] \in DOMAIN file.phony THEN file.phony[ins[i]].targets ELSE <<ins[i]>>])

Ends(value) == Endless \notin ToSet(value)

RuleVars(s) == IF s.rule = "phony" THEN <<>> ELSE file.rules[s.rule]

\* ExpansionScope::get and Expandable::expand.  With n rule variables, the
\* recursion ends before it is n + 1 deep in them or does not end.
Get(v, s) ==
  LET rule == RuleVars(s)
      get[n \in Nat] == [x \in STRING |->
        IF x = "in" THEN Joined(InFiles(s.inputs))
        ELSE IF x = "out" THEN Joined(s.outputs)
        ELSE IF x \in DOMAIN s.vars THEN s.vars[x]
        ELSE IF x \in DOMAIN rule
        THEN IF n = 0 THEN <<Endless>>
             ELSE FlattenSeq([i \in DOMAIN rule[x] |->
                    IF rule[x][i].k = "var" THEN get[n - 1][rule[x][i].w]
                    ELSE <<rule[x][i].w>>])
        ELSE IF x \in DOMAIN file.global_scope THEN file.global_scope[x]
        ELSE <<>>]
  IN get[Cardinality(DOMAIN rule)][v]

\* get(v) is not None.
Bound(v, s) ==
  v \in {"in", "out"} \cup DOMAIN s.vars \cup DOMAIN RuleVars(s)
        \cup DOMAIN file.global_scope

\* A build variable: expanded where it stands, with those before it.
Expand(value, s) ==
  FlattenSeq([i \in DOMAIN value |->
    IF value[i].k = "var" THEN Get(value[i].w, s) ELSE <<value[i].w>>])

-----------------------------------------------------------------------------
(* The parser: parse_inner, one action for each piece it takes.            *)

NoStatement ==
  [name |-> "", rule |-> "phony", vars |-> <<>>,
   outputs |-> <<>>, implicit_outputs |-> <<>>,
   inputs |-> <<>>, implicit_inputs |-> <<>>, order_only_inputs |-> <<>>]

Init ==
  /\ main \in Mains
  /\ lexers = <<Tokens(main)>>
  /\ file = [global_scope |-> <<>>, rules |-> <<>>, builds |-> <<>>,
             phony |-> <<>>, defaults |-> <<>>]
  /\ stmt = NoStatement
  /\ line = [indented |-> FALSE, found |-> FALSE]
  /\ pc = "top"
  /\ outcome = "none"

toks == lexers[1]

\* The lexer goes on with q, the parser at p.
Goto(q, p) == lexers' = <<q>> \o Tail(lexers) /\ pc' = p /\ UNCHANGED outcome

GotoNextLine(q, p) ==
  \E e \in {eat_newlines(q)} : Goto(e.rest, p) /\ line' = e.line

End(result) == outcome' = result /\ pc' = "end" /\ UNCHANGED lexers

Top ==
  /\ pc = "top"
  /\ GotoNextLine(toks, "statement")
  /\ UNCHANGED <<main, file, stmt>>

\* A bug: the lexer of an included file is not left.
IncludersKept == lexers

\* The calls that wait for the included file to end.
Includers == Tail(lexers)

EndOfFile ==
  /\ pc = "statement" /\ Kind(toks) = "eof"
  /\ IF Len(lexers) = 1 THEN End("Ok")
     ELSE lexers' = Includers /\ pc' = "top" /\ UNCHANGED outcome
  /\ UNCHANGED <<main, file, stmt, line>>

UnexpectedStatement ==
  /\ pc = "statement" /\ Kind(toks) # "eof"
  /\ line.indented \/ Kind(toks) # "word"
  /\ End("Err")
  /\ UNCHANGED <<main, file, stmt, line>>

\* Where the statement of each keyword goes on.
Keywords == [build |-> "outputs", rule |-> "rule", include |-> "include",
             default |-> "default"]

At(keywords) ==
  /\ pc = "statement" /\ ~line.indented
  /\ Kind(toks) = "word" /\ toks[1].w \in keywords

Keyword ==
  /\ At(DOMAIN Keywords)
  /\ Goto(skip_spaces(Tail(toks)), Keywords[toks[1].w])
  /\ stmt' = NoStatement
  /\ UNCHANGED <<main, file, line>>

\* subninja and pool.
NotImplemented ==
  /\ At({"subninja", "pool"})
  /\ End("Panic")
  /\ UNCHANGED <<main, file, stmt, line>>

\* What follows `name =`; {} if q is not that.
ValueTokens(q) ==
  IF Kind(q) # "word" THEN {}
  ELSE {skip_spaces(Tail(eq)) : eq \in {e \in {skip_spaces(Tail(q))} : Kind(e) = "="}}

\* `name = value`, up to the end of the line; {} if it is not that.
Assignment(q) ==
  {[name |-> q[1].w, value |-> SubSeq(v, 1, Run(v, InValue)),
    rest |-> After(v, Run(v, InValue))] :
     v \in {u \in ValueTokens(q) : Kind(After(u, Run(u, InValue))) # "bad"}}

GlobalAssignment ==
  /\ pc = "statement" /\ ~line.indented /\ Kind(toks) = "word"
  /\ ~At(DOMAIN Keywords \cup {"subninja", "pool"})
  /\ \/ \E a \in Assignment(toks) :
          /\ ~Unknown(a.value)
          /\ file' = [file EXCEPT !.global_scope = Bind(@, a.name, Expanded(a.value))]
          /\ Goto(a.rest, "top")
     \/ /\ \A a \in Assignment(toks) : Unknown(a.value)
        /\ End("Err") /\ UNCHANGED file
  /\ UNCHANGED <<main, stmt, line>>

RuleName ==
  /\ pc = "rule"
  /\ LET rest == skip_spaces(Tail(toks))
     IN IF Kind(toks) = "word" /\ Kind(rest) \in Newline
        THEN GotoNextLine(rest, "rule vars") /\ stmt' = [stmt EXCEPT !.name = toks[1].w]
        ELSE End("Err") /\ UNCHANGED <<stmt, line>>
  /\ UNCHANGED <<main, file>>

\* An indented line of a rule, or of a build.
Variable ==
  /\ pc \in {"rule vars", "build vars"} /\ line.indented
  /\ \/ \E a \in Assignment(toks) :
          LET value == IF pc = "rule vars" THEN Expandable(a.value)
                       ELSE Expand(a.value, stmt)
          IN IF pc = "rule vars" \/ Ends(value)
             THEN /\ GotoNextLine(a.rest, pc)
                  /\ stmt' = [stmt EXCEPT !.vars = Bind(@, a.name, value)]
             ELSE End("Overflow") /\ UNCHANGED <<stmt, line>>
     \/ Assignment(toks) = {} /\ End("Err") /\ UNCHANGED <<stmt, line>>
  /\ UNCHANGED <<main, file>>

\* For a rule that was there already, the error wants to tell the position of
\* the token peek returned last: without one it panics.
RuleDone ==
  /\ pc = "rule vars" /\ ~line.indented
  /\ file' = [file EXCEPT !.rules = Bind(@, stmt.name, stmt.vars)]
  /\ IF stmt.name \in DOMAIN file.rules
     THEN End(IF line.found THEN "Err" ELSE "Panic")
     ELSE Goto(toks, "top")
  /\ UNCHANGED <<main, stmt, line>>

\* The lists of paths, and which mark leads from which to which.
Marks ==
  { <<"outputs", "|", "implicit_outputs">>,
    <<"outputs", ":", "build rule">>, <<"implicit_outputs", ":", "build rule">>,
    <<"inputs", "|", "implicit_inputs">>, <<"inputs", "||", "order_only_inputs">>,
    <<"implicit_inputs", "||", "order_only_inputs">> }

EndOfHead == {"inputs", "implicit_inputs", "order_only_inputs"}
Lists == EndOfHead \cup {"outputs", "implicit_outputs", "default"}

Expected(list) ==
  CanStartWord \cup {m[2] : m \in {n \in Marks : n[1] = list}}
  \cup (IF list \in EndOfHead \cup {"default"} THEN Newline ELSE {})

Path ==
  /\ pc \in Lists /\ Kind(toks) \in CanStartWord
  /\ LET n == Run(toks, CanStartWord)
         word == SubSeq(toks, 1, n)
         rest == After(toks, n)
     IN IF Unknown(word) \/ Kind(rest) = "bad" THEN End("Err") /\ UNCHANGED <<file, stmt>>
        ELSE /\ Goto(skip_spaces(rest), pc)
             /\ IF pc = "default"
                THEN /\ file' = [file EXCEPT !.defaults = Append(@, Expanded(word))]
                     /\ UNCHANGED stmt
                ELSE /\ stmt' = [stmt EXCEPT ![pc] = Append(@, Expanded(word))]
                     /\ UNCHANGED file
  /\ UNCHANGED <<main, line>>

Mark ==
  /\ \E m \in Marks :
       pc = m[1] /\ Kind(toks) = m[2] /\ Goto(skip_spaces(Tail(toks)), m[3])
  /\ UNCHANGED <<main, file, stmt, line>>

HeadDone ==
  /\ pc \in EndOfHead /\ Kind(toks) \in Newline
  /\ GotoNextLine(toks, "build vars")
  /\ UNCHANGED <<main, file, stmt>>

DefaultDone ==
  /\ pc = "default" /\ Kind(toks) \in Newline
  /\ Goto(toks, "top")
  /\ UNCHANGED <<main, file, stmt, line>>

UnexpectedInList ==
  /\ pc \in Lists /\ Kind(toks) \notin Expected(pc)
  /\ End("Err")
  /\ UNCHANGED <<main, file, stmt, line>>

\* A bug: a rule that is not defined is not noticed.
AnyRule == STRING

KnownRules == DOMAIN file.rules \cup {"phony"}

BuildRule ==
  /\ pc = "build rule"
  /\ IF Kind(toks) = "word" /\ toks[1].w \in KnownRules
     THEN /\ Goto(skip_spaces(Tail(toks)), "inputs")
          /\ stmt' = [stmt EXCEPT !.rule = toks[1].w]
     ELSE End("Err") /\ UNCHANGED stmt
  /\ UNCHANGED <<main, file, line>>

\* expand_build.  The other optional fields are like the description.
Build(s) ==
  [inputs |-> s.inputs, implicit_inputs |-> s.implicit_inputs,
   order_only_inputs |-> s.order_only_inputs,
   outputs |-> s.outputs, implicit_outputs |-> s.implicit_outputs,
   command |-> Get("command", s), deps |-> Get("deps", s),
   description |-> Get("description", s)]

DepsTypes == {<<"gcc">>, <<"msvc">>}

BuildDone ==
  /\ pc = "build vars" /\ ~line.indented /\ stmt.rule # "phony"
  /\ LET b == Build(stmt)
     IN IF ~Bound("command", stmt) THEN End("Err") /\ UNCHANGED file
        ELSE IF ~(Ends(b.command) /\ Ends(b.description) /\ Ends(b.deps))
        THEN End("Overflow") /\ UNCHANGED file
        ELSE IF Bound("deps", stmt) /\ b.deps \notin DepsTypes
        THEN End("Err") /\ UNCHANGED file
        ELSE Goto(toks, "top") /\ file' = [file EXCEPT !.builds = Append(@, b)]
  /\ UNCHANGED <<main, stmt, line>>

\* expand_phony: the targets are the outputs before the bar.
PhonyBuild(s) ==
  [targets |-> s.outputs, inputs |-> s.inputs,
   order_only_inputs |-> s.order_only_inputs,
   implicit_outputs |-> s.implicit_outputs,
   implicit_inputs |-> s.implicit_inputs,
   description |-> Get("description", s)]

PhonyDone ==
  /\ pc = "build vars" /\ ~line.indented /\ stmt.rule = "phony"
  /\ file' = [file EXCEPT !.phony =
       [p \in DOMAIN @ \cup ToSet(stmt.outputs) |->
          IF p \in ToSet(stmt.outputs) THEN PhonyBuild(stmt) ELSE @[p]]]
  /\ Goto(toks, "top")
  /\ UNCHANGED <<main, stmt, line>>

\* What is left of the line is read after the included file.
Include ==
  /\ pc = "include"
  /\ LET n == Run(toks, CanStartWord)
         word == SubSeq(toks, 1, n)
         rest == After(toks, n)
         path == Expanded(word)
     IN IF Unknown(word) \/ Kind(rest) = "bad"
        THEN End("Err")
        ELSE IF path \notin DOMAIN Included THEN End("Panic")
        ELSE IF Len(lexers) = MaxDepth THEN End("Overflow")
        ELSE /\ lexers' = <<Tokens(Included[path]), skip_spaces(rest)>> \o Tail(lexers)
             /\ pc' = "top" /\ UNCHANGED outcome
  /\ UNCHANGED <<main, file, stmt, line>>

Next ==
  \/ Top
  \/ EndOfFile \/ UnexpectedStatement \/ Keyword \/ NotImplemented
  \/ GlobalAssignment
  \/ RuleName \/ Variable \/ RuleDone
  \/ Path \/ Mark \/ HeadDone \/ DefaultDone \/ UnexpectedInList
  \/ BuildRule \/ BuildDone \/ PhonyDone
  \/ Include

Spec == Init /\ [][Next]_vars

\* One sequential call of parse.
FairSpec == Spec /\ WF_vars(Next)

-----------------------------------------------------------------------------
(* What the parser promises.                                               *)

Format == INSTANCE NinjaFormat

Places == Lists \cup {"top", "statement", "rule", "rule vars", "build rule",
                      "build vars", "include", "end"}

\* Types, and: only a rule that is known, and has not changed, is in use.
TypeOK ==
  /\ pc \in Places
  /\ outcome \in {"none", "Ok", "Err", "Panic", "Overflow"}
  /\ (outcome # "none") <=> (pc = "end")
  /\ lexers \in Seq(Seq([k : TokenKinds, w : STRING, ind : BOOLEAN]))
  /\ Len(lexers) \in 1 .. MaxDepth
  /\ line \in [indented : BOOLEAN, found : BOOLEAN]
  /\ pc = "build vars" => stmt.rule \in DOMAIN file.rules \cup {"phony"}

\* A plain file whose includes are plain, too, is read as what it says, and
\* rejected if it says nothing: parse_inner and Lexer agree with NinjaFormat.
ParsedAsWritten ==
  pc = "end" /\ Format!Plain(main) =>
    IF outcome = "Ok" THEN Format!Reading(main) = {file}
    ELSE Format!Reading(main) = {}

\* parse comes to an end: the Lexer goes on with every step that repeats.
ParserEnds == <>(pc = "end")

-----------------------------------------------------------------------------
(* What a comment says and the code does not do.                           *)

\* tokenizer.rs:194 "return whether the next logical line is indented": a line
\* at the margin is not taken into the rule or the build above it.
IndentationSeen ==
  pc \in {"rule vars", "build vars"} /\ line.indented => toks[1].ind
===============================================================================
