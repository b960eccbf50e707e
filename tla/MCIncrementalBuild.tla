-------------------------- MODULE MCIncrementalBuild --------------------------
(***************************************************************************)
(* Small instances of IncrementalBuild for TLC: lib turns a into x, and app*)
(* links x and c into y.                                                   *)
(***************************************************************************)
EXTENDS IncrementalBuild, TLC

CONSTANTS lib, app, a, c, x, y

Build(method, cmd, ins, outs) ==
  [method |-> method, cmd |-> cmd, ins |-> ins, outs |-> outs, after |-> {}]

Manifest(cc, inputs) ==
  (lib :> Build("subcmd", cc, {a}, {x})) @@ (app :> Build("subcmd", "ld", inputs, {y}))

Base == Manifest("cc", {x, c})
FewerInputs == Manifest("cc", {x})        \* app does not read c any more.
OtherFlags == Manifest("cc -O", {x, c})   \* lib is compiled with other flags.

\* A single build, with two sets of flags or as a callback.
Single(method, cmd) == lib :> Build(method, cmd, {a}, {x})
Flags == Single("subcmd", "cc")
MoreFlags == Single("subcmd", "cc -O")

\* app writes the output of lib too.
Shared ==
  (lib :> Build("subcmd", "cc", {a}, {x})) @@ (app :> Build("subcmd", "ld", {c}, {x}))

\* app is a name for lib, and y the name of no file.
Named ==
  (lib :> Build("callback", "cc", {a}, {x}))
    @@ (app :> [Build("phony", "", {}, {y}) EXCEPT !.after = {lib}])

\* x is a source of app, or what lib makes; then app only comes after lib.
ReadsSource == app :> Build("subcmd", "ld", {x, c}, {y})
ComesAfter ==
  (lib :> Build("subcmd", "cc", {a}, {x}))
    @@ (app :> [Build("subcmd", "ld", {c}, {y}) EXCEPT !.after = {lib}])

Scenario(manifests, backends, coarse, e, s) ==
  [manifests |-> manifests, backends |-> backends, coarse |-> coarse,
   edits |-> e, sessions |-> s]

TwoKinds == {"transactional", "dumb"}
AllKinds == TwoKinds \cup {"in_memory"}

AllScenarios ==
  {Scenario({Base, FewerInputs, OtherFlags}, TwoKinds, FALSE, 1, 2),
   Scenario({Flags, MoreFlags}, AllKinds, FALSE, 2, 3),
   Scenario({Flags}, TwoKinds, TRUE, 2, 2),
   Scenario({Shared}, TwoKinds, FALSE, 0, 2),
   Scenario({Shared}, TwoKinds, FALSE, 1, 1),
   Scenario({Named}, {"transactional"}, FALSE, 1, 2),
   Scenario({ReadsSource, ComesAfter}, {"transactional"}, FALSE, 1, 2)}

MissingScenarios == {Scenario({Base}, TwoKinds, FALSE, 1, 2)}
RacedScenarios == {Scenario({Flags}, TwoKinds, FALSE, 1, 1)}

\* Executor's graphs: those of the manifests.
ManifestGraphs ==
  {DependenciesIn(m) : m \in UNION {s.manifests : s \in Scenarios}}
===============================================================================
