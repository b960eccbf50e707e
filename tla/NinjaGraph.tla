------------------------------ MODULE NinjaGraph ------------------------------
(***************************************************************************)
(* From a parsed ninja file to the builds to run: ninja_to_n2o5            *)
(* (src/cli/src/ninja/convert.rs) translates the build statements one by   *)
(* one, GraphBuilder::build (src/src/graph.rs) rejects cycles, and         *)
(* resolve_targets_to_build_ids (src/cli/src/ninja/run.rs) finds the builds*)
(* behind the targets on the command line.                                 *)
(*                                                                         *)
(* A path and its FileId are the same here: GraphBuilder::add_file keeps   *)
(* them one to one.  The statements are a function from builds; a file     *)
(* lists them in some order, and the model translates them in every order. *)
(* `inputs` and `implicit_inputs` are always walked one after the other and*)
(* are one set, as are outputs and implicit outputs.                       *)
(***************************************************************************)
EXTENDS BuildGraph

CONSTANTS
  Name,         \* names of files and phony targets
  NinjaFiles,   \* the parsed files to consider; Init picks one
  TargetLists   \* the command lines to consider: sets of names

\* builds: what each build statement reads, waits for and writes.
\* phony:  what each phony target stands for.
Statement == [ins : SUBSET Name, order_only : SUBSET Name, outs : SUBSET Name]
PhonyBuild == [ins : SUBSET Name, order_only : SUBSET Name]

ASSUME NinjaFilesAssumption ==
  \A file \in NinjaFiles :
    /\ file.builds \in [BuildId -> Statement]
    /\ DOMAIN file.phony \subseteq Name
    /\ file.phony \in [DOMAIN file.phony -> PhonyBuild]
    /\ file.defaults \subseteq Name

ASSUME TargetListsAssumption == TargetLists \subseteq SUBSET Name

VARIABLES
  file,             \* ConvertCtx.ninja
  translated,       \* the statements translate_build has been called for
  deps,             \* the edges added with add_build_dep
  build_out_files,  \* the build each output was announced by, last one first
  pending_inputs,   \* the builds that wait for the producer of a file
  stage,            \* where run() of the ninja front end is
  targets,          \* the targets on the command line
  todo,             \* calls of add_target_rec still to be made
  phony_visited,
  wanted

cx == <<translated, deps, build_out_files, pending_inputs>>
resolution == <<targets, todo, phony_visited, wanted>>
vars == <<file, cx, stage, resolution>>

-----------------------------------------------------------------------------
(* rec_desugar_possible_phony: a phony name stands for what it lists.      *)

Names == INSTANCE BuildGraph WITH BuildId <- Name

Phonies == DOMAIN file.phony

PhonyIns == [n \in Name |-> IF n \in Phonies THEN file.phony[n].ins ELSE {}]

PhonyAll ==
  [n \in Name |-> IF n \in Phonies
                  THEN file.phony[n].ins \cup file.phony[n].order_only ELSE {}]

\* The files behind S when there is no list of order-only inputs to fill.
Desugared(S) == Names!Reach(PhonyAll, S) \ Phonies

\* The files behind S reached without an order-only step ...
DesugaredIns(S) == Names!Reach(PhonyIns, S) \ Phonies

\* ... and those reached through one.
DesugaredOrderOnly(S) ==
  Desugared(UNION {file.phony[p].order_only :
                     p \in Names!Reach(PhonyIns, S) \cap Phonies})

Ins(b) == DesugaredIns(file.builds[b].ins)

\* A bug: the order-only inputs behind a phony input are dropped.
OrderOnlyDirect(b) == Desugared(file.builds[b].order_only)

OrderOnly(b) ==
  DesugaredOrderOnly(file.builds[b].ins) \cup Desugared(file.builds[b].order_only)

Outs(b) == Desugared(file.builds[b].outs)

\* A phony target that leads back to itself is reachable from b: the recursion
\* has no visited set and does not end.
Diverges(b) ==
  LET stmt == file.builds[b]
      met == Names!Reach(PhonyAll, stmt.ins \cup stmt.order_only \cup stmt.outs)
  IN \E n \in met : n \in Names!Reach(PhonyAll, PhonyAll[n])

-----------------------------------------------------------------------------
(* translate_build.                                                        *)

Init ==
  /\ file \in NinjaFiles
  /\ translated = {}
  /\ deps = [b \in BuildId |-> {}]
  /\ build_out_files = <<>>
  /\ pending_inputs = <<>>
  /\ stage = "converting"
  /\ targets = {} /\ todo = {} /\ phony_visited = {} /\ wanted = {}

\* What b looks for a producer of.
Reads(b) == Ins(b) \cup OrderOnly(b)

Announced(b) ==
  [f \in DOMAIN build_out_files \cup Outs(b) |->
     IF f \in Outs(b) THEN b ELSE build_out_files[f]]

\* A bug: only one of the waiting builds is told.
WaitingForOne(b) ==
  {c \in translated : \E f \in Outs(b) \cap DOMAIN pending_inputs :
                        pending_inputs[f] = {c}}

\* The builds translated earlier that wait for an output of b.
WaitingFor(b) ==
  UNION {pending_inputs[f] : f \in Outs(b) \cap DOMAIN pending_inputs}

\* A bug: a file keeps only the last of the builds that wait for it.
StillPendingLast(b) ==
  LET unknown == Reads(b) \ DOMAIN Announced(b)
      known == DOMAIN pending_inputs \ Outs(b)
  IN [f \in known \cup unknown |->
        IF f \in unknown THEN {b} ELSE pending_inputs[f]]

\* A bug: the files b produces stay in the map of those nobody produces.
StillPendingKept(b) ==
  LET unknown == Reads(b) \ DOMAIN Announced(b)
  IN [f \in DOMAIN pending_inputs \cup unknown |->
        (IF f \in DOMAIN pending_inputs THEN pending_inputs[f] ELSE {})
        \cup (IF f \in unknown THEN {b} ELSE {})]

\* pending_inputs after b: its outputs are not waited for any more, and it
\* waits itself for what nobody has announced.
StillPending(b) ==
  LET unknown == Reads(b) \ DOMAIN Announced(b)
      known == DOMAIN pending_inputs \ Outs(b)
  IN [f \in known \cup unknown |->
        (IF f \in known THEN pending_inputs[f] ELSE {})
        \cup (IF f \in unknown THEN {b} ELSE {})]

\* A bug: the inputs are looked up before the outputs are announced.
ProducersBefore(b) ==
  {build_out_files[f] : f \in Reads(b) \cap DOMAIN build_out_files}

\* The producers of what b reads, b itself included.
Producers(b) == {Announced(b)[f] : f \in Reads(b) \cap DOMAIN Announced(b)}

TranslateBuild(b) ==
  /\ stage = "converting"
  /\ b \in BuildId \ translated
  /\ ~Diverges(b)
  /\ translated' = translated \cup {b}
  /\ build_out_files' = Announced(b)
  /\ deps' = [c \in BuildId |->
                deps[c] \cup (IF c \in WaitingFor(b) THEN {b} ELSE {})
                        \cup (IF c = b THEN Producers(b) ELSE {})]
  /\ pending_inputs' = StillPending(b)
  /\ UNCHANGED <<file, stage, resolution>>

\* The stack overflows and the process is aborted.
Overflow(b) ==
  /\ stage = "converting"
  /\ b \in BuildId \ translated
  /\ Diverges(b)
  /\ stage' = "aborted"
  /\ UNCHANGED <<file, cx, resolution>>

\* GraphBuilder::build, after the last statement.
BuildTheGraph ==
  /\ stage = "converting"
  /\ translated = BuildId
  /\ stage' = IF Acyclic(deps) THEN "converted" ELSE "ContainsCycle"
  /\ UNCHANGED <<file, cx, resolution>>

-----------------------------------------------------------------------------
(* resolve_targets_to_build_ids.  The calls of add_target_rec share both   *)
(* sets, so the model makes them in any order.                             *)

ResolveTargets(T) ==
  /\ stage = "converted"
  /\ stage' = "resolving"
  /\ targets' = T
  /\ todo' = IF T = {} THEN file.defaults ELSE T
  /\ wanted' = IF T = {} /\ file.defaults = {} THEN BuildId ELSE {}
  /\ UNCHANGED <<file, cx, phony_visited>>

\* A bug: a phony target expands every time it is met.
FirstVisitNever(n) == TRUE

FirstVisit(n) == n \notin phony_visited

\* A bug: order-only inputs are not part of a phony target.
ExpandedIns(n) == PhonyIns[n]

Expanded(n) == PhonyAll[n]

AddTarget(n) ==
  /\ stage = "resolving"
  /\ n \in todo
  /\ IF n \in DOMAIN build_out_files
     THEN /\ wanted' = wanted \cup {build_out_files[n]}
          /\ todo' = todo \ {n}
          /\ UNCHANGED phony_visited
     ELSE IF n \in Phonies /\ FirstVisit(n)
     THEN /\ phony_visited' = phony_visited \cup {n}
          /\ todo' = (todo \ {n}) \cup Expanded(n)
          /\ UNCHANGED wanted
     ELSE /\ todo' = todo \ {n}
          /\ UNCHANGED <<wanted, phony_visited>>
  /\ UNCHANGED <<file, cx, stage, targets>>

\* On to want() and run(), or "No matching builds for targets".
TargetsResolved ==
  /\ stage = "resolving"
  /\ todo = {}
  /\ stage' = IF wanted = {} /\ targets # {} THEN "NoMatchingBuilds" ELSE "resolved"
  /\ UNCHANGED <<file, cx, resolution>>

-----------------------------------------------------------------------------

Next ==
  \/ \E b \in BuildId : TranslateBuild(b) \/ Overflow(b)
  \/ BuildTheGraph
  \/ \E T \in TargetLists : ResolveTargets(T)
  \/ \E n \in Name : AddTarget(n)
  \/ TargetsResolved

Spec == Init /\ [][Next]_vars

\* One thread that does not wait for anything.
FairSpec == Spec /\ WF_vars(Next)

-----------------------------------------------------------------------------
(* What the translation guarantees.                                        *)

Stages == {"converting", "aborted", "converted", "ContainsCycle", "resolving",
           "NoMatchingBuilds", "resolved"}

\* Types; and no file is both announced and waited for.
TypeOK ==
  /\ file \in NinjaFiles
  /\ translated \subseteq BuildId
  /\ deps \in BuildGraphs
  /\ DOMAIN build_out_files \subseteq Name
  /\ build_out_files \in [DOMAIN build_out_files -> BuildId]
  /\ DOMAIN pending_inputs \subseteq Name
  /\ pending_inputs \in [DOMAIN pending_inputs -> (SUBSET BuildId) \ {{}}]
  /\ DOMAIN pending_inputs \cap DOMAIN build_out_files = {}
  /\ stage \in Stages
  /\ targets \subseteq Name /\ todo \subseteq Name
  /\ phony_visited \subseteq Phonies
  /\ wanted \subseteq BuildId

\* No file has two producers.  Ninja demands it; translate_build does not
\* check it.
OneProducer ==
  \A b, c \in BuildId : b # c => Outs(b) \cap Outs(c) = {}

\* Wherever the statements stand in the file, each translated build depends on
\* exactly the translated builds that produce one of the files it reads or
\* waits for, phony names replaced by what they stand for.
EdgesExact ==
  OneProducer =>
    \A b \in BuildId :
      deps[b] = IF b \in translated
                THEN {p \in translated : Outs(p) \cap Reads(b) # {}} ELSE {}

\* Even when files have several producers, a build waits for one of them.
NoInputForgotten ==
  \A b \in translated : \A f \in Reads(b) :
    (\E p \in translated : f \in Outs(p)) =>
      \E p \in deps[b] : f \in Outs(p)

\* Who waits for a file nobody has announced: every translated build that
\* reads it, however many there are.
PendingInputsExact ==
  \A f \in Name \ DOMAIN build_out_files :
    {b \in translated : f \in Reads(b)} =
      IF f \in DOMAIN pending_inputs THEN pending_inputs[f] ELSE {}

\* A graph is accepted exactly if an order exists in which each build comes after
\* the producers of all it reads, as long as no file has two producers: of those
\* a reader waits for one only.
AcceptedIsBuildable ==
  stage \notin {"converting", "aborted"} /\ OneProducer =>
    (stage # "ContainsCycle" <=>
       Acyclic([b \in BuildId |-> {p \in BuildId : Outs(p) \cap Reads(b) # {}}]))

\* The builds whose outputs S stands for.
BehindNames(S) == {b \in BuildId : Outs(b) \cap Desugared(S) # {}}

\* What is wanted is what the targets stand for; with no target on the command
\* line what the defaults stand for; and without defaults everything.
TargetsExact ==
  stage \in {"resolved", "NoMatchingBuilds"} /\ OneProducer =>
    wanted = IF targets # {} THEN BehindNames(targets)
             ELSE IF file.defaults # {} THEN BehindNames(file.defaults)
             ELSE BuildId

\* Asking for some names on the command line builds the same as what a build
\* that lists just those names waits for: the two walks over phony targets,
\* one with a visited set and one without, agree.
NamesMeanTheSame ==
  stage = "resolved" /\ targets # {} /\ OneProducer =>
    \A b \in BuildId :
      file.builds[b].ins \cup file.builds[b].order_only = targets =>
        deps[b] = wanted

\* The front end comes to an end, whatever phony targets lead to each other.
FrontEndEnds ==
  <>(stage \in {"aborted", "ContainsCycle", "NoMatchingBuilds", "resolved"})
===============================================================================
