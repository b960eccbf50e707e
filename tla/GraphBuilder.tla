------------------------------ MODULE GraphBuilder ------------------------------
(***************************************************************************)
(* GraphBuilder of src/src/graph.rs, and the hashes of the builds in the   *)
(* graph it makes.  Somebody has a plan, builds with paths and             *)
(* dependencies, and says it to a GraphBuilder in any order and with       *)
(* repetitions: ids and the order of edges come out differently each time, *)
(* from one session to the next.  What the database knows builds by must   *)
(* not.                                                                    *)
(***************************************************************************)
EXTENDS BuildHash, FiniteSets

CONSTANTS
  Build,    \* the builds of a plan
  Plans     \* the plans to consider; Init picks one

IsPlan(w) ==
  /\ DOMAIN w = Build
  /\ \A b \in Build : /\ w[b].command \in BuildMethods
                      /\ w[b].ins \in Seq(Text)
                      /\ w[b].outs \in Seq(Text)
                      /\ w[b].deps \subseteq Build

ASSUME BuildAssumption == IsFiniteSet(Build)
ASSUME PlansAssumption == \A w \in Plans : IsPlan(w)

VARIABLES
  plan,
  files,     \* BuildGraph.files, in the order of their ids
  nodes,     \* BuildGraph.nodes, in the order of their ids
  edges,     \* BuildGraph.graph: the dependencies of each id, as inserted
  fid, bid,  \* the ids the caller got for its paths and builds; 0 if none yet
  state      \* "building", or how build() ended: "built" or "rejected"

ids == <<fid, bid>>
gvars == <<plan, files, nodes, edges, ids, state>>

-----------------------------------------------------------------------------

GInit ==
  /\ plan \in Plans
  /\ files = <<>> /\ nodes = <<>> /\ edges = <<>>
  /\ fid = [p \in Text |-> 0]
  /\ bid = [b \in Build |-> 0]
  /\ state = "building"

Paths(b) == Range(plan[b].ins) \cup Range(plan[b].outs)

\* A bug: a path gets a new id each time it is added.
KnownNever(p) == FALSE

\* get_index_of
Known(p) == p \in Range(files)

\* A bug: the id of the file added last.
IndexOfLast(p) == Len(files)

IndexOf(p) == CHOOSE i \in DOMAIN files : files[i] = p

\* add_file and add_file_owned, for a path of the plan
AddFile(p) ==
  /\ state = "building"
  /\ \E b \in Build : p \in Paths(b)
  /\ IF Known(p)
     THEN fid' = [fid EXCEPT ![p] = IndexOf(p)] /\ UNCHANGED files
     ELSE /\ files' = Append(files, p)
          /\ fid' = [fid EXCEPT ![p] = Len(files) + 1]
  /\ UNCHANGED <<plan, nodes, edges, bid, state>>

FileIds(paths) == [i \in DOMAIN paths |-> fid[paths[i]]]

\* add_build, with the ids of its files
AddBuild(b) ==
  /\ state = "building"
  /\ bid[b] = 0
  /\ \A p \in Paths(b) : fid[p] # 0
  /\ nodes' = Append(nodes, [command |-> plan[b].command,
                             ins |-> FileIds(plan[b].ins),
                             outs |-> FileIds(plan[b].outs)])
  /\ edges' = Append(edges, <<>>)
  /\ bid' = [bid EXCEPT ![b] = Len(nodes) + 1]
  /\ UNCHANGED <<plan, files, fid, state>>

\* add_build_dep; an edge that is there already stays as it is.
AddBuildDep(b, d) ==
  /\ state = "building"
  /\ bid[b] # 0 /\ bid[d] # 0
  /\ d \in plan[b].deps
  /\ edges' = IF bid[d] \in Range(edges[bid[b]]) THEN edges
              ELSE [edges EXCEPT ![bid[b]] = Append(@, bid[d])]
  /\ UNCHANGED <<plan, files, nodes, ids, state>>

\* The edges said so far, between the builds of the plan.
Edges ==
  [b \in Build |-> {d \in Build : bid[b] # 0 /\ bid[d] \in Range(edges[bid[b]])}]

Graph == INSTANCE BuildGraph WITH BuildId <- Build

EverythingSaid ==
  \A b \in Build : bid[b] # 0 /\ Edges[b] = plan[b].deps

\* build(), once the caller has said everything: it rejects a cycle.
Finish ==
  /\ state = "building"
  /\ EverythingSaid
  /\ state' = IF Graph!Acyclic(Edges) THEN "built" ELSE "rejected"
  /\ UNCHANGED <<plan, files, nodes, edges, ids>>

GNext ==
  \/ \E p \in Text : AddFile(p)
  \/ \E b \in Build : AddBuild(b)
  \/ \E b, d \in Build : AddBuildDep(b, d)
  \/ Finish

GSpec == GInit /\ [][GNext]_gvars

-----------------------------------------------------------------------------
(* The hashes run_build computes from the graph.                           *)

Node(b) == nodes[bid[b]]

\* lookup_path
PathsOf(fileIds) == [i \in DOMAIN fileIds |-> files[fileIds[i]]]

hash_build(b) == BuildBytes(Node(b).command, PathsOf(Node(b).outs))

\* Its inputs, then the outputs of its dependencies as the edges come.
InputPaths(b) ==
  PathsOf(Node(b).ins)
    \o FlattenSeq([i \in DOMAIN edges[bid[b]] |->
                     PathsOf(nodes[edges[bid[b]][i]].outs)])

hash_input_set(b) == InputBytes(InputPaths(b))

-----------------------------------------------------------------------------
(* What they promise.                                                      *)

Occurrences(p, paths) == Cardinality({i \in DOMAIN paths : paths[i] = p})

\* How often the plan has each path among the inputs of b and the outputs of
\* what it depends on.
InputBag(b) ==
  [p \in Text |-> Occurrences(p, plan[b].ins)
                  + MapThenSumSet(LAMBDA d : Occurrences(p, plan[d].outs),
                                  plan[b].deps)]

\* Types; ids are indices, and no path has two.
GTypeOK ==
  /\ plan \in Plans
  /\ files \in Seq(Text)
  /\ \A i, j \in DOMAIN files : files[i] = files[j] => i = j
  /\ nodes \in Seq([command : BuildMethods, ins : Seq(DOMAIN files),
                    outs : Seq(DOMAIN files)])
  /\ edges \in Seq(Seq(DOMAIN nodes)) /\ Len(edges) = Len(nodes)
  /\ fid \in [Text -> {0} \cup DOMAIN files]
  /\ bid \in [Build -> {0} \cup DOMAIN nodes]
  /\ state \in {"building", "built", "rejected"}

Added == {b \in Build : bid[b] # 0}

\* Two places in the nodes have the same FileId exactly if the plan has the
\* same path there: maps keyed by FileId, such as those of convert.rs, are
\* maps keyed by path.
IdsFaithful ==
  \A b, c \in Added :
    \A i \in DOMAIN plan[b].ins, j \in DOMAIN plan[c].outs :
      Node(b).ins[i] = Node(c).outs[j] <=> plan[b].ins[i] = plan[c].outs[j]

\* In whatever order files and builds were added, a build has the hash of its
\* command and of its outputs' paths: the next session finds its record.
HashLayoutFree ==
  \A b \in Added : hash_build(b) = BuildBytes(plan[b].command, plan[b].outs)

\* Builds with the same hash have the same command and the same outputs in the
\* same order, as long as no argument is the text "out": `x` with the outputs
\* out, y has the hash of `x out` with the output y.
SameHashSameBuild ==
  \A b, c \in Added :
    /\ hash_build(b) = hash_build(c)
    /\ \A d \in {b, c} : "out" \notin Range(plan[d].command.args)
    => plan[b].command = plan[c].command /\ plan[b].outs = plan[c].outs

\* Two builds have the same input digest exactly if each path is as often among
\* their inputs and their dependencies' outputs, in whatever order.
InputDigestExact ==
  state = "built" =>
    \A b, c \in Build :
      hash_input_set(b) = hash_input_set(c) <=> InputBag(b) = InputBag(c)
===============================================================================
