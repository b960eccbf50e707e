# A model of n2o5 in TLA+

n2o5 is a build system as a library: a graph of builds, an executor that runs
it on a thread pool, a database that remembers what was built when, and a
command line that reads a subset of ninja files. The modules here model the parts
of it that decide *what runs, when, and whether it has to*, and say what they
guarantee. Paths below are those of the repository.

## The system

| Component | State | Operations | Talks to |
|---|---|---|---|
| Executor, `src/exec.rs` (`Executor`) | table of build states with a count of pending inputs; set of builds ready to start; `running`, `finished`, `failed`; `build_started` | `want`, `run` (`run_inner`, `start_build`, `build_finished`) | spawns tasks on a rayon pool; one mpsc channel per `run` |
| Tasks, `src/exec.rs` (`run_build`) | local to the thread | `stat_node`, `World::execute`, `write_build`, `invalidate_build`, one `send` | world, database, channel |
| Build graph, `src/graph.rs` | nodes, interned files, edges consumer -> dependency | `GraphBuilder::add_*`, `build` (rejects cycles), lookups | read by all |
| Hashes, `src/graph/hash.rs` | none | `hash_build` (command and outputs), `hash_input_set` (multiset of inputs) | keys and digest in the database |
| World, `src/world.rs` | the file system, the clock | `exists`, `mtime`, `now`, `execute` | called from tasks |
| Database, `src/db*`, `crates/` | `BuildInfo` by hash, `FileInfo` by path | read and write transactions | called from tasks |
| Ninja parser, `cli/src/ninja/{tokenizer,parser,model}.rs` | a lexer per open file; scopes, rules and statements read so far | `parse`, `parse_inner` and what it calls; `ExpansionScope::get` | front end |
| Ninja front end, `cli/src/ninja/{convert,run}.rs` | parsed file; producers and waiting lists; wanted builds | `ninja_to_n2o5`, `resolve_targets_to_build_ids`, `run` | graph, executor |
| Progress, `src/progress*` | what the console shows of the counters handed over by the executor | `prepare`, `build_started`, `build_finished`, `finish` | called from the caller's thread |

What makes it hard: results come back in any order while the caller's thread
both starts builds and takes results; a run ends early on the first failure or
I/O error with tasks still in flight; tasks may panic; the file system changes
while it is looked at; the process may be killed anywhere, and the next
session starts from what the database and the disk hold, perhaps with another
manifest; statements of a ninja file come in any order.

What makes each part correct:

* executor: a build starts once, after all it depends on, within the limit;
  its bookkeeping is exact whatever the order; nothing is lost; it ends;
* tasks and database together: what counts as up to date *is* what the command
  would make now; a session leaves everything fresh; the next has nothing to do;
* database: a reader, and the next process, never see half a transaction;
* graph and hashes: an id stands for one path, a hash for one command with its
  outputs, however and in whatever order they were added;
* parser: what is accepted is what the lines say, with each variable as it is
  where it is used; parsing ends;
* front end: the edges and the wanted builds are those the file means, in
  whatever order it says it.

`PROJECT.json` lists the places where this can go wrong ("hazards"), each with
the properties that watch it, or why none does yet.

## The modules

| Module | Models |
|---|---|
| `BuildGraph` | edges, their two directions, reachability, acyclicity (no variables) |
| `Executor` | the executor, the pool's tasks reduced to their result, the channel |
| `Progress` | extends `Executor`: the calls of the progress reporter and what the consoles show |
| `Schedule` | abstract: jobs start once, after their needs, at most `Limit` at a time |
| `ExecutorProof` | the theorems about `Executor` |
| `ProgressProof` | the theorems about `Progress` |
| `BuildHash` | the bytes that are hashed for a build and for its inputs (no variables) |
| `GraphBuilder` | ids of files and builds, edges, rejection of cycles; the hashes of the result |
| `GraphBuilderProof` | the theorems about `GraphBuilder` and `BuildHash` |
| `FoldLemmas` | induction on sets, and what `FoldLeft`, `MapThenSumSet` and `FlattenSeq` compute |
| `IncrementalBuild` | extends `Executor`: what tasks do to files and database, over sessions |
| `IncrementalBuildProof` | the theorems about what the records say, over all sessions, and about what an undisturbed session leaves |
| `BuildDb` | the transactions of the four databases |
| `RecordStore` | abstract: one record for each build, written in one step, and readers who are told what it was when they began |
| `BuildDbProof` | the theorems about `BuildDb` |
| `NinjaParser` | tokens, lexer, parser and scopes of ninja files |
| `NinjaParserProof` | the theorems about `NinjaParser` |
| `NinjaFormat` | reference: what the lines of a ninja file say (no variables) |
| `NinjaGraph` | translation of ninja statements and resolution of targets |
| `NinjaGraphProof` | the theorems about `NinjaGraph` |
| `MC...` | constants of the instances TLC checks |

A definition has the name of what it models where it can; `PROJECT.json` "map"
gives the lines of each. Definitions commented "A bug:" are not the code: each
is a plausible mistake put in the place of the definition after it, to see that a
property notices.

### Executor

The caller's thread has a program counter: `idle` (`build_started` is false),
`start` (top of the loop in `run_inner`), `recv` (in `rx.recv()`), `join` (left
the loop, waiting in `in_place_scope`), `returned` or `panicked`. `StartBuild`
is one round of the `while` loop with `start_build`; `LeaveLoop`, `Stall` and
`Wait` are the three ways on from there; `ReceiveSuccess`, `ReceiveFailed` and
`ReceiveErr` are `build_finished` from the message to its end, panics included;
`Join` is the rest of `run`. A task is `spawned`, `executing`, then `done` with its
message in the channel, or `panicked` without one. `Want` is a whole call of
`want`: its traversal, which does not pass through builds tracked already, is
a reachability set. `pending` is popped at its end in the code, where insertion
order depends on petgraph's iteration; the model pops any element.

`Progress` adds the reporter, whose calls are all on the caller's thread:
`prepare` with `Run`, `build_started` with `StartBuild`, `build_finished` at the
end of a received result, `finish` with a `Join` that is Ok. It keeps what was
last reported of each build and the numbers of the printed line and of the bar.
A reporter that panics is left out.

### BuildHash and GraphBuilder

`BuildHash` has what is fed to the hasher, as a sequence of chunks that end with
a NUL byte, and the three sums over inputs; xxh3 is taken to have no collisions,
so a hash is what was hashed. `GraphBuilder` is a caller with a plan (builds
with paths and dependencies) that says it to the builder in any order: `AddFile`,
`AddBuild`, `AddBuildDep`, then `Finish`, which is `build`. Ids come out
differently from one order to the next, and the hashes must not.

### IncrementalBuild

Uses `Executor`'s actions as they are and gives each task its place in
`run_build`: one action per call of `exists` and of `mtime` (so files can change
between them), one for each verdict, the command's reading, half-way writing,
success and failure, one transaction to record or to invalidate, and the send.
`Edit` and `Remove` are other people; `Finish` and `Kill` end a session, after which
the database is what its kind leaves (`DbAfter`) and the manifest may be another.
A task reads the database through `view`, its snapshot from `begin_read` to the
verdict; in `DumbDb` and `InMemoryDb`, which hold a lock for that long, nobody
records meanwhile (`Writable`). A build has a method: a command, a callback,
which may panic and reports `UpToDate`, or a phony build, which does nothing.
Content is symbolic: an output is the record of the command and of
its inputs' contents, so "fresh" can be said exactly. The clock moves at every
change of a file and every `now()` in `write_build`; in a scenario with coarse
times it may stay where it is (`Now`).
A transaction that writes is one step here; that it may be is what `BuildDb`
shows. A hash is the data it depends on; that it may be is what `GraphBuilder`
shows. A callback's panic is the only one here; `Executor` has it at every point.

### BuildDb

One map under an `RwLock`, written in place (`in_memory`, `dumb`), or a root
with snapshots and an uncommitted copy (`redb`, `heed`). Each `get` and `set`
is a step, a client may panic between any two, and the process may be killed
anywhere, in the middle of `DumbDbInner::drop` too. `Reset` empties the tables in
a write transaction of its own. A read of heed may answer that there is no entry
when there is one (`Answers`): it turns errors into `None`. Nobody in the model breaks
off a write transaction without a panic; nor does the code.

`RecordStore` has no lock, copy, entry or file. `ImplementsRecordStore` says that
`BuildDb` implements it: `records` are the versions last committed (`latest`); a
reader's record is that version under the lock, where nobody can write meanwhile,
and its snapshot elsewhere (`Found`), and it has been told the set of what its `get`s
returned; `disk` is the BuildInfo of each build in the file. So `begin_read` is
`Begin`, a `get` is `Tell`, `commit` and `reset` are `Record` and `Clear`, and
opening a write transaction, writing an entry and panicking are nothing at all.

### NinjaGraph

`TranslateBuild` is `translate_build` for one statement; statements are taken in
every order. Desugaring of phony names is a reachability set over names, in the
three forms the code's recursion takes (inputs only, order-only, everything), and
`Overflow` is the recursion without end. `AddTarget` is one call of
`add_target_rec`; the calls share their two sets, so they may come in any order.

### NinjaParser

A file is a sequence of lines with their tokens; `Tokens` is what the lexer makes
of them, with the two tokens that contain a line feed (comments and
continuations) skipped as in `next_inner`. `lexers` is the stack of open files,
one for each `parse_inner`. A place `pc` is a point between two pieces of a
statement: `Top` eats line feeds, `Keyword` enters a statement, `Path` and `Mark`
take the lists of a build line, `Variable` an indented line, and `RuleDone`,
`BuildDone`, `PhonyDone`, `DefaultDone` and `GlobalAssignment` end a statement.
An error of the lexer is the token `bad`: `skip_spaces` and `eat_newlines` swallow
it, everything else fails on it. All errors are `Err`; `Panic` and `Overflow` are
kept apart (`todo!`, a missing include, a rule defined twice at the end of the
file; rule variables or files that contain themselves). `Get` is
`ExpansionScope::get` with the recursion through rule variables.

`NinjaFormat` does not look at the parser: it joins and groups the lines into
statements, takes each apart by the positions of its marks, and gives variables
a meaning by rewriting. It leaves undefined (`Plain`) what the parser is known to
read in its own way: bytes that are no token, comments other than whole lines
at the margin above a line at the margin, indentation before the first statement,
and something behind the path of an `include`.

## What TLC checks

| Run | Instance | Shows |
|---|---|---|
| `executor` | `Progress`, 4 builds, an acyclic graph of each shape, 0 to 3 slots, 2 calls of `run`, fair | types and no underflow; exact counters and pending sets; dependencies first; the limit; no "This is a bug" panic; nothing lost; no send to a dropped receiver; Ok means built; a build gets one task; refinement of `Schedule`; the inductive invariant; what is reported is what happened, and the bar is ahead by one after a result; `run` ends unless a build was lost, without slots by the stall panic |
| `incr` | seven scenarios, below | vouched is fresh; a session makes fresh; the second build is a no-op; looking at files one by one is like looking at all at once |
| `graph_builder` | 3 builds; pairs of 24 commands with outputs, and of lists of inputs with repetitions and dependencies | ids stand for paths; hashes do not depend on the order; they separate builds and input sets |
| `build_db` | 2 clients, 2 builds, 3 outputs, 2 versions, 4 databases | all-or-nothing reads and disk, but for heed's missing answers; committed data stays; refinement of `RecordStore` |
| `ninja_parser` | files of up to 3 pieces out of 21 behind 2 beginnings, 2 files to include, fair | what is accepted is what the lines say, and only that; parsing ends |
| `ninja_graph` | every file of 3 statements out of 8, 4 tables of phony and default targets, 4 command lines, fair | edges, waiting lists, acceptance, targets; the front end ends |

The scenarios of `incr`: (1) `lib` and `app`, where `app` reads what `lib` writes,
with three manifests (an input less, other flags), one edit, two sessions; (2) one build
with two command lines, all three kinds of database, two edits, three sessions;
(3) one build with coarse times; (4, 5) two builds that write the same file; (6) a
callback behind a phony build that names a file nobody writes; (7) a source that becomes
the output of another build, after which the reader only comes after that build, and
back. Each has kills, and removals where it has edits.

Bounds. Four builds contain every shape the bookkeeping tells apart: a chain, a
diamond, two consumers of one dependency, two dependencies of one consumer,
an independent build while another fails. Nothing in the executor tells builds apart but
their edges, so one graph of each shape stands for all its renamings. Two slots make results overtake each
other and leave a third build waiting. Two runs show what the first leaves to
the second, a third would meet nothing new: `run` resets only the channel. Two
sessions with an edit are the least in which a record can be stale;
three sessions and two edits let a manifest change and change back around a
kill. Two clients are a writer with a reader or another writer. Three builds
with lists of at most two paths are enough for an argument or a name to be
taken for an output, and for one input to be counted twice.
Three pieces behind a rule are enough for a build between two values of a
variable it uses, and for a comment or blank line between any two others.

Six runs look for, and find, places where the code does not do what a comment of
it says (PROJECT.json, "findings"):

* `exec_skip`: consumers of a failed build are not marked skipped; the search
  follows edges towards dependencies (`exec.rs:398`).
* `exec_first`: after the first failure `run` returns with builds still `Started`, whose
  results are dropped, and with builds that could be started (`exec.rs:311`; line 109 says
  that progress is made until all are finished, and a TODO in line 270 that the remaining
  messages are to be processed).
* `exec_panic`: a task that panics leaves `run` waiting for ever.
* `incr_raced`: an input edited while the command runs is not noticed later
  (`last_start` is the time the record is written).
* `ninja_indent`: a line at the margin below an indented comment is read into the
  rule above it (`eat_newlines`).
* `incr_missing`: a build with a changed input runs although another is missing.

The properties that hold are stated with these in mind. `RunReturns` excepts
lost builds. `VouchedIsFresh` and `SessionMakesFresh` except a build that is
`Blind`: somebody else (an editor, or another build with the same output) changed
one of its files after its command used it, and at a time not later than the
one that was recorded; with coarse times, also in the same tick. They also except a
build whose record is `Mistaken`: it was made of other inputs, and the digest is the
same all the same, because it adds up inputs and outputs of dependencies and does not
say which is which (`hash.rs:66`). Scenario 7 has such records: without the exception
both properties fail. Where two
builds write the same file only one can be fresh, and two builds of one hash share
a record, so `SessionMakesFresh` and `SecondBuildIsNoOp` speak of builds that are
`Alone` with their outputs and their hash. A phony build is found outdated as long
as the files it names do not exist, and costs nothing. `LooksAtOnce` is about times that
tell changes apart: with coarse ones a file may be written in the tick that is compared.
`SameHashSameBuild` excepts commands with the argument `out`, which `hash_build` feeds
to the hasher just as the mark before the outputs.

Fairness. The caller's thread is weakly fair in `run`: the operating system
schedules it. Each task is weakly fair: the pool has a thread for each of the
at most `parallelism` live tasks, and commands are assumed to end. Calling
`want` or `run` is up to the user and not fair. The front end is one
sequential thread. `IncrementalBuild` and `BuildDb` are checked for safety only.

Deadlock checking is off where the program really stops: a returned or hung
executor, and a finished front end. In `BuildDb` a database can always be opened
again, and TLC checks that nothing blocks. `parse` is one sequential call.

## What is proved

`ExecutorProof` proves, for every finite set of builds, every set of acyclic
graphs, every parallelism and every number of runs: `TypeOK` (hence no
underflow), `CountersExact`, `PendingExact`, `DepsBuiltFirst`,
`ConcurrencyBound`, `MainNeverPanics`, `NothingLost`, `SendNeverFails`,
`OkMeansBuilt`, `BuiltOnce`, and that `Executor` implements
`Schedule`. Its assumptions are those named in the modules: `BuildId` is
finite, the graphs are acyclic (`GraphBuilder::build` rejects the others), and
parallelism is a natural number.

None of the properties is inductive. `IInv` adds what ties the parts
together: the tracked set is closed under dependencies (`TrackedClosed`); a task
exists exactly from `start_build` on, and a result is in the table only after the
task is done (`TaskMatchesKind`); what was started had all dependencies
built (`BuiltInOrder`); the channel holds at most one message per build, of a
started build whose task is done (`ChannelExact`); what the caller's thread knows
at each place (`CallerExact`); and `NeverSkipped`: since a failed build's
dependencies have all finished, the search that skips finds nothing, which is why
`failed` counts right although the search goes the wrong way. The delicate
step is `ReceiveSuccess`: the counts of consumers fall by one exactly because
the build leaves their sets of unbuilt dependencies, and a tracked consumer
cannot have finished before. `MainNeverPanics` needs that a nonempty
set of unfinished builds contains one whose dependencies are all built (from
`Acyclic`), so the stall panic cannot be reached with a slot free.
Of `RunReturns` it proves all that is not liveness: `RunGoesOn`, that each step but the
user's calls lowers a natural number (`WorkLeft`: what the live tasks, the messages
and the caller's thread have still to do), and `WaitsAreAnswered`, that `run` waits
with no message and no live task only if a build was lost, in the first run by a
task's panic.

`ProgressProof` proves that the executor with a reporter is the executor, so the
theorems above hold of it; `ReportsExact`, with the executor's invariant and what
has been told of each build (`Told`, `SessionTold`, `Shown`); and `ReportedInOrder`:
each build is reported started once and then finished once at most, and nothing is
reported finished after a failure (the results that come later are dropped).

`BuildDbProof` proves the properties of `BuildDb` for every set of clients,
builds, outputs and versions. `DbInv` says at each moment which map is whole:
the shared map unless the lock has a writer or is poisoned; under a writer, the
entries it has still to write are old and the others new; copies and
snapshots likewise. From it follows that `BuildDb` implements `RecordStore`, action by
action: what a reader has been told of a whole map is one version, a commit turns a
map that is half as before into one that is whole, and no reader notices.

`GraphBuilderProof` proves, for all texts, plans and orders, that ids stand for
paths and that `hash_build` does not depend on the order (from `IdsStandForPaths`:
a node has the ids of the paths its build has in the plan), and that
the bytes of two builds are equal only if method, name, arguments and outputs
are, with the exception above: the first mark of one sequence
is found at the same place in the other. It also proves `InputDigestExact`: two digests
are equal exactly if each path is equally often among the inputs and the dependencies'
outputs. That needs that the edges stand for the dependencies of the plan, none of
them twice (`EdgesStandForDependencies`), and what a fold over the paths adds up
(`DigestCountsPaths`). The library's induction theorems are about operators, which
the provers cannot instantiate; `FoldLemmas` proves induction for the *set* of numbers,
or of subsets, that have a property, which they can, from the well-foundedness of
`<`, and with it what the recursions behind the folds of the community modules compute.

`NinjaGraphProof` proves every invariant of `NinjaGraph`, for every set of files,
names, statements and command lines; with several producers of a file too, where a
property does not except them. `NGInv` adds that `build_out_files` has exactly the outputs
of the translated statements (`AnnouncedExact`), that every edge is between
translated statements and leads to a producer (`EdgesSound`), and, while targets
are resolved, that what was asked for and what the phony targets met so far list
is settled or still to do, and nothing else was met (`ResolutionExact`). The
delicate step is `TranslateBuild`: a file announced for the first time has just its waiting
readers in `pending_inputs`, so they all get their edge, and a file announced
before has given them theirs. When nothing is left to do the settled names are
a closed set that contains what was asked for, so they contain everything
reachable from it; that is `TargetsExact`. `NamesMeanTheSame` follows from a lemma
on walks: taking the order-only inputs behind a phony name apart loses none.
`FrontEndGoesOn` is what `FrontEndEnds` rests on: each step goes on to a later stage,
translates a statement more, visits a phony name more or has a name less to add.
`AcceptedIsBuildable` is proved in both directions and for every stage after the
translation. `FrontEndHandsOver` is where the two halves of n2o5 meet: what `run` passes
to the executor is an acyclic graph and a set of its builds, as `ExecutorProof`
assumes, and "No matching builds" is the answer exactly to targets no
build is behind.

`NinjaParserProof` proves, for every file, whatever it includes and however deep, that
the parser's state has its types, the tokens of every lexer among them; that from
its rule's name on a build statement has a rule that is defined, for which
`ParserInv` adds the places between; that no rule is lost or changed while the
parser goes on (`RulesStay`); and what `ParserEnds` rests on (`ParserGoesOn`): each step
ends the parsing or leaves one call of `parse_inner` less to do and the calls around it
no more, counted in tokens and, at one token, in places. `NothingLeft` adds to the
invariant what each lexer reads: what it has left is an end of the main file or of an
included one, so `Ok` means that all of them were read to the last token, and
`TokensInOrder` is the same of a step. `AssignmentsAsWritten` is a part of
`ParsedAsWritten` for lines of every length: the assignment the parser finds going from
left to right, a name, spaces, `=`, spaces, the value, is the one `NinjaFormat` finds by
the position of the first `=`; it is taken to the last token of the line, and refused
exactly if `NinjaFormat` refuses it, unless the line has bytes that are no token, which
`skip_spaces` swallows.

`BuildsAsWritten` is the part of `ParsedAsWritten` about variables of builds and rules.
`ExpansionScope::get` looks a variable up inside the value of another, which `Get` follows
to a depth of as many variables as the rule has; `NinjaFormat` looks for the nearest
of four scopes and rewrites a value until no variable is left. `ExpandedAsWritten` says
that they end for the same values and with the same text, with any scopes of which the
rule's is finite. Both are iterations of one substitution: replacing the variables of a
value and then those of the result is replacing them with what they were replaced with
(`SpreadTwice`), so rewriting from outside in and looking up from inside out agree after
as many rounds (`ExpansionsAgree`). The depth is enough because the set of variables
whose value has ended grows with each level until it does not grow at all, so not for
longer than there are variables (`GrowthEnds`). That the values really have this form when
the parser looks at them is the invariant `ValuesKnown`: scopes are finite, values
of rules are pieces of text and variables, all others are text without
the mark for an expansion that does not end. From both follows that a complete
build statement, a complete phony statement and a line below a build do what
`NinjaFormat` says (`BuildAsWritten`, `PhonyAsWritten`, `BodyAsWritten`).

The module's assumptions are that
the files are sequences of lines with tokens, where only the last of a line can be
one that takes the line feed with it (`MainsAssumption`, `IncludedAssumption`), that a
call can be made (`MaxDepthAssumption`), that the literals in the model are
strings (`LiteralsAssumption`), which the provers do not know, and that the mark for an
expansion that does not end is not text (`EndlessAssumption`).

`IncrementalBuildProof` proves `VouchedIsFresh` for every set of files and builds,
every scenario and any number of sessions and edits. What `VouchedIsFresh` says of
one database and one manifest is not inductive: the next session may have the other
database or another manifest. `VInv` therefore speaks of both databases (`db`, `saved`)
and of all manifests of the scenario: a database that would find a build
of a manifest up to date tells the truth about its files as they are now, or has
a record that is `Excused` (`Honest`): blind, or made of other inputs than the build has in
that manifest. An output is recorded with the build that made it and
not later than that (`Recorded`); and a command's product is what the command makes of
the inputs, unless somebody else changed its files meanwhile (`TaskHonest`). Writing a
file keeps this because a record the file is not newer than becomes blind; recording
a build because the task was honest and because two builds with one hash and one list
of inputs make the same. The database stores the digest only, so the record of the model
also keeps the inputs, as a history field (`read`) that no action looks at.
The one assumption, beside the types, is that the manifests' graphs
are acyclic (`ManifestGraphsAssumption`). The module also proves that each
session is a behaviour of `Executor` (`SessionSteps`, `SessionBegins`), so `IInv`
holds in all of them, and `ITypeOK`.

It also proves `SessionMakesFresh` and `SecondBuildIsNoOp`. `SInv` follows
a build that is alone through a session in which nobody edits: what `stat_node`
has found of the files looked at so far is so still, and its snapshot agrees with the
database on the entries of the build (`Stat`); what the command has made is still
what it makes (`Made`); once the task has a success to report, its build is fresh
and would be found up to date (`Kept`). Other tasks do not disturb it: they
write other outputs and other records, and what produces its inputs has ended, by
`BuiltInOrder`. So the order in which the executor starts builds is what
makes a session consistent, and the proof rests on that of `Executor`.

`StatLooksAtOnce` proves `LooksAtOnce`. The history variable `sound` is the set of the files
of a build that were as recorded when its read transaction began. Whatever happens
meanwhile, a file keeps its time, is removed or gets a time later than all before
(`TimeGoesOn`), and the snapshot has no time of the future; so a file that passes now passed
then, and those that were looked at already did too (`Looking`). Other builds' steps
leave the snapshot and the place of this one alone (`ElsewhereStep`).

What is only model-checked. Liveness (`RunReturns`, `FrontEndEnds`, `ParserEnds`): fairness
and `ENABLED` are out of TLAPS's reach, so the theorems stop at measures that each step
lowers and at what can be waited for. And `ParsedAsWritten` as a whole: that assignments,
what variables mean and what a complete build adds agree with `NinjaFormat` is proved,
step by step. How a file is taken apart is not: `NinjaParser` finds the statements, the
lists of paths and the words in them from left to right, `NinjaFormat` by the
positions of marks, with definitions that recur over the whole file, and to
relate them for all files is induction over the data throughout.

## Not modelled

Positions and messages of parse errors, the quoting of `$in`, the byte layouts of
database records (`codec.rs`: serialisation without state), the texts progress
reporters print, `stdout_line` and `get_schema_version` (never called), command-line
parsing, depfile, dyndep and response files (the code rejects or ignores
them), and `additional_inputs` (always empty).

## Plan

1. Done: all modules and proofs named above. Every invariant and action property
   TLC checks is proved, but for `ParsedAsWritten`.
2. Left: of `ParsedAsWritten`, how a file is taken apart into statements, and the head of a
   statement into paths.
3. Left: the record layouts of `codec.rs`, once something reads records of another
   version; the reporter of `Progress`, once reporters may fail.
