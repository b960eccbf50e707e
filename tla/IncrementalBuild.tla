--------------------------- MODULE IncrementalBuild ---------------------------
(***************************************************************************)
(* What run_build (src/src/exec.rs) does to files and to the build         *)
(* database, over several sessions of the tool: stat_node decides whether a*)
(* build is up to date, World::execute runs its command, write_build or    *)
(* invalidate_build records the outcome.  The caller's thread is that of   *)
(* module Executor, whose actions are used as they are; here a task also   *)
(* has its place in run_build.  Meanwhile somebody edits and removes files,*)
(* the process may be killed at any point, and the next session may come   *)
(* with a changed manifest.                                                *)
(***************************************************************************)
EXTENDS Executor, Functions

\* A scenario: the manifests a session may read, the implementations of ExecDb,
\* whether times are coarse, and two bounds: `edits`, how often somebody edits
\* or removes a file, and `sessions`, how often the tool is started.
CONSTANTS File, Scenarios

\* A manifest has the BuildNodes of a graph, and for each build the builds it
\* is to come after, besides those that write its inputs.
IsManifest(m) ==
  /\ DOMAIN m \subseteq BuildId
  /\ \A b \in DOMAIN m : /\ m[b].method \in {"subcmd", "callback", "phony"}
                         /\ m[b].ins \subseteq File /\ m[b].outs \subseteq File
                         /\ m[b].after \subseteq DOMAIN m

ASSUME ScenariosAssumption ==
  \A s \in Scenarios :
    /\ \A m \in s.manifests : IsManifest(m)
    /\ s.backends \subseteq {"transactional", "dumb", "in_memory"}
    /\ s.coarse \in BOOLEAN
    /\ s.edits \in Nat /\ s.sessions \in Nat

VARIABLES
  scenario,
  manifest,   \* the manifest of this session
  mtime,      \* modification time of each file; 0 if it does not exist
  content,    \* what each file holds
  clock,      \* World::now
  backend,    \* which ExecDb is in use
  db,         \* the build database as this process sees it
  saved,      \* the database file of DumbDb
  stage,      \* where the task of each build is in run_build
  view,       \* what the read transaction of each task sees of its entries
  todo,       \* the files a loop of stat_node has still to look at
  at,         \* {f} between World::exists(f) and World::mtime(f), else {}
  product,    \* what a running command makes of the inputs it has read
  edits, sessions,
  edited,     \* history: has a file been edited since the session began?
  raced,      \* history: builds of this session one of whose files somebody
              \* else changed after the command read or wrote it
  blind,      \* history: the records, by hash and time, that do not tell of
              \* a change of their files
  sound       \* history: the files of each build that were as recorded when
              \* the read transaction of its task began

disk == <<mtime, content, clock>>
database == <<backend, db, saved>>
local == <<stage, view, todo, at, product>>
env == <<scenario, manifest, edits, sessions>>
history == <<edited, raced, blind, sound>>
ivars == <<vars, disk, database, local, env, history>>

-----------------------------------------------------------------------------
(* The nodes of the graph.                                                 *)

Ins(b) == manifest[b].ins
Outs(b) == manifest[b].outs

\* The edges the caller adds with add_build_dep: a build depends on the builds
\* that produce the files it reads.
DependenciesIn(m) ==
  [b \in BuildId |->
     IF b \in DOMAIN m
     THEN m[b].after \cup {d \in DOMAIN m : m[d].outs \cap m[b].ins # {}} ELSE {}]

\* What is run and what it writes; GraphBuilder has it in full.
HashIn(m, b) == <<m[b].method, m[b].cmd, m[b].outs>>

hash_build(b) == HashIn(manifest, b)

\* How often each file is accumulated: once as an input, and once for every
\* dependency that produces it.
DigestIn(m, g, b) ==
  [f \in File |->
     (IF f \in m[b].ins THEN 1 ELSE 0)
     + Cardinality({d \in build_dependencies(g, b) : f \in m[d].outs})]

hash_input_set(b) == DigestIn(manifest, graph, b)

\* GraphBuilder::build accepted the graphs.
ASSUME ManifestGraphsAssumption ==
  \A s \in Scenarios : \A m \in s.manifests : DependenciesIn(m) \in Graphs

Exists(f) == mtime[f] > 0

\* What the command of b makes of its inputs as they are.
Output(b) ==
  <<"output", manifest[b].method, manifest[b].cmd, [f \in Ins(b) |-> content[f]]>>

-----------------------------------------------------------------------------
(* The database: BuildInfo by hash and FileInfo by path.                   *)

EmptyDb == [build |-> <<>>, file |-> <<>>]

Put(table, keys, value) ==
  [k \in DOMAIN table \cup keys |-> IF k \in keys THEN value ELSE table[k]]

Only(table, keys) == Restrict(table, keys \cap DOMAIN table)
Drop(table, keys) == Restrict(table, DOMAIN table \ keys)

\* The entries stat_node reads for b.
EntriesOf(b) ==
  [build |-> Only(db.build, {hash_build(b)}), file |-> Only(db.file, Outs(b))]

HasInfo(d, b) == hash_build(b) \in DOMAIN d.build
BuildInfo(d, b) == d.build[hash_build(b)]

\* The input f is newer than the recorded build.
InputChanged(d, b, f) == HasInfo(d, b) => BuildInfo(d, b).last_start < mtime[f]

\* A bug: only the owner of the output is compared.
OutputOwned(d, b, f) ==
  f \notin DOMAIN d.file \/ d.file[f].generated_by # hash_build(b)

\* The output f is not what the recorded build left.
OutputChanged(d, b, f) ==
  \/ f \notin DOMAIN d.file
  \/ d.file[f].generated_by # hash_build(b)
  \/ d.file[f].last_seen < mtime[f]

\* A bug: the digest is not compared.
InputSetIgnored(d, b) == FALSE

InputSetChanged(d, b) == BuildInfo(d, b).input_set_digest # hash_input_set(b)

\* A bug: the time is rounded up when it is stored.
InfoRoundedUp(b, now) ==
  [last_start |-> now + 1, input_set_digest |-> hash_input_set(b), read |-> Ins(b)]

\* The BuildInfo write_build stores.  `now` is read after the command ended.
\* `read` is history: of the inputs the code stores the digest only.
NewBuildInfo(b, now) ==
  [last_start |-> now, input_set_digest |-> hash_input_set(b), read |-> Ins(b)]

-----------------------------------------------------------------------------
(* One session: the caller's thread.                                       *)

InitProcess(m) ==
  /\ manifest' = m
  /\ graph' = DependenciesIn(m)
  /\ parallelism' \in Parallelisms
  /\ kind' = [b \in BuildId |-> "Untracked"]
  /\ pending_inputs' = [b \in BuildId |-> 0]
  /\ pending' = {}
  /\ running' = 0 /\ finished' = 0 /\ failed' = 0
  /\ pc' = "idle" /\ outcome' = "none" /\ runs' = 0
  /\ chan' = <<>>
  /\ task' = [b \in BuildId |-> "idle"]
  /\ stage' = [b \in BuildId |-> "none"]
  /\ view' = [b \in BuildId |-> EmptyDb]
  /\ todo' = [b \in BuildId |-> {}]
  /\ at' = [b \in BuildId |-> {}]
  /\ product' = [b \in BuildId |-> <<>>]
  /\ edited' = FALSE /\ raced' = {} /\ sound' = [b \in BuildId |-> {}]

\* Files no build of the manifest writes are there from the beginning.
IInit ==
  /\ scenario \in Scenarios
  /\ manifest \in scenario.manifests
  /\ Init
  /\ graph = DependenciesIn(manifest)
  /\ mtime = [f \in File |->
                IF \E b \in DOMAIN manifest : f \in Outs(b) THEN 0 ELSE 1]
  /\ content = [f \in File |-> <<"source", mtime[f]>>]
  /\ clock = 1
  /\ backend \in scenario.backends
  /\ db = EmptyDb /\ saved = EmptyDb
  /\ stage = [b \in BuildId |-> "none"]
  /\ view = [b \in BuildId |-> EmptyDb]
  /\ todo = [b \in BuildId |-> {}]
  /\ at = [b \in BuildId |-> {}]
  /\ product = [b \in BuildId |-> <<>>]
  /\ edits = 0 /\ sessions = 1
  /\ edited = FALSE /\ raced = {} /\ blind = {}
  /\ sound = [b \in BuildId |-> {}]

\* One call of want() for the targets of this session.
WantTargets(S) ==
  /\ S \subseteq DOMAIN manifest /\ Tracked = {}
  /\ Want(S)
  /\ UNCHANGED <<disk, database, local, env, history>>

\* start_build spawns run_build.
Spawn(b) ==
  /\ StartBuild(b)
  /\ stage' = [stage EXCEPT ![b] = "spawned"]
  /\ UNCHANGED <<view, todo, at, product, disk, database, env, history>>

Caller ==
  /\ \/ Run
     \/ LeaveLoop
     \/ Wait
     \/ ReceiveErr
     \/ \E r \in Successful : ReceiveSuccess(r)
     \/ ReceiveFailed
     \/ Join
  /\ UNCHANGED <<disk, database, local, env, history>>

-----------------------------------------------------------------------------
(* stat_node: the loop over the inputs, the loop over the outputs, and the *)
(* digest.  The transaction sees the database as it was at its beginning;  *)
(* that of DumbDb and InMemoryDb also keeps writers waiting.               *)

\* The files of b at which stat_node, told what d says, would not stop now.
AsRecorded(d, b) ==
  {f \in Ins(b) : Exists(f) /\ ~InputChanged(d, b, f)}
    \cup {f \in Outs(b) : Exists(f) /\ ~OutputChanged(d, b, f)}

\* begin_read
BeginRead(b) ==
  /\ stage[b] = "spawned"
  /\ stage' = [stage EXCEPT ![b] = "ins"]
  /\ view' = [view EXCEPT ![b] = EntriesOf(b)]
  /\ todo' = [todo EXCEPT ![b] = Ins(b)]
  /\ sound' = [sound EXCEPT ![b] = AsRecorded(db, b)]
  /\ UNCHANGED <<vars, at, product, disk, database, env, edited, raced, blind>>

\* The transaction ends, and with it the looking at files.
Leave(b, s) ==
  /\ stage' = [stage EXCEPT ![b] = s]
  /\ view' = [view EXCEPT ![b] = EmptyDb]
  /\ todo' = [todo EXCEPT ![b] = {}]
  /\ at' = [at EXCEPT ![b] = {}]
  /\ sound' = [sound EXCEPT ![b] = {}]
  /\ UNCHANGED <<product, disk, database, env, edited, raced, blind>>

\* A verdict other than Outdated is the result of the task.
Verdict(b, v) == Leave(b, v) /\ UNCHANGED vars

Outdated(b) == Leave(b, "run") /\ BeginExecute(b)

\* world.exists(path) was true.
LookAt(b, f) ==
  /\ at' = [at EXCEPT ![b] = {f}]
  /\ UNCHANGED <<vars, stage, view, todo, product, disk, database, env, history>>

NextFile(b, f) ==
  /\ todo' = [todo EXCEPT ![b] = @ \ {f}]
  /\ at' = [at EXCEPT ![b] = {}]
  /\ UNCHANGED <<vars, stage, view, product, disk, database, env, history>>

StatInput(b, f) ==
  /\ stage[b] = "ins" /\ at[b] = {} /\ f \in todo[b]
  /\ IF Exists(f) THEN LookAt(b, f) ELSE Verdict(b, "Failed")

\* The file may have gone since: CannotRead.
StatInputTime(b, f) ==
  /\ stage[b] = "ins" /\ at[b] = {f}
  /\ IF ~Exists(f) THEN Verdict(b, "Err")
     ELSE IF InputChanged(view[b], b, f) THEN Outdated(b)
     ELSE NextFile(b, f)

StatInputsDone(b) ==
  /\ stage[b] = "ins" /\ todo[b] = {}
  /\ IF HasInfo(view[b], b)
     THEN /\ stage' = [stage EXCEPT ![b] = "outs"]
          /\ todo' = [todo EXCEPT ![b] = Outs(b)]
          /\ UNCHANGED <<vars, view, at, product, disk, database, env, history>>
     ELSE Outdated(b)

\* A bug: an output that is missing is passed over.
StatOutputIfThere(b, f) ==
  /\ stage[b] = "outs" /\ at[b] = {} /\ f \in todo[b]
  /\ IF Exists(f) THEN LookAt(b, f) ELSE NextFile(b, f)

StatOutput(b, f) ==
  /\ stage[b] = "outs" /\ at[b] = {} /\ f \in todo[b]
  /\ IF Exists(f) THEN LookAt(b, f) ELSE Outdated(b)

StatOutputTime(b, f) ==
  /\ stage[b] = "outs" /\ at[b] = {f}
  /\ IF ~Exists(f) THEN Verdict(b, "Err")
     ELSE IF OutputChanged(view[b], b, f) THEN Outdated(b)
     ELSE NextFile(b, f)

StatDone(b) ==
  /\ stage[b] = "outs" /\ todo[b] = {}
  /\ IF InputSetChanged(view[b], b) THEN Outdated(b) ELSE Verdict(b, "UpToDate")

StatNode(b) ==
  \/ BeginRead(b)
  \/ \E f \in File : StatInput(b, f) \/ StatInputTime(b, f)
  \/ StatInputsDone(b)
  \/ \E f \in File : StatOutput(b, f) \/ StatOutputTime(b, f)
  \/ StatDone(b)

-----------------------------------------------------------------------------
(* World::execute: the command reads its inputs, may leave its outputs half*)
(* written for a while, and succeeds or fails.                             *)

At(b, S) == stage[b] \in S
Goto(b, s) == stage' = [stage EXCEPT ![b] = s]
Method(b) == manifest[b].method

\* Times of two changes are the same at most if times are coarse.
Now == IF scenario.coarse THEN {clock, clock + 1} ELSE {clock + 1}

WriteFiles(fs, c, t) ==
  /\ clock' = t
  /\ mtime' = [f \in File |-> IF f \in fs THEN t ELSE mtime[f]]
  /\ content' = [f \in File |-> IF f \in fs THEN c ELSE content[f]]

\* Builds that have used f already but have not been recorded.
Unrecorded(f) ==
  {b \in DOMAIN manifest : \/ f \in Ins(b) /\ At(b, {"read", "partial", "written"})
                           \/ f \in Outs(b) /\ At(b, {"written"})}

\* The records that are no older than a change of f at time t.
NotOlder(d, f, t) ==
  {<<h, d.build[h].last_start>> : h \in
     {g \in DOMAIN d.build : /\ d.build[g].last_start >= t
                             /\ f \in g[3] \/ d.build[g].input_set_digest[f] > 0}}

\* Somebody changes the files at time t: `others` are the builds it is not.
Disturb(fs, others, t) ==
  /\ raced' = raced \cup (others \cap UNION {Unrecorded(f) : f \in fs})
  /\ blind' = blind \cup UNION {NotOlder(db, f, t) \cup NotOlder(saved, f, t) : f \in fs}

CommandReads(b) ==
  /\ At(b, {"run"}) /\ Method(b) # "phony" /\ Goto(b, "read")
  /\ product' = [product EXCEPT ![b] = Output(b)]
  /\ UNCHANGED <<vars, disk, database, view, todo, at, env, history>>

CommandWritesPart(b) ==
  /\ At(b, {"read"}) /\ Goto(b, "partial")
  /\ \E t \in Now : /\ WriteFiles(Outs(b), <<"partial", t>>, t)
                    /\ Disturb(Outs(b), BuildId \ {b}, t)
  /\ UNCHANGED <<vars, database, view, todo, at, product, env, edited, sound>>

CommandSucceeds(b) ==
  /\ At(b, {"read", "partial"}) /\ Goto(b, "written")
  /\ \E t \in Now : /\ WriteFiles(Outs(b), product[b], t)
                    /\ Disturb(Outs(b), BuildId \ {b}, t)
  /\ product' = [product EXCEPT ![b] = <<>>]
  /\ UNCHANGED <<vars, database, view, todo, at, env, edited, sound>>

CommandFails(b) ==
  /\ At(b, {"run", "read", "partial"}) /\ Method(b) # "phony" /\ Goto(b, "broken")
  /\ product' = [product EXCEPT ![b] = <<>>]
  /\ UNCHANGED <<vars, disk, database, view, todo, at, env, history>>

\* A callback panics: nothing is recorded and nothing is sent.
CallbackPanics(b) ==
  /\ At(b, {"run", "read", "partial"}) /\ Method(b) = "callback" /\ Goto(b, "none")
  /\ Panic(b)
  /\ product' = [product EXCEPT ![b] = <<>>]
  /\ UNCHANGED <<disk, database, view, todo, at, env, history>>

\* A phony build succeeds without doing anything.
PhonySucceeds(b) ==
  /\ At(b, {"run"}) /\ Method(b) = "phony" /\ Goto(b, "written")
  /\ UNCHANGED <<vars, disk, database, view, todo, at, product, env, history>>

\* begin_write waits for the readers of DumbDb and InMemoryDb.
Writable ==
  backend # "transactional" => \A b \in BuildId : ~At(b, {"ins", "outs"})

\* A bug: the outputs are not recorded.
FileInfosUnrecorded(b, now) == db.file

\* What write_build stores for the outputs.
FileInfos(b, now) ==
  Put(db.file, Outs(b), [last_seen |-> now, generated_by |-> hash_build(b)])

\* write_build: one transaction, after the command succeeded.  What happens
\* between `now` and the commit could as well happen after it.
WriteBuild(b) ==
  /\ At(b, {"written"}) /\ Writable
  /\ Goto(b, IF Method(b) = "callback" THEN "UpToDate" ELSE "Succeeded")
  /\ \E t \in Now :
       /\ clock' = t
       /\ db' = [build |-> Put(db.build, {hash_build(b)}, NewBuildInfo(b, t)),
                 file |-> FileInfos(b, t)]
       /\ blind' = IF b \in raced THEN blind \cup {<<hash_build(b), t>>} ELSE blind
  /\ UNCHANGED <<vars, mtime, content, backend, saved, view, todo, at, product,
                 env, edited, raced, sound>>

\* invalidate_build; the result is the command's failure or the I/O error.
InvalidateBuild(b) ==
  /\ At(b, {"broken"}) /\ Writable
  /\ \E r \in {"Failed", "Err"} : /\ r = "Err" => Method(b) = "subcmd"
                                  /\ Goto(b, r)
  /\ db' = [build |-> Drop(db.build, {hash_build(b)}),
            file |-> Drop(db.file, Outs(b))]
  /\ UNCHANGED <<vars, disk, backend, saved, view, todo, at, product, env, history>>

Send(b) ==
  /\ At(b, Results) /\ Goto(b, "none")
  /\ Report(b, stage[b])
  /\ UNCHANGED <<disk, database, view, todo, at, product, env, history>>

Execute(b) ==
  \/ CommandReads(b) \/ CommandWritesPart(b) \/ CommandSucceeds(b)
  \/ CommandFails(b) \/ CallbackPanics(b) \/ PhonySucceeds(b)
  \/ WriteBuild(b) \/ InvalidateBuild(b)
  \/ Send(b)

-----------------------------------------------------------------------------
(* The rest of the world.                                                  *)

Used ==
  UNION {UNION {m[b].ins \cup m[b].outs : b \in DOMAIN m} : m \in scenario.manifests}

\* Somebody gives f a new content.
Edit(f) ==
  /\ edits < scenario.edits /\ edits' = edits + 1
  /\ \E t \in Now : /\ WriteFiles({f}, <<"edit", edits>>, t)
                    /\ Disturb({f}, BuildId, t)
  /\ edited' = TRUE
  /\ UNCHANGED <<vars, database, local, scenario, manifest, sessions, sound>>

Remove(f) ==
  /\ edits < scenario.edits /\ edits' = edits + 1
  /\ Exists(f)
  /\ mtime' = [mtime EXCEPT ![f] = 0]
  /\ content' = [content EXCEPT ![f] = <<"source", 0>>]
  /\ edited' = TRUE
  /\ UNCHANGED <<vars, clock, database, local, scenario, manifest, sessions,
                 raced, blind, sound>>

\* What the next session finds in the database.  redb and heed commit each
\* transaction.  InMemoryDb starts empty.  DumbDb reads its file: when it is
\* dropped it truncates the file and writes it anew, so a session that came to
\* its end leaves everything or, if cut short there, nothing.
DbAfter(clean) ==
  IF backend = "transactional" THEN {db}
  ELSE IF backend = "dumb" THEN (IF clean THEN {db, EmptyDb} ELSE {saved})
  ELSE {EmptyDb}

NewSession(clean) ==
  /\ sessions < scenario.sessions /\ sessions' = sessions + 1
  /\ \E m \in scenario.manifests : InitProcess(m)
  /\ \E d \in DbAfter(clean) : db' = d /\ saved' = d
  /\ UNCHANGED <<disk, backend, scenario, edits, blind>>

\* The process ended by itself, or it is killed, its commands with it.
Finish == pc \in Ended /\ NewSession(TRUE)
Kill == pc \in InRun /\ NewSession(FALSE)

INext ==
  \/ \E S \in SUBSET BuildId : WantTargets(S)
  \/ Caller
  \/ \E b \in DOMAIN manifest : Spawn(b) \/ StatNode(b) \/ Execute(b)
  \/ \E f \in Used : Edit(f) \/ Remove(f)
  \/ Finish
  \/ Kill

ISpec == IInit /\ [][INext]_ivars

-----------------------------------------------------------------------------
(* What incremental building promises.                                     *)

Stages == {"none", "spawned", "ins", "outs", "run", "read", "partial", "written", "broken"}
          \cup Results

\* Types, and: no time in the database is in the future, a task has a place in
\* run_build exactly while it lives, and a command runs when it says so.
ITypeOK ==
  /\ TypeOK
  /\ mtime \in [File -> 0 .. clock]
  /\ DOMAIN db.file \subseteq File
  /\ \A f \in DOMAIN db.file : db.file[f].last_seen \in 1 .. clock
  /\ \A h \in DOMAIN db.build : db.build[h].last_start \in 1 .. clock
  /\ stage \in [BuildId -> Stages]
  /\ \A b \in BuildId :
       /\ stage[b] = "none" <=> task[b] \notin Live
       /\ stage[b] \in {"spawned", "ins", "outs"} => task[b] = "spawned"
       /\ at[b] \subseteq todo[b]

\* What stat_node would answer if nothing moved while it looks.
UpToDate(b) ==
  /\ HasInfo(db, b)
  /\ \A f \in Ins(b) : Exists(f) /\ ~InputChanged(db, b, f)
  /\ \A f \in Outs(b) : Exists(f) /\ ~OutputChanged(db, b, f)
  /\ ~InputSetChanged(db, b)

\* The outputs of b are there and are what its command makes of its inputs.  A
\* phony build makes nothing.
Fresh(b) ==
  Method(b) # "phony" => \A f \in Outs(b) : Exists(f) /\ content[f] = Output(b)

\* Somebody else changed a file of b after its command used it, and no later
\* than the time recorded.
Blind(b) == <<hash_build(b), BuildInfo(db, b).last_start>> \in blind

\* The record of b was made of other inputs.  The digest, which is the same, adds
\* up inputs and outputs of dependencies and does not say which is which.
Mistaken(b) ==
  /\ BuildInfo(db, b).input_set_digest = hash_input_set(b)
  /\ BuildInfo(db, b).read # Ins(b)

\* Of two builds that write the same file one at most can be fresh, and two of
\* the same hash share their record.
Alone(b) ==
  \A c \in DOMAIN manifest \ {b} :
    Outs(b) \cap Outs(c) = {} /\ hash_build(b) # hash_build(c)

\* The database never vouches for an output its command would not make of the
\* inputs as they are: whatever was edited, removed, half written, killed,
\* lost with the database, changed in the manifest or written by two builds.
\* There are two exceptions: a file that somebody else changed after the command
\* used it and no later than the time write_build recorded; and a manifest that
\* turns an input into the output of a dependency b does not read, or back.
VouchedIsFresh ==
  \A b \in DOMAIN manifest : UpToDate(b) => Fresh(b) \/ Blind(b) \/ Mistaken(b)

\* A session that returns Ok without failures and was not disturbed leaves
\* every wanted output fresh, under the same exceptions.
SessionMakesFresh ==
  pc = "returned" /\ outcome = "Ok" /\ failed = 0 /\ ~edited =>
    \A b \in Tracked :
      Alone(b) => Fresh(b) \/ (HasInfo(db, b) /\ (Blind(b) \/ Mistaken(b)))

\* After such a session a second one has nothing to run: what was built or
\* found up to date would be found up to date again.  (A build whose command
\* succeeded without an input that was missing fails the second time, and a
\* phony build runs again, and does nothing, until its outputs exist.)
SecondBuildIsNoOp ==
  pc = "returned" /\ ~edited =>
    \A b \in OfKind(Successful) :
      /\ Alone(b)
      /\ \A f \in Ins(b) : Exists(f)
      /\ Method(b) = "phony" => \A f \in Outs(b) : Exists(f)
      => UpToDate(b)

\* stat_node looks at one file after another, and at each twice, while others
\* write, edit, remove and record.  Still a build is up to date only if it would
\* have been found so by looking at everything at once when the transaction
\* began (as long as no two changes have the same time).
LooksAtOnce ==
  [][\A b \in DOMAIN manifest :
       stage[b] = "outs" /\ stage'[b] = "UpToDate" /\ ~scenario.coarse
       => Ins(b) \cup Outs(b) \subseteq sound[b]]_ivars

-----------------------------------------------------------------------------
(* What the comments say and the code does not do.                         *)

\* db.rs:81 "The last time this build was started", which stat_node compares
\* with the inputs "mtime later than the last time the build was started
\* (outdated)": an input edited while the command ran makes the build outdated.
EditsNoticed == \A b \in DOMAIN manifest : UpToDate(b) => Fresh(b)

\* exec.rs:489 "any input file is missing (we can't execute a build with
\* missing inputs)": undisturbed, no command starts with an input missing.
NothingRunsWithInputsMissing ==
  [][\A b \in DOMAIN manifest :
       /\ task[b] # "executing" /\ task'[b] = "executing" /\ ~edited
       => \A f \in Ins(b) : Exists(f)]_ivars
===============================================================================
