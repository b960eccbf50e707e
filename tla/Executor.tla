------------------------------- MODULE Executor -------------------------------
(***************************************************************************)
(* The build executor of src/src/exec.rs: Executor::want, Executor::run    *)
(* (run_inner, start_build, build_finished) on the caller's thread, the    *)
(* tasks it spawns on the rayon pool, and the mpsc channel the tasks report*)
(* through.  What a task does to files and database is abstracted to the   *)
(* result it sends; module IncrementalBuild has it in full.                *)
(*                                                                         *)
(* `pending` is an IndexSet popped at its end.  The order of insertion     *)
(* depends on petgraph's iteration order, so the model pops any element.   *)
(***************************************************************************)
EXTENDS BuildGraph, Integers, Sequences, FiniteSets

CONSTANTS
  Graphs,       \* the build graphs to consider; Init picks one
  Parallelisms, \* the degrees of parallelism to consider; Init picks one
  MaxRuns       \* bound: how often the caller calls run()

ASSUME BuildIdAssumption == IsFiniteSet(BuildId)
ASSUME GraphsAssumption == Graphs \subseteq {g \in BuildGraphs : Acyclic(g)}
ASSUME ParallelismsAssumption == Parallelisms \subseteq Nat
ASSUME MaxRunsAssumption == MaxRuns \in Nat

VARIABLES
  graph,           \* SharedState.graph
  parallelism,     \* ExecConfig.parallelism
  kind,            \* Executor.builds: BuildStatus.kind, "Untracked" if no entry
  pending_inputs,  \* Executor.builds: BuildStatus.pending_inputs
  pending,         \* Executor.pending
  running,         \* Executor.running
  finished,        \* Executor.finished
  failed,          \* Executor.failed
  pc,              \* where the caller's thread is; "idle" is ~build_started
  outcome,         \* how run_inner, then run(), ended
  runs,            \* number of calls of run()
  chan,            \* the mpsc channel of the current run
  task             \* the pool's task of each build

builds == <<kind, pending_inputs>>
counters == <<running, finished, failed>>
caller == <<pc, outcome, runs>>
vars == <<graph, parallelism, builds, pending, counters, caller, chan, task>>

-----------------------------------------------------------------------------

Successful == {"UpToDate", "Succeeded"}                  \* is_successful
Finished == {"UpToDate", "Succeeded", "Failed", "Skipped"}    \* is_finished
Live == {"spawned", "executing"}
InRun == {"start", "recv", "join"}    \* the receiver exists

Tracked == {b \in BuildId : kind[b] # "Untracked"}
OfKind(K) == {b \in BuildId : kind[b] \in K}
LiveTasks == {b \in BuildId : task[b] \in Live}
Reported == {chan[i].id : i \in DOMAIN chan}

Init ==
  /\ graph \in Graphs
  /\ parallelism \in Parallelisms
  /\ kind = [b \in BuildId |-> "Untracked"]
  /\ pending_inputs = [b \in BuildId |-> 0]
  /\ pending = {}
  /\ running = 0 /\ finished = 0 /\ failed = 0
  /\ pc = "idle" /\ outcome = "none" /\ runs = 0
  /\ chan = <<>>
  /\ task = [b \in BuildId |-> "idle"]

-----------------------------------------------------------------------------
(* want(): before the first run() only, afterwards it panics.              *)

\* A bug: count only the dependencies the traversal has not met yet.
children_count_unmet(b) == Cardinality(build_dependencies(graph, b) \ Tracked)

children_count(b) == Cardinality(build_dependencies(graph, b))

\* The traversal does not pass through a build that is tracked already.
Want(S) ==
  /\ pc = "idle"
  /\ LET unmet == [b \in BuildId |-> build_dependencies(graph, b) \ Tracked]
         new == Reach(unmet, S \ Tracked)
     IN  /\ kind' = [b \in BuildId |-> IF b \in new THEN "Fresh" ELSE kind[b]]
         /\ pending_inputs' =
              [b \in BuildId |-> IF b \in new THEN children_count(b)
                                              ELSE pending_inputs[b]]
         /\ pending' = pending \cup {b \in new : children_count(b) = 0}
  /\ UNCHANGED <<graph, parallelism, counters, caller, chan, task>>

-----------------------------------------------------------------------------
(* run() on the caller's thread.                                           *)

\* A fresh channel and scope; everything else is kept from an earlier run().
Run ==
  /\ pc \in {"idle", "returned"}
  /\ runs < MaxRuns
  /\ runs' = runs + 1
  /\ pc' = "start"
  /\ outcome' = "none"
  /\ chan' = <<>>
  /\ UNCHANGED <<graph, parallelism, builds, pending, counters, task>>

\* A bug: an off-by-one in the capacity check.
HasSlotOffByOne == running <= parallelism

HasSlot == running < parallelism

\* A bug: the build is looked at, not popped.
PendingKept(b) == pending

PendingPopped(b) == pending \ {b}

\* One round of the `while` loop with start_build.  A failure does not stop
\* the loop: it is looked at only after it.
StartBuild(b) ==
  /\ pc = "start"
  /\ HasSlot
  /\ b \in pending
  /\ pending' = PendingPopped(b)
  /\ kind' = [kind EXCEPT ![b] = "Started"]
  /\ running' = running + 1
  /\ task' = [task EXCEPT ![b] = "spawned"]
  /\ UNCHANGED <<graph, parallelism, pending_inputs, finished, failed, caller, chan>>

\* A bug: the loop ends only when it has started everything.
NothingPending == pending = {}

NothingToStart == ~HasSlot \/ pending = {}

\* A bug: leave once no build waits to be started.
DoneWhenNoPending == pending = {} \/ failed > 0

AllDone == finished = Cardinality(Tracked) \/ failed > 0

\* Break out of the loop; run_inner returns Ok(()) to the scope.
LeaveLoop ==
  /\ pc = "start" /\ NothingToStart
  /\ AllDone
  /\ pc' = "join"
  /\ outcome' = "Ok"
  /\ UNCHANGED <<graph, parallelism, builds, pending, counters, runs, chan, task>>

\* panic!("No builds are in progress, but not all builds are finished").
Stall ==
  /\ pc = "start" /\ NothingToStart
  /\ ~AllDone
  /\ running = 0
  /\ pc' = "join"
  /\ outcome' = "Panic"
  /\ UNCHANGED <<graph, parallelism, builds, pending, counters, runs, chan, task>>

\* On to rx.recv().
Wait ==
  /\ pc = "start" /\ NothingToStart
  /\ ~AllDone
  /\ running # 0
  /\ pc' = "recv"
  /\ UNCHANGED <<graph, parallelism, builds, pending, counters, outcome, runs, chan, task>>

-----------------------------------------------------------------------------
(* build_finished(): one action for each way it goes.  A panic inside it is*)
(* an outcome of the action: run_inner unwinds into the scope.             *)

Received(r) ==
  /\ pc = "recv"
  /\ chan # <<>>
  /\ Head(chan).result = r
  /\ chan' = Tail(chan)

\* Err(e): the early return comes before running is decremented, and the
\* build stays Started.
ReceiveErr ==
  /\ Received("Err")
  /\ pc' = "join"
  /\ outcome' = "Err"
  /\ UNCHANGED <<graph, parallelism, builds, pending, counters, runs, task>>

AlreadyFinished(id) == kind[id] \in Finished

\* A bug: consumers outside the wanted set are touched too.
ConsumersUntracked(id) ==
  {c \in build_dependents(graph, id) : kind[c] \notin Finished}

\* The consumers of id whose count of pending inputs a success decrements.
Consumers(id) ==
  {c \in build_dependents(graph, id) \cap Tracked : kind[c] \notin Finished}

Decremented(id) ==
  [c \in BuildId |->
     IF c \in Consumers(id) THEN pending_inputs[c] - 1 ELSE pending_inputs[c]]

\* A bug: a consumer becomes ready with one input still to go.
NewlyReadyEarly(id) == {c \in Consumers(id) : Decremented(id)[c] <= 1}

\* A bug: the readiness test happens before the decrement.
NewlyReadyLate(id) == {c \in Consumers(id) : pending_inputs[c] = 0}

NewlyReady(id) == {c \in Consumers(id) : Decremented(id)[c] = 0}

\* Succeeded or UpToDate.  It panics if the build, or one of its tracked
\* consumers, has finished successfully already.
ReceiveSuccess(r) ==
  /\ r \in Successful
  /\ Received(r)
  /\ LET id == Head(chan).id
         consumerDone == \E c \in build_dependents(graph, id) :
                           kind[c] \in Successful
     IN  /\ running' = running - 1
         /\ finished' = finished + 1
         /\ IF AlreadyFinished(id) \/ consumerDone
            THEN /\ pc' = "join" /\ outcome' = "Panic"
                 /\ UNCHANGED <<builds, pending>>
            ELSE /\ pc' = "start" /\ UNCHANGED outcome
                 /\ kind' = [kind EXCEPT ![id] = r]
                 /\ pending_inputs' = Decremented(id)
                 /\ pending' = pending \cup NewlyReady(id)
  /\ UNCHANGED <<graph, parallelism, failed, runs, task>>

\* What the depth-first search from the failed build reaches, itself left out
\* by skip(1), if it is tracked and unfinished.  Dfs follows the edges of the
\* graph, and they lead from the consumer to its dependencies.
ToSkip(id) ==
  {c \in (Reach(graph, {id}) \ {id}) \cap Tracked : kind[c] \notin Finished}

\* A bug: only what the failed build skips is counted, not the build.
NewlyFailedUncounted(id) == Cardinality(ToSkip(id))

\* The failed build and what it skips.
NewlyFailed(id) == 1 + Cardinality(ToSkip(id))

ReceiveFailed ==
  /\ Received("Failed")
  /\ LET id == Head(chan).id
     IN  /\ running' = running - 1
         /\ IF AlreadyFinished(id)
            THEN /\ pc' = "join" /\ outcome' = "Panic"
                 /\ finished' = finished + 1
                 /\ UNCHANGED <<kind, failed>>
            ELSE /\ pc' = "start" /\ UNCHANGED outcome
                 /\ kind' = [b \in BuildId |->
                               IF b = id THEN "Failed"
                               ELSE IF b \in ToSkip(id) THEN "Skipped"
                               ELSE kind[b]]
                 /\ finished' = finished + 1 + Cardinality(ToSkip(id))
                 /\ failed' = failed + NewlyFailed(id)
  /\ UNCHANGED <<graph, parallelism, pending_inputs, pending, runs, task>>

\* A bug: the scope is left, and the receiver dropped, without waiting.
ScopeDoneAtOnce == TRUE

ScopeDone == LiveTasks = {}

\* in_place_scope waits for every task it spawned and passes a panic on;
\* then the receiver is dropped, with the messages nobody took.
Join ==
  /\ pc = "join"
  /\ ScopeDone
  /\ outcome' = IF \E b \in BuildId : task[b] = "panicked" THEN "Panic"
                                                          ELSE outcome
  /\ pc' = IF outcome' = "Panic" THEN "panicked" ELSE "returned"
  /\ chan' = <<>>
  /\ UNCHANGED <<graph, parallelism, builds, pending, counters, runs, task>>

-----------------------------------------------------------------------------
(* run_build() on a thread of the pool.                                    *)

\* stat_node finds the build Outdated: World::execute is called.
BeginExecute(b) ==
  /\ task[b] = "spawned"
  /\ task' = [task EXCEPT ![b] = "executing"]
  /\ UNCHANGED <<graph, parallelism, builds, pending, counters, caller, chan>>

StatResults == {"UpToDate", "Failed", "Err"}    \* up to date, missing, unreadable
ExecuteResults == {"Succeeded", "UpToDate", "Failed", "Err"}

\* A bug: an error is logged by the task and not sent.
SentUnlessErr(b, r) ==
  IF r = "Err" THEN chan ELSE Append(chan, [id |-> b, result |-> r])

Sent(b, r) == Append(chan, [id |-> b, result |-> r])

\* The task ends by sending its result.
Report(b, r) ==
  /\ \/ task[b] = "spawned" /\ r \in StatResults
     \/ task[b] = "executing" /\ r \in ExecuteResults
  /\ task' = [task EXCEPT ![b] = "done"]
  /\ chan' = Sent(b, r)
  /\ UNCHANGED <<graph, parallelism, builds, pending, counters, caller>>

\* A user callback panics, or the database does, or execute returned a status
\* run_build rejects: the task unwinds and its sender is dropped unused.
Panic(b) ==
  /\ task[b] \in Live
  /\ task' = [task EXCEPT ![b] = "panicked"]
  /\ UNCHANGED <<graph, parallelism, builds, pending, counters, caller, chan>>

-----------------------------------------------------------------------------

MainStep ==
  \/ \E b \in BuildId : StartBuild(b)
  \/ LeaveLoop
  \/ Stall
  \/ Wait
  \/ ReceiveErr
  \/ \E r \in Successful : ReceiveSuccess(r)
  \/ ReceiveFailed
  \/ Join

TaskStep(b) ==
  \/ BeginExecute(b)
  \/ \E r \in ExecuteResults : Report(b, r)
  \/ Panic(b)

Next ==
  \/ \E S \in SUBSET BuildId : Want(S)
  \/ Run
  \/ MainStep
  \/ \E b \in BuildId : TaskStep(b)

Spec == Init /\ [][Next]_vars

\* The caller's thread keeps running while it is in run(), and every command
\* a task waits for ends.  Nobody has to call want() or run().
Fairness ==
  /\ WF_vars(MainStep)
  /\ \A b \in BuildId : WF_vars(TaskStep(b))

FairSpec == Spec /\ Fairness

-----------------------------------------------------------------------------
(* What the executor guarantees.                                           *)

Kinds == {"Untracked", "Fresh", "Started"} \cup Finished
Results == Successful \cup {"Failed", "Err"}
Message == [id : BuildId, result : Results]
Ended == {"returned", "panicked"}

\* Every variable has its type; in particular no usize counter went below 0.
TypeOK ==
  /\ graph \in BuildGraphs
  /\ parallelism \in Nat
  /\ kind \in [BuildId -> Kinds]
  /\ pending_inputs \in [BuildId -> Nat]
  /\ pending \subseteq BuildId
  /\ running \in Nat /\ finished \in Nat /\ failed \in Nat
  /\ pc \in {"idle"} \cup InRun \cup Ended
  /\ outcome \in {"none", "Ok", "Err", "Panic"}
  /\ runs \in Nat
  /\ chan \in Seq(Message)
  /\ task \in [BuildId -> {"idle", "done", "panicked"} \cup Live]

\* The three counters agree with the table they summarise, so the numbers
\* status() hands to the progress reporter are those of the builds.
CountersExact ==
  /\ running = Cardinality(OfKind({"Started"}))
  /\ finished = Cardinality(OfKind(Finished))
  /\ failed = Cardinality(OfKind({"Failed", "Skipped"}))

Unbuilt(b) == {d \in build_dependencies(graph, b) : kind[d] \notin Successful}

\* pending_inputs is "the number of input nodes of this build that has yet to
\* finish successfully", whatever the order of want() calls and of results;
\* and the pending set holds exactly the fresh builds that can be started.
PendingExact ==
  /\ \A b \in Tracked : pending_inputs[b] = Cardinality(Unbuilt(b))
  /\ pending = {b \in OfKind({"Fresh"}) : Unbuilt(b) = {}}

\* When a task runs, everything it depends on, however far down, has been
\* built or found up to date and its result has been processed.
DepsBuiltFirst ==
  \A b \in LiveTasks :
    \A d \in Reach(graph, {b}) \ {b} : kind[d] \in Successful

\* Never more tasks at a time than ExecConfig.parallelism.
ConcurrencyBound == Cardinality(LiveTasks) <= parallelism

\* With at least one slot, none of the "This is a bug" panics on the caller's
\* thread happens: run() panics only to pass on the panic of a task.
MainNeverPanics ==
  parallelism > 0 /\ outcome = "Panic" =>
    \E b \in BuildId : task[b] = "panicked"

\* A started build that will never report: no task, no message.
Lost(b) == kind[b] = "Started" /\ task[b] \notin Live /\ b \notin Reported

\* In the first run(), while it waits for results, each build counted as
\* running has a task that will report or a message that has not been taken.
NothingLost ==
  runs = 1 /\ pc \in {"start", "recv"} =>
    \A b \in BuildId : Lost(b) => task[b] = "panicked"

\* A task never finds the receiver gone: `send(..).expect(..)` in run_build
\* holds even when run_inner has left early on a failure or an error.
SendNeverFails == LiveTasks # {} => pc \in InRun

\* When run() returns Ok and nothing failed, all that was wanted is built.
OkMeansBuilt ==
  pc = "returned" /\ outcome = "Ok" /\ failed = 0 =>
    \A b \in Tracked : kind[b] \in Successful

\* Whatever sequence of want() and run() calls: a build gets a task once.
BuiltOnce ==
  [][\A b \in BuildId : task'[b] = "spawned" => task[b] \in {"idle", "spawned"}]_vars

\* run() ends, unless a build was lost.
RunReturns ==
  pc = "start" ~> (pc \in Ended \/ \E b \in BuildId : Lost(b))

-----------------------------------------------------------------------------
(* The inductive invariant behind them.                                    *)

\* want() leaves no dependency of a wanted build out.
TrackedClosed == DepClosed(graph, Tracked)

\* The table and the tasks agree: a task exists from start_build on, and the
\* result of a build is in the table only after its task sent it.
TaskMatchesKind ==
  \A b \in BuildId :
    /\ task[b] = "idle" <=> kind[b] \in {"Untracked", "Fresh"}
    /\ task[b] \in Live \cup {"panicked"} => kind[b] = "Started"

\* Whatever was started had all its dependencies built.
BuiltInOrder ==
  \A b \in BuildId : kind[b] \in {"Started"} \cup Finished => Unbuilt(b) = {}

\* build_finished never finds a build to skip: when a build fails, all it
\* depends on has finished.
NeverSkipped == \A b \in BuildId : kind[b] # "Skipped"

\* A message is the one result of a started build whose task is done.
ChannelExact ==
  /\ \A i \in DOMAIN chan :
       /\ kind[chan[i].id] = "Started"
       /\ task[chan[i].id] = "done"
  /\ \A i, j \in DOMAIN chan : chan[i].id = chan[j].id => i = j

\* What the caller's thread knows at each place.
CallerExact ==
  /\ running <= parallelism
  /\ pc = "idle" => runs = 0 /\ \A b \in BuildId : kind[b] \in {"Untracked", "Fresh"}
  /\ pc # "idle" => runs > 0
  /\ pc = "recv" => failed = 0
  /\ pc \in {"start", "recv", "idle"} => outcome = "none"
  /\ pc = "join" => outcome # "none"
  /\ pc = "returned" => outcome \in {"Ok", "Err"}
  /\ outcome = "Ok" => AllDone
  /\ outcome = "Panic" => parallelism = 0 \/ \E b \in BuildId : task[b] = "panicked"

IInv ==
  /\ TypeOK
  /\ TrackedClosed
  /\ TaskMatchesKind
  /\ BuiltInOrder
  /\ NeverSkipped
  /\ PendingExact
  /\ CountersExact
  /\ ChannelExact
  /\ SendNeverFails
  /\ CallerExact
  /\ NothingLost

-----------------------------------------------------------------------------
(* The executor implements the promise of module Schedule.                 *)

Phase ==
  [b \in BuildId |->
     IF kind[b] \in {"Untracked", "Fresh"} THEN "waiting"
     ELSE IF kind[b] = "Started" THEN "active"
     ELSE IF kind[b] \in Successful THEN "ok" ELSE "failed"]

Sched == INSTANCE Schedule WITH Job <- BuildId, limit <- parallelism,
                                needs <- graph, phase <- Phase

\* Builds are scheduled as Schedule promises: one by one, after all their
\* needs, never above the limit, never twice, and never skipped.
ImplementsSchedule == Sched!Spec

-----------------------------------------------------------------------------
(* What the comments of exec.rs say and the code does not do.              *)

\* exec.rs:106 "Any newly failed node (failed or skipped) will cause all its
\* transitive consumer nodes to be marked as skipped."
FailureSkipsConsumers ==
  [][\A id, c \in BuildId :
       /\ kind[id] # "Failed" /\ kind'[id] = "Failed"
       /\ c \in Tracked \ {id} /\ id \in Reach(graph, {c})
       => kind'[c] = "Skipped"]_vars

\* exec.rs:109 "The state machine should make progress until no more nodes can
\* be started, in which case all nodes should have been finished": when run()
\* returns Ok, no build is ready to start and none is running.
RunsUntilNothingCanStart ==
  pc = "returned" /\ outcome = "Ok" /\ parallelism > 0 =>
    pending = {} /\ OfKind({"Started"}) = {}

\* exec.rs:301 "Since this will be called every time a build finishes [...]
\* this will eventually start all nodes that should be started": the loop ends
\* with all of them finished or by the first failure, panic or error.
RunAlwaysReturns == pc = "start" ~> pc \in Ended
===============================================================================
