---------------------------- MODULE ExecutorProof ----------------------------
(***************************************************************************)
(* Theorems about Executor, for every finite set of builds, every set of   *)
(* acyclic graphs, every degree of parallelism and any number of runs.     *)
(***************************************************************************)
EXTENDS Executor, FiniteSetTheorems, TLAPS

-----------------------------------------------------------------------------
(* The graph operators.                                                    *)

\* The search visits where it starts.
LEMMA ReachContains ==
  ASSUME NEW g, NEW S \in SUBSET BuildId
  PROVE  S \subseteq Reach(g, S) /\ Reach(g, S) \subseteq BuildId
BY DEF Reach

\* The search stays within any closed set it starts in.
LEMMA ReachLeast ==
  ASSUME NEW g, NEW S, NEW T \in SUBSET BuildId, S \subseteq T, DepClosed(g, T)
  PROVE  Reach(g, S) \subseteq T
BY DEF Reach

\* The search visits the dependencies of what it visits.
LEMMA ReachClosed ==
  ASSUME NEW g \in BuildGraphs, NEW S \in SUBSET BuildId
  PROVE  DepClosed(g, Reach(g, S))
<1> SUFFICES ASSUME NEW b \in Reach(g, S), NEW d \in g[b]
             PROVE  d \in Reach(g, S)
  BY DEF DepClosed, build_dependencies
<1>1. b \in BuildId /\ d \in BuildId
  BY DEF Reach, BuildGraphs
<1>2. ASSUME NEW T \in SUBSET BuildId, S \subseteq T, DepClosed(g, T)
      PROVE  d \in T
  <2>1. b \in T
    BY <1>2 DEF Reach
  <2> QED BY <1>2, <2>1 DEF DepClosed, build_dependencies
<1> QED BY <1>1, <1>2 DEF Reach

-----------------------------------------------------------------------------
(* Sets of builds are finite: what adding and removing one build does to   *)
(* their size.                                                             *)

LEMMA BuildSetsFinite ==
  ASSUME NEW S \in SUBSET BuildId
  PROVE  /\ IsFiniteSet(S)
         /\ Cardinality(S) \in Nat
         /\ Cardinality(S) = 0 <=> S = {}
<1>1. IsFiniteSet(S)
  BY BuildIdAssumption, FS_Subset
<1> QED BY <1>1, FS_CardinalityType, FS_EmptySet

LEMMA CardinalityAdd ==
  ASSUME NEW S \in SUBSET BuildId, NEW b \in BuildId \ S
  PROVE  Cardinality(S \cup {b}) = Cardinality(S) + 1
BY BuildSetsFinite, FS_AddElement

LEMMA CardinalityRemove ==
  ASSUME NEW S \in SUBSET BuildId, NEW b \in S
  PROVE  /\ Cardinality(S \ {b}) = Cardinality(S) - 1
         /\ Cardinality(S) > 0
<1>1. Cardinality(S \ {b}) = Cardinality(S) - 1
  BY BuildSetsFinite, FS_RemoveElement
<1>2. S # {} /\ Cardinality(S) \in Nat
  BY BuildSetsFinite
<1> QED BY <1>1, <1>2, BuildSetsFinite

LEMMA CardinalitySubset ==
  ASSUME NEW T \in SUBSET BuildId, NEW S \in SUBSET T
  PROVE  /\ Cardinality(S) <= Cardinality(T)
         /\ Cardinality(S) = Cardinality(T) => S = T
<1>1. IsFiniteSet(T)
  BY BuildSetsFinite
<1> QED BY <1>1, FS_Subset

-----------------------------------------------------------------------------
(* The invariant.                                                          *)

LEMMA InitIInv == Init => IInv
<1> SUFFICES ASSUME Init PROVE IInv
  OBVIOUS
<1> USE DEF Init
<1>1. graph \in BuildGraphs
  BY GraphsAssumption
<1>2. TypeOK
  BY <1>1, ParallelismsAssumption DEF TypeOK, Kinds, InRun, Live, Message
<1>3. Tracked = {} /\ \A K : "Untracked" \notin K => OfKind(K) = {}
  BY DEF Tracked, OfKind
<1>4. OfKind({"Started"}) = {} /\ OfKind(Finished) = {}
      /\ OfKind({"Failed", "Skipped"}) = {} /\ OfKind({"Fresh"}) = {}
  BY <1>3 DEF Finished
<1>5. PendingExact
  BY <1>3, <1>4 DEF PendingExact
<1>6. CountersExact
  BY <1>4, FS_EmptySet DEF CountersExact
<1>7. TrackedClosed /\ TaskMatchesKind /\ BuiltInOrder /\ NeverSkipped
  BY <1>3 DEF TrackedClosed, DepClosed, TaskMatchesKind, BuiltInOrder,
              NeverSkipped, Finished, Live
<1>8. ChannelExact /\ SendNeverFails /\ CallerExact /\ NothingLost
  BY ParallelismsAssumption
     DEF ChannelExact, SendNeverFails, CallerExact, NothingLost, LiveTasks, Live
<1> QED BY <1>2, <1>5, <1>6, <1>7, <1>8 DEF IInv

\* The parts of IInv that only speak of the table of builds survive a step
\* that leaves the table, the pending set and the counters alone.
LEMMA TableUnchanged ==
  ASSUME IInv, UNCHANGED <<graph, parallelism, builds, pending, counters>>
  PROVE  /\ TrackedClosed' /\ BuiltInOrder' /\ NeverSkipped'
         /\ PendingExact' /\ CountersExact'
         /\ (graph \in BuildGraphs)' /\ (parallelism \in Nat)'
         /\ (kind \in [BuildId -> Kinds])'
         /\ (pending_inputs \in [BuildId -> Nat])' /\ (pending \subseteq BuildId)'
         /\ (running \in Nat /\ finished \in Nat /\ failed \in Nat)'
BY DEF IInv, builds, counters, TrackedClosed, BuiltInOrder, NeverSkipped,
       PendingExact, CountersExact, TypeOK, Tracked, OfKind, Unbuilt,
       DepClosed, build_dependencies

\* A step of the caller's thread that also leaves tasks and channel alone.
LEMMA TasksUnchanged ==
  ASSUME IInv, UNCHANGED <<kind, chan, task>>
  PROVE  /\ TaskMatchesKind' /\ ChannelExact'
         /\ (chan \in Seq(Message))'
         /\ (task \in [BuildId -> {"idle", "done", "panicked"} \cup Live])'
BY DEF IInv, TypeOK, TaskMatchesKind, ChannelExact

\* The messages in the channel, and what is left when the first is taken.
LEMMA MessagesTyped ==
  ASSUME IInv
  PROVE  /\ \A i \in DOMAIN chan : chan[i] \in Message /\ chan[i].id \in BuildId
         /\ DOMAIN chan = 1 .. Len(chan) /\ Len(chan) \in Nat
<1>1. chan \in Seq(Message)
  BY DEF IInv, TypeOK
<1>2. \A i \in DOMAIN chan : chan[i] \in Message
  BY <1>1
<1> QED BY <1>1, <1>2 DEF Message

LEMMA FirstMessage ==
  ASSUME IInv, chan # <<>>
  PROVE  /\ Head(chan) = chan[1]
         /\ Head(chan).id \in BuildId
         /\ kind[Head(chan).id] = "Started" /\ task[Head(chan).id] = "done"
         /\ Tail(chan) \in Seq(Message)
         /\ Reported = {Head(chan).id} \cup {Tail(chan)[i].id : i \in DOMAIN Tail(chan)}
         /\ \A i \in DOMAIN Tail(chan) :
              /\ Tail(chan)[i].id \in BuildId \ {Head(chan).id}
              /\ kind[Tail(chan)[i].id] = "Started" /\ task[Tail(chan)[i].id] = "done"
         /\ \A i, j \in DOMAIN Tail(chan) : Tail(chan)[i].id = Tail(chan)[j].id => i = j
<1>1. chan \in Seq(Message) /\ Len(chan) \in Nat /\ Len(chan) >= 1
  BY DEF IInv, TypeOK
<1>2. /\ Head(chan) = chan[1] /\ Tail(chan) \in Seq(Message)
      /\ DOMAIN chan = 1 .. Len(chan) /\ DOMAIN Tail(chan) = 1 .. Len(chan) - 1
      /\ \A i \in DOMAIN Tail(chan) : Tail(chan)[i] = chan[i + 1]
  BY <1>1
<1>3. \A i \in DOMAIN Tail(chan) : i \in Int /\ i + 1 \in DOMAIN chan /\ i + 1 # 1
  BY <1>1, <1>2
<1>4. \A k \in DOMAIN chan : k = 1 \/ (k - 1 \in DOMAIN Tail(chan) /\ (k - 1) + 1 = k)
  BY <1>1, <1>2
<1>5. 1 \in DOMAIN chan
  BY <1>1, <1>2
<1>6. Reported = {Head(chan).id} \cup {Tail(chan)[i].id : i \in DOMAIN Tail(chan)}
  <2>1. ASSUME NEW k \in DOMAIN chan
        PROVE  chan[k].id \in {Head(chan).id} \cup {Tail(chan)[i].id : i \in DOMAIN Tail(chan)}
    <3>1. CASE k = 1
      BY <3>1, <1>2
    <3>2. CASE k - 1 \in DOMAIN Tail(chan) /\ (k - 1) + 1 = k
      BY <3>2, <1>2
    <3> QED BY <1>4, <3>1, <3>2
  <2>2. \A i \in DOMAIN Tail(chan) : Tail(chan)[i].id \in Reported
    BY <1>2, <1>3 DEF Reported
  <2> QED BY <1>2, <1>5, <2>1, <2>2 DEF Reported
<1>7. \A i, j \in DOMAIN Tail(chan) : Tail(chan)[i].id = Tail(chan)[j].id => i = j
  BY <1>2, <1>3 DEF IInv, ChannelExact
<1>8. \A i \in DOMAIN Tail(chan) : Tail(chan)[i].id \in BuildId \ {Head(chan).id}
  BY <1>2, <1>3, <1>5, MessagesTyped DEF IInv, ChannelExact
<1> QED
  BY <1>1, <1>2, <1>3, <1>5, <1>6, <1>7, <1>8, MessagesTyped DEF IInv, ChannelExact

LEMMA RunStep == IInv /\ Run => IInv'
<1> SUFFICES ASSUME IInv, Run PROVE IInv'
  OBVIOUS
<1>1. UNCHANGED <<graph, parallelism, builds, pending, counters, task>> /\ chan' = <<>>
  BY DEF Run
<1>2. TypeOK'
  BY <1>1, TableUnchanged, TasksUnchanged DEF IInv, Run, TypeOK, InRun
<1>3. TaskMatchesKind' /\ ChannelExact'
  BY <1>1 DEF IInv, TaskMatchesKind, ChannelExact, builds
<1>4. SendNeverFails'
  BY DEF Run, SendNeverFails, InRun
<1>5. CallerExact'
  BY <1>1 DEF IInv, TypeOK, Run, CallerExact, AllDone, Tracked, builds, counters, InRun, Ended
<1>6. NothingLost'
  BY <1>1 DEF IInv, TypeOK, Run, CallerExact, NothingLost, Lost, builds
<1> QED BY <1>1, <1>2, <1>3, <1>4, <1>5, <1>6, TableUnchanged DEF IInv

LEMMA LeaveLoopStep == IInv /\ LeaveLoop => IInv'
<1> SUFFICES ASSUME IInv, LeaveLoop PROVE IInv'
  OBVIOUS
<1>1. UNCHANGED <<graph, parallelism, builds, pending, counters, chan, task>> /\ UNCHANGED kind
  BY DEF LeaveLoop, builds
<1>2. TypeOK'
  BY <1>1, TableUnchanged, TasksUnchanged DEF IInv, LeaveLoop, TypeOK, InRun
<1>3. SendNeverFails' /\ NothingLost'
  BY DEF LeaveLoop, SendNeverFails, NothingLost, InRun
<1>4. CallerExact'
  BY <1>1 DEF IInv, LeaveLoop, CallerExact, AllDone, Tracked, builds, counters
<1> QED BY <1>1, <1>2, <1>3, <1>4, TableUnchanged, TasksUnchanged DEF IInv

LEMMA WaitStep == IInv /\ Wait => IInv'
<1> SUFFICES ASSUME IInv, Wait PROVE IInv'
  OBVIOUS
<1>1. UNCHANGED <<graph, parallelism, builds, pending, counters, chan, task>> /\ UNCHANGED kind
  BY DEF Wait, builds
<1>2. TypeOK'
  BY <1>1, TableUnchanged, TasksUnchanged DEF IInv, Wait, TypeOK, InRun
<1>3. SendNeverFails' /\ NothingLost'
  BY <1>1 DEF IInv, Wait, SendNeverFails, NothingLost, Lost, Reported, InRun
<1>4. CallerExact'
  BY <1>1 DEF IInv, TypeOK, Wait, CallerExact, AllDone, Tracked, builds, counters
<1> QED BY <1>1, <1>2, <1>3, <1>4, TableUnchanged, TasksUnchanged DEF IInv

\* The panic "No builds are in progress, but not all builds are finished" needs
\* a pool without slots.  Otherwise nothing runs and nothing is ready; then,
\* the graph having no cycle, some unfinished wanted build has only finished
\* dependencies, and as nothing failed that build is ready after all.
LEMMA NoStall ==
  ASSUME IInv, NothingToStart, ~AllDone, running = 0, graph \in Graphs
  PROVE  parallelism = 0
<1> SUFFICES ASSUME parallelism > 0 PROVE FALSE
  BY DEF IInv, TypeOK
<1> DEFINE Open == {b \in Tracked : kind[b] \notin Finished}
<1>1. pending = {}
  BY DEF NothingToStart, HasSlot
<1>2. OfKind({"Started"}) = {} /\ OfKind({"Failed", "Skipped"}) = {}
  <2>1. OfKind({"Started"}) \in SUBSET BuildId /\ OfKind({"Failed", "Skipped"}) \in SUBSET BuildId
    BY DEF OfKind
  <2>2. failed = 0
    BY DEF AllDone, IInv, TypeOK
  <2> QED BY <2>1, <2>2, BuildSetsFinite DEF IInv, CountersExact
<1>3. \A b \in BuildId : kind[b] \in Finished => kind[b] \in Successful
  BY <1>2 DEF OfKind, Finished, Successful
<1>4. \A b \in Open : kind[b] = "Fresh"
  BY <1>2 DEF OfKind, Tracked, IInv, TypeOK, Kinds
<1>5. Open # {}
  <2>1. SUFFICES ASSUME Open = {} PROVE FALSE
    OBVIOUS
  <2>2. OfKind(Finished) = Tracked
    BY <2>1 DEF OfKind, Tracked, Finished
  <2> QED BY <2>2 DEF IInv, CountersExact, AllDone
<1>6. PICK b \in Open : build_dependencies(graph, b) \cap Open = {}
  <2>1. Open \in (SUBSET BuildId) \ {{}}
    BY <1>5 DEF Tracked
  <2>2. Acyclic(graph)
    BY GraphsAssumption
  <2> QED BY <2>1, <2>2 DEF Acyclic
<1>7. build_dependencies(graph, b) \subseteq Tracked
  BY DEF IInv, TrackedClosed, DepClosed, Tracked
<1>8. Unbuilt(b) = {}
  BY <1>3, <1>6, <1>7 DEF Unbuilt, Tracked
<1>9. b \in pending
  BY <1>4, <1>8 DEF IInv, PendingExact, OfKind, Tracked
<1> QED BY <1>1, <1>9

LEMMA StallStep == IInv /\ graph \in Graphs /\ Stall => IInv'
<1> SUFFICES ASSUME IInv, graph \in Graphs, Stall PROVE IInv'
  OBVIOUS
<1>1. UNCHANGED <<graph, parallelism, builds, pending, counters, chan, task>> /\ UNCHANGED kind
  BY DEF Stall, builds
<1>2. TypeOK'
  BY <1>1, TableUnchanged, TasksUnchanged DEF IInv, Stall, TypeOK, InRun
<1>3. SendNeverFails' /\ NothingLost'
  BY DEF Stall, SendNeverFails, NothingLost, InRun
<1>4. CallerExact'
  BY <1>1, NoStall DEF IInv, Stall, CallerExact, AllDone, Tracked, builds, counters
<1> QED BY <1>1, <1>2, <1>3, <1>4, TableUnchanged, TasksUnchanged DEF IInv

LEMMA JoinStep == IInv /\ Join => IInv'
<1> SUFFICES ASSUME IInv, Join PROVE IInv'
  OBVIOUS
<1>1. UNCHANGED <<graph, parallelism, builds, pending, counters, task>> /\ UNCHANGED kind /\ chan' = <<>>
  BY DEF Join, builds
<1>2. TypeOK'
  BY <1>1, TableUnchanged DEF IInv, Join, TypeOK, Ended
<1>3. SendNeverFails' /\ NothingLost'
  BY <1>1 DEF Join, SendNeverFails, NothingLost, ScopeDone, LiveTasks
<1>4. TaskMatchesKind' /\ ChannelExact'
  BY <1>1 DEF IInv, TaskMatchesKind, ChannelExact
<1>5. CallerExact'
  BY <1>1 DEF IInv, TypeOK, Join, CallerExact, AllDone, Tracked, builds, counters
<1> QED BY <1>1, <1>2, <1>3, <1>4, <1>5, TableUnchanged DEF IInv

LEMMA ReceiveErrStep == IInv /\ ReceiveErr => IInv'
<1> SUFFICES ASSUME IInv, ReceiveErr PROVE IInv'
  OBVIOUS
<1>1. UNCHANGED <<graph, parallelism, builds, pending, counters, task>> /\ UNCHANGED kind
      /\ chan # <<>> /\ chan' = Tail(chan)
  BY DEF ReceiveErr, Received, builds
<1>2. TypeOK'
  BY <1>1, TableUnchanged DEF IInv, ReceiveErr, TypeOK, InRun
<1>3. SendNeverFails' /\ NothingLost'
  BY <1>1 DEF ReceiveErr, SendNeverFails, NothingLost, InRun
<1>4. TaskMatchesKind' /\ ChannelExact'
  <2>1. TaskMatchesKind'
    BY <1>1 DEF IInv, TaskMatchesKind
  <2>2. ChannelExact'
    BY <1>1 DEF IInv, TypeOK, ChannelExact
  <2> QED BY <2>1, <2>2
<1>5. CallerExact'
  BY <1>1 DEF IInv, TypeOK, ReceiveErr, Received, CallerExact, AllDone, Tracked, builds, counters
<1> QED BY <1>1, <1>2, <1>3, <1>4, <1>5, TableUnchanged DEF IInv

LEMMA BeginExecuteStep ==
  ASSUME IInv, NEW b \in BuildId, BeginExecute(b)
  PROVE  IInv'
<1>1. UNCHANGED <<graph, parallelism, builds, pending, counters, chan>> /\ UNCHANGED kind
      /\ task[b] = "spawned" /\ task' = [task EXCEPT ![b] = "executing"]
  BY DEF BeginExecute, builds
<1>2. TypeOK'
  BY <1>1, TableUnchanged DEF IInv, BeginExecute, TypeOK, caller, Live
<1>3. TaskMatchesKind' /\ ChannelExact'
  BY <1>1 DEF IInv, TypeOK, TaskMatchesKind, ChannelExact, Live
<1>4. SendNeverFails'
  BY <1>1 DEF IInv, TypeOK, BeginExecute, SendNeverFails, LiveTasks, Live, caller
<1>5. NothingLost'
  BY <1>1 DEF IInv, TypeOK, BeginExecute, NothingLost, Lost, Reported, Live, caller
<1>6. CallerExact'
  BY <1>1 DEF IInv, TypeOK, BeginExecute, CallerExact, AllDone, Tracked, builds,
              counters, caller
<1> QED BY <1>1, <1>2, <1>3, <1>4, <1>5, <1>6, TableUnchanged DEF IInv

LEMMA PanicStep ==
  ASSUME IInv, NEW b \in BuildId, Panic(b)
  PROVE  IInv'
<1>1. UNCHANGED <<graph, parallelism, builds, pending, counters, chan>> /\ UNCHANGED kind
      /\ task[b] \in Live /\ task' = [task EXCEPT ![b] = "panicked"]
  BY DEF Panic, builds
<1>2. TypeOK'
  BY <1>1, TableUnchanged DEF IInv, Panic, TypeOK, caller, Live
<1>3. TaskMatchesKind' /\ ChannelExact'
  BY <1>1 DEF IInv, TypeOK, TaskMatchesKind, ChannelExact, Live
<1>4. SendNeverFails'
  BY <1>1 DEF IInv, TypeOK, Panic, SendNeverFails, LiveTasks, Live, caller
<1>5. NothingLost'
  BY <1>1 DEF IInv, TypeOK, Panic, NothingLost, Lost, Reported, Live, caller
<1>6. CallerExact'
  BY <1>1 DEF IInv, TypeOK, Panic, CallerExact, AllDone, Tracked, builds,
              counters, caller
<1> QED BY <1>1, <1>2, <1>3, <1>4, <1>5, <1>6, TableUnchanged DEF IInv

\* The message goes to the end of the channel; a task sends once.
LEMMA ReportStep ==
  ASSUME IInv, NEW b \in BuildId, NEW r \in ExecuteResults, Report(b, r)
  PROVE  IInv'
<1> DEFINE m == [id |-> b, result |-> r]
<1>1. UNCHANGED <<graph, parallelism, builds, pending, counters>> /\ UNCHANGED kind
      /\ task[b] \in Live /\ task' = [task EXCEPT ![b] = "done"]
      /\ chan' = Append(chan, m) /\ UNCHANGED <<pc, outcome, runs>>
  BY DEF Report, Sent, builds, caller, Live
<1>2. m \in Message /\ m.id = b
  BY DEF Message, Results, Successful, ExecuteResults
<1>3. chan \in Seq(Message) /\ task \in [BuildId -> {"idle", "done", "panicked"} \cup Live]
  BY DEF IInv, TypeOK
<1>4. /\ DOMAIN chan = 1 .. Len(chan) /\ Len(chan) \in Nat
      /\ DOMAIN chan' = 1 .. Len(chan) + 1
      /\ \A i \in DOMAIN chan : chan'[i] = chan[i] /\ chan[i] \in Message
      /\ chan'[Len(chan) + 1] = m
  BY <1>1, <1>2, <1>3
<1>5. TypeOK'
  <2>1. chan' \in Seq(Message)
    BY <1>1, <1>2, <1>3
  <2> QED BY <1>1, <1>3, <2>1, TableUnchanged DEF IInv, TypeOK
<1>6. b \notin Reported
  BY <1>1, <1>3 DEF IInv, ChannelExact, Reported, Live
<1>7. Reported' = Reported \cup {b}
  BY <1>2, <1>4 DEF Reported
<1>8. TaskMatchesKind'
  BY <1>1, <1>3 DEF IInv, TaskMatchesKind, Live
<1>9. ChannelExact'
  <2>1. kind[b] = "Started"
    BY <1>1 DEF IInv, TaskMatchesKind
  <2>2. \A i \in DOMAIN chan : chan[i].id # b /\ chan[i].id \in BuildId
    BY <1>4, <1>6 DEF Reported, Message
  <2>3. \A i \in (DOMAIN chan)' : kind'[chan'[i].id] = "Started" /\ task'[chan'[i].id] = "done"
    BY <1>1, <1>2, <1>3, <1>4, <2>1, <2>2 DEF IInv, ChannelExact
  <2>4. \A i, j \in (DOMAIN chan)' : chan'[i].id = chan'[j].id => i = j
    BY <1>2, <1>4, <2>2 DEF IInv, ChannelExact
  <2> QED BY <2>3, <2>4 DEF ChannelExact
<1>10. SendNeverFails'
  BY <1>1, <1>3 DEF IInv, SendNeverFails, LiveTasks, Live
<1>11. NothingLost'
  BY <1>1, <1>3, <1>7 DEF IInv, NothingLost, Lost, Live
<1>12. CallerExact'
  BY <1>1, <1>3 DEF IInv, CallerExact, AllDone, Tracked, builds, counters, Live
<1> QED BY <1>1, <1>5, <1>8, <1>9, <1>10, <1>11, <1>12, TableUnchanged DEF IInv

LEMMA StartBuildStep ==
  ASSUME IInv, NEW b \in BuildId, StartBuild(b)
  PROVE  IInv'
<1>1. /\ pc = "start" /\ running < parallelism /\ b \in pending
      /\ pending' = pending \ {b}
      /\ kind' = [kind EXCEPT ![b] = "Started"]
      /\ running' = running + 1
      /\ task' = [task EXCEPT ![b] = "spawned"]
      /\ UNCHANGED <<graph, parallelism, pending_inputs, finished, failed, pc, outcome, runs, chan>>
  BY DEF StartBuild, HasSlot, PendingPopped, caller
<1>2. /\ kind \in [BuildId -> Kinds]
      /\ task \in [BuildId -> {"idle", "done", "panicked"} \cup Live]
      /\ running \in Nat
  BY DEF IInv, TypeOK
<1>3. kind[b] = "Fresh" /\ Unbuilt(b) = {} /\ task[b] = "idle"
  BY <1>1 DEF IInv, PendingExact, OfKind, TaskMatchesKind
<1>4. TypeOK'
  BY <1>1, <1>2 DEF IInv, TypeOK, Kinds, Live
<1>5. \A c \in BuildId : Unbuilt(c)' = Unbuilt(c)
  <2>1. \A d \in BuildId : kind'[d] \in Successful <=> kind[d] \in Successful
    BY <1>1, <1>2, <1>3 DEF Successful
  <2>2. graph \in BuildGraphs /\ graph' = graph
    BY <1>1 DEF IInv, TypeOK
  <2> QED BY <2>1, <2>2 DEF Unbuilt, build_dependencies, BuildGraphs
<1>6. Tracked' = Tracked /\ TrackedClosed'
  BY <1>1, <1>2, <1>3 DEF IInv, TrackedClosed, Tracked, DepClosed, build_dependencies
<1>7. TaskMatchesKind' /\ NeverSkipped'
  BY <1>1, <1>2, <1>3 DEF IInv, TaskMatchesKind, NeverSkipped, Live
<1>8. BuiltInOrder'
  BY <1>1, <1>2, <1>3, <1>5 DEF IInv, BuiltInOrder
<1>9. PendingExact'
  <2>1. OfKind({"Fresh"})' = OfKind({"Fresh"}) \ {b}
    BY <1>1, <1>2 DEF OfKind
  <2>2. \A c \in Tracked' : pending_inputs'[c] = Cardinality(Unbuilt(c)')
    BY <1>1, <1>5, <1>6 DEF IInv, PendingExact, Tracked
  <2>3. pending' = {c \in OfKind({"Fresh"})' : Unbuilt(c)' = {}}
    BY <1>1, <1>5, <2>1 DEF IInv, PendingExact, OfKind
  <2> QED BY <2>2, <2>3 DEF PendingExact
<1>10. CountersExact'
  <2>1. OfKind({"Started"})' = OfKind({"Started"}) \cup {b} /\ b \notin OfKind({"Started"})
    BY <1>1, <1>2, <1>3 DEF OfKind
  <2>2. OfKind(Finished)' = OfKind(Finished)
        /\ OfKind({"Failed", "Skipped"})' = OfKind({"Failed", "Skipped"})
    BY <1>1, <1>2, <1>3 DEF OfKind, Finished
  <2>3. Cardinality(OfKind({"Started"})') = Cardinality(OfKind({"Started"})) + 1
    BY <2>1, CardinalityAdd DEF OfKind
  <2> QED BY <1>1, <2>2, <2>3 DEF IInv, CountersExact
<1>11. ChannelExact'
  BY <1>1, <1>2, <1>3 DEF IInv, ChannelExact, TypeOK, Message
<1>12. SendNeverFails'
  BY <1>1 DEF SendNeverFails, InRun
<1>13. NothingLost'
  BY <1>1, <1>2, <1>3 DEF IInv, NothingLost, Lost, Reported, Live
<1>14. CallerExact'
  BY <1>1, <1>2, <1>3, <1>6 DEF IInv, TypeOK, CallerExact, AllDone
<1> QED
  BY <1>4, <1>6, <1>7, <1>8, <1>9, <1>10, <1>11, <1>12, <1>13, <1>14 DEF IInv

\* want() before the first run(): the search adds untracked builds only, and
\* stops at tracked ones, whose dependencies are tracked already.
LEMMA WantStep ==
  ASSUME IInv, NEW S \in SUBSET BuildId, Want(S)
  PROVE  IInv'
<1> DEFINE unmet == [b \in BuildId |-> build_dependencies(graph, b) \ Tracked]
           new == Reach(unmet, S \ Tracked)
<1>1. /\ pc = "idle"
      /\ kind' = [b \in BuildId |-> IF b \in new THEN "Fresh" ELSE kind[b]]
      /\ pending_inputs' = [b \in BuildId |-> IF b \in new THEN children_count(b)
                                                           ELSE pending_inputs[b]]
      /\ pending' = pending \cup {b \in new : children_count(b) = 0}
      /\ UNCHANGED <<graph, parallelism, running, finished, failed, pc, outcome, runs, chan, task>>
  BY DEF Want, counters, caller
<1>2. /\ graph \in BuildGraphs /\ kind \in [BuildId -> Kinds]
      /\ pending_inputs \in [BuildId -> Nat] /\ pending \subseteq BuildId
  BY DEF IInv, TypeOK
<1>3. new \subseteq BuildId \ Tracked
  <2>1. DepClosed(unmet, BuildId \ Tracked)
    BY <1>2 DEF DepClosed, build_dependencies, BuildGraphs
  <2> QED BY <2>1, ReachLeast
<1>4. \A b \in new : build_dependencies(graph, b) \subseteq new \cup Tracked
  <2>1. unmet \in BuildGraphs
    BY <1>2 DEF BuildGraphs, build_dependencies
  <2>2. DepClosed(unmet, new)
    BY <2>1, ReachClosed
  <2> QED BY <1>3, <2>2 DEF DepClosed, build_dependencies
<1> HIDE DEF unmet, new
<1>5. \A b \in BuildId : kind[b] \in {"Untracked", "Fresh"} /\ kind'[b] \in {"Untracked", "Fresh"}
  BY <1>1 DEF IInv, CallerExact
<1>6. \A b \in BuildId : /\ Unbuilt(b) = build_dependencies(graph, b)
                         /\ Unbuilt(b)' = build_dependencies(graph, b)
                         /\ Unbuilt(b) \in SUBSET BuildId
  BY <1>1, <1>2, <1>5 DEF Unbuilt, build_dependencies, BuildGraphs, Successful
<1>7. \A b \in BuildId : children_count(b) \in Nat /\ (children_count(b) = 0 <=> Unbuilt(b) = {})
  BY <1>6, BuildSetsFinite DEF children_count
<1>8. Tracked' = Tracked \cup new
  BY <1>1, <1>3 DEF Tracked
<1>9. TypeOK'
  BY <1>1, <1>2, <1>3, <1>7 DEF IInv, TypeOK, Kinds
<1>10. TrackedClosed'
  BY <1>1, <1>4, <1>8 DEF IInv, TrackedClosed, DepClosed, build_dependencies
<1>11. TaskMatchesKind'
  BY <1>1, <1>5 DEF IInv, TaskMatchesKind, Live
<1>12. BuiltInOrder' /\ NeverSkipped'
  BY <1>5 DEF BuiltInOrder, NeverSkipped, Finished
<1>13. PendingExact'
  <2>1. \A b \in Tracked' : pending_inputs'[b] = Cardinality(Unbuilt(b)')
    BY <1>1, <1>3, <1>6, <1>8 DEF IInv, PendingExact, Tracked, children_count
  <2>2. OfKind({"Fresh"})' = OfKind({"Fresh"}) \cup new
    BY <1>1, <1>3 DEF OfKind
  <2>3. pending' = {b \in OfKind({"Fresh"})' : Unbuilt(b)' = {}}
    BY <1>1, <1>3, <1>6, <1>7, <2>2 DEF IInv, PendingExact, OfKind
  <2> QED BY <2>1, <2>3 DEF PendingExact
<1>14. CountersExact'
  <2>1. OfKind({"Started"})' = OfKind({"Started"}) /\ OfKind(Finished)' = OfKind(Finished)
        /\ OfKind({"Failed", "Skipped"})' = OfKind({"Failed", "Skipped"})
    BY <1>5 DEF OfKind, Finished
  <2> QED BY <1>1, <2>1 DEF IInv, CountersExact
<1>15. ChannelExact'
  <2>1. \A i \in DOMAIN chan : chan[i].id \in BuildId
    BY MessagesTyped
  <2> QED BY <1>1, <1>5, <2>1 DEF IInv, ChannelExact
<1>16. SendNeverFails' /\ NothingLost'
  BY <1>1 DEF IInv, SendNeverFails, NothingLost, LiveTasks
<1>17. CallerExact'
  BY <1>1, <1>5 DEF IInv, CallerExact
<1> QED
  BY <1>9, <1>10, <1>11, <1>12, <1>13, <1>14, <1>15, <1>16, <1>17 DEF IInv

\* A result that is taken moves its build from Started to a finished kind k.
\* What that does to the rest of the invariant does not depend on the kind.
LEMMA FinishOne ==
  ASSUME IInv, NEW k \in Finished \ {"Skipped"}, pc = "recv", chan # <<>>,
         chan' = Tail(chan),
         kind' = [kind EXCEPT ![Head(chan).id] = k],
         running' = running - 1, finished' = finished + 1, pc' = "start",
         UNCHANGED <<graph, parallelism, outcome, runs, task>>
  PROVE  /\ Tracked' = Tracked /\ TrackedClosed'
         /\ TaskMatchesKind' /\ NeverSkipped'
         /\ ChannelExact' /\ SendNeverFails' /\ CallerExact' /\ NothingLost'
         /\ running' \in Nat /\ running' = Cardinality(OfKind({"Started"})')
         /\ finished' \in Nat /\ finished' = Cardinality(OfKind(Finished)')
         /\ kind' \in [BuildId -> Kinds] /\ (chan \in Seq(Message))'
<1> DEFINE id == Head(chan).id
<1>1. /\ kind \in [BuildId -> Kinds]
      /\ task \in [BuildId -> {"idle", "done", "panicked"} \cup Live]
      /\ running \in Nat /\ finished \in Nat /\ runs \in Nat
  BY DEF IInv, TypeOK
<1>2. id \in BuildId /\ kind[id] = "Started" /\ task[id] = "done"
  BY FirstMessage
<1> HIDE DEF id
<1>3. kind' = [kind EXCEPT ![id] = k] /\ k \in Finished /\ k # "Skipped"
  BY DEF id
<1>4. kind' \in [BuildId -> Kinds] /\ (chan \in Seq(Message))'
  BY <1>1, <1>3, FirstMessage DEF Kinds
<1>5. Tracked' = Tracked /\ TrackedClosed'
  BY <1>1, <1>2, <1>3 DEF IInv, TrackedClosed, Tracked, DepClosed, build_dependencies, Finished
<1>6. TaskMatchesKind' /\ NeverSkipped'
  BY <1>1, <1>2, <1>3 DEF IInv, TaskMatchesKind, NeverSkipped, Live, Finished
<1>7. ChannelExact'
  BY <1>1, <1>3, FirstMessage DEF ChannelExact, id
<1>8. SendNeverFails'
  BY DEF SendNeverFails, InRun
<1>9. running' \in Nat /\ running' = Cardinality(OfKind({"Started"})')
  <2>1. OfKind({"Started"})' = OfKind({"Started"}) \ {id} /\ id \in OfKind({"Started"})
    BY <1>1, <1>2, <1>3 DEF OfKind, Finished
  <2>2. /\ Cardinality(OfKind({"Started"})') = Cardinality(OfKind({"Started"})) - 1
        /\ Cardinality(OfKind({"Started"})) > 0
    BY <2>1, CardinalityRemove DEF OfKind
  <2> QED BY <1>1, <2>2 DEF IInv, CountersExact
<1>10. finished' \in Nat /\ finished' = Cardinality(OfKind(Finished)')
  <2>1. OfKind(Finished)' = OfKind(Finished) \cup {id} /\ id \notin OfKind(Finished)
    BY <1>1, <1>2, <1>3 DEF OfKind, Finished
  <2>2. Cardinality(OfKind(Finished)') = Cardinality(OfKind(Finished)) + 1
    BY <1>2, <2>1, CardinalityAdd DEF OfKind
  <2> QED BY <1>1, <2>2 DEF IInv, CountersExact
<1>11. CallerExact'
  BY <1>1 DEF IInv, TypeOK, CallerExact
<1>12. NothingLost'
  <2> SUFFICES ASSUME runs = 1, NEW b \in BuildId, Lost(b)'
               PROVE  task[b] = "panicked"
    BY DEF NothingLost
  <2>1. b # id /\ kind[b] = "Started" /\ task[b] \notin Live
    BY <1>1, <1>2, <1>3 DEF Lost, Finished
  <2>2. Reported' = {Tail(chan)[i].id : i \in DOMAIN Tail(chan)}
    BY DEF Reported
  <2>3. Reported = {id} \cup Reported'
    BY <2>2, FirstMessage DEF id
  <2>4. b \notin Reported
    BY <2>1, <2>3 DEF Lost
  <2> QED BY <2>1, <2>4 DEF IInv, NothingLost, Lost
<1> QED BY <1>4, <1>5, <1>6, <1>7, <1>8, <1>9, <1>10, <1>11, <1>12

\* The panics inside build_finished cannot happen: the build of a message is
\* still Started, and its consumers wait for it.
LEMMA ReceiveSuccessEffect ==
  ASSUME IInv, NEW r \in Successful, ReceiveSuccess(r),
         NEW id, id = Head(chan).id
  PROVE  /\ id \in BuildId /\ kind[id] = "Started" /\ chan # <<>> /\ pc = "recv"
         /\ \A c \in build_dependents(graph, id) :
              c \in BuildId /\ id \in Unbuilt(c) /\ kind[c] \in {"Untracked", "Fresh"}
         /\ chan' = Tail(chan)
         /\ running' = running - 1 /\ finished' = finished + 1
         /\ pc' = "start"
         /\ kind' = [kind EXCEPT ![id] = r]
         /\ pending_inputs' = Decremented(id)
         /\ pending' = pending \cup NewlyReady(id)
         /\ UNCHANGED <<graph, parallelism, failed, outcome, runs, task>>
<1>1. /\ id \in BuildId /\ kind[id] = "Started" /\ chan # <<>> /\ pc = "recv"
  BY FirstMessage DEF ReceiveSuccess, Received
<1>2. \A c \in build_dependents(graph, id) :
        c \in BuildId /\ id \in Unbuilt(c) /\ kind[c] \in {"Untracked", "Fresh"}
  <2> SUFFICES ASSUME NEW c \in build_dependents(graph, id)
               PROVE  c \in BuildId /\ id \in Unbuilt(c) /\ kind[c] \in {"Untracked", "Fresh"}
    OBVIOUS
  <2>1. c \in BuildId /\ id \in Unbuilt(c)
    BY <1>1 DEF build_dependents, Unbuilt, build_dependencies, Successful
  <2> QED BY <2>1 DEF IInv, TypeOK, BuiltInOrder, Kinds
<1>3. ~AlreadyFinished(id)
  BY <1>1 DEF AlreadyFinished, Finished
<1>4. ~ \E c \in build_dependents(graph, id) : kind[c] \in Successful
  BY <1>2 DEF Successful
<1> QED BY <1>1, <1>2, <1>3, <1>4 DEF ReceiveSuccess, Received

LEMMA ReceiveSuccessStep ==
  ASSUME IInv, NEW r \in Successful, ReceiveSuccess(r)
  PROVE  IInv'
<1> DEFINE id == Head(chan).id
<1>1. /\ id \in BuildId /\ kind[id] = "Started" /\ chan # <<>> /\ pc = "recv"
  BY ReceiveSuccessEffect
<1>2. /\ kind \in [BuildId -> Kinds] /\ graph \in BuildGraphs
      /\ pending_inputs \in [BuildId -> Nat] /\ pending \subseteq BuildId
      /\ failed \in Nat
  BY DEF IInv, TypeOK
<1>3. \A c \in build_dependents(graph, id) :
        c \in BuildId /\ id \in Unbuilt(c) /\ kind[c] \in {"Untracked", "Fresh"}
  BY ReceiveSuccessEffect
<1>4. /\ chan' = Tail(chan)
      /\ running' = running - 1 /\ finished' = finished + 1
      /\ pc' = "start"
      /\ kind' = [kind EXCEPT ![id] = r]
      /\ pending_inputs' = Decremented(id)
      /\ pending' = pending \cup NewlyReady(id)
      /\ UNCHANGED <<graph, parallelism, failed, outcome, runs, task>>
  BY ReceiveSuccessEffect
<1> HIDE DEF id
<1>5. r \in Finished \ {"Skipped"}
  BY DEF Finished, Successful
<1>6. /\ Tracked' = Tracked /\ TrackedClosed'
      /\ TaskMatchesKind' /\ NeverSkipped'
      /\ ChannelExact' /\ SendNeverFails' /\ CallerExact' /\ NothingLost'
      /\ running' \in Nat /\ running' = Cardinality(OfKind({"Started"})')
      /\ finished' \in Nat /\ finished' = Cardinality(OfKind(Finished)')
      /\ kind' \in [BuildId -> Kinds] /\ (chan \in Seq(Message))'
  BY <1>1, <1>4, <1>5, FinishOne DEF id
<1>7. \A c \in BuildId : Unbuilt(c)' = Unbuilt(c) \ {id} /\ Unbuilt(c) \in SUBSET BuildId
  BY <1>1, <1>2, <1>4 DEF Unbuilt, build_dependencies, BuildGraphs
<1>8. Consumers(id) = {c \in Tracked : id \in Unbuilt(c)}
  <2>1. \A c \in BuildId : id \in Unbuilt(c) <=> c \in build_dependents(graph, id)
    BY <1>1, <1>3 DEF Unbuilt, build_dependents, build_dependencies
  <2> QED BY <1>3, <2>1 DEF Consumers, Tracked, Finished
<1>9. \A c \in BuildId : /\ c \in Tracked => Decremented(id)[c] = Cardinality(Unbuilt(c)')
                         /\ Decremented(id)[c] \in Nat
  <2> TAKE c \in BuildId
  <2>1. CASE c \in Consumers(id)
    <3>1. c \in Tracked /\ id \in Unbuilt(c) /\ Unbuilt(c)' = Unbuilt(c) \ {id}
      BY <1>7, <1>8, <2>1
    <3>2. Cardinality(Unbuilt(c)') = Cardinality(Unbuilt(c)) - 1 /\ Cardinality(Unbuilt(c)') \in Nat
      BY <1>7, <3>1, CardinalityRemove, BuildSetsFinite
    <3> QED BY <2>1, <3>1, <3>2 DEF IInv, PendingExact, Decremented
  <2>2. CASE c \notin Consumers(id)
    <3>1. c \in Tracked => Unbuilt(c)' = Unbuilt(c)
      BY <1>7, <1>8, <2>2
    <3> QED BY <1>2, <2>2, <3>1 DEF IInv, PendingExact, Decremented
  <2> QED BY <2>1, <2>2
<1>10. PendingExact'
  <2>1. OfKind({"Fresh"})' = OfKind({"Fresh"})
    BY <1>1, <1>2, <1>4 DEF OfKind, Successful
  <2>2. \A c \in Consumers(id) : c \in OfKind({"Fresh"}) /\ Unbuilt(c) # {}
    BY <1>3, <1>8 DEF Consumers, OfKind, Tracked
  <2>3. \A c \in Consumers(id) : c \in NewlyReady(id) <=> Unbuilt(c)' = {}
    <3> TAKE c \in Consumers(id)
    <3>1. c \in Tracked /\ c \in BuildId /\ Unbuilt(c)' \in SUBSET BuildId
      BY <1>7, <1>8 DEF Tracked
    <3> QED BY <1>9, <3>1, BuildSetsFinite DEF NewlyReady
  <2>4. \A c \in OfKind({"Fresh"}) \ Consumers(id) : Unbuilt(c)' = Unbuilt(c)
    BY <1>7, <1>8 DEF OfKind, Tracked
  <2>5. NewlyReady(id) \subseteq Consumers(id)
    BY DEF NewlyReady
  <2>6. pending' = {c \in OfKind({"Fresh"})' : Unbuilt(c)' = {}}
    BY <1>4, <2>1, <2>2, <2>3, <2>4, <2>5 DEF IInv, PendingExact
  <2>7. \A c \in Tracked' : pending_inputs'[c] = Cardinality(Unbuilt(c)')
    BY <1>4, <1>6, <1>9 DEF Tracked
  <2> QED BY <2>6, <2>7 DEF PendingExact
<1>11. CountersExact'
  <2>1. OfKind({"Failed", "Skipped"})' = OfKind({"Failed", "Skipped"})
    BY <1>1, <1>2, <1>4 DEF OfKind, Successful
  <2> QED BY <1>4, <1>6, <2>1 DEF IInv, CountersExact
<1>12. BuiltInOrder'
  <2> SUFFICES ASSUME NEW b \in BuildId, kind'[b] \in {"Started"} \cup Finished
               PROVE  Unbuilt(b)' = {}
    BY DEF BuiltInOrder
  <2>1. kind[b] \in {"Started"} \cup Finished
    BY <1>1, <1>2, <1>4 DEF Finished
  <2> QED BY <1>7, <2>1 DEF IInv, BuiltInOrder
<1>13. TypeOK'
  <2>1. pending_inputs' \in [BuildId -> Nat]
    BY <1>4, <1>9 DEF Decremented
  <2>2. pending' \subseteq BuildId
    BY <1>2, <1>4 DEF NewlyReady, Consumers, build_dependents
  <2> QED BY <1>4, <1>6, <2>1, <2>2 DEF IInv, TypeOK, InRun
<1> QED BY <1>6, <1>10, <1>11, <1>12, <1>13 DEF IInv

\* Nothing is skipped: what a failed build depends on has been built.
LEMMA NothingToSkip ==
  ASSUME IInv, NEW id \in BuildId, kind[id] = "Started"
  PROVE  ToSkip(id) = {}
<1> DEFINE T == {b \in BuildId : kind[b] \in Successful} \cup {id}
<1>1. \A b \in T : Unbuilt(b) = {}
  BY DEF IInv, BuiltInOrder, Finished, Successful
<1>2. \A b \in T : build_dependencies(graph, b) \subseteq T
  <2> TAKE b \in T
  <2>1. build_dependencies(graph, b) \subseteq BuildId
    BY DEF IInv, TypeOK, BuildGraphs, build_dependencies
  <2> QED BY <1>1, <2>1 DEF Unbuilt
<1>3. Reach(graph, {id}) \subseteq T
  BY <1>2, ReachLeast DEF DepClosed
<1> QED BY <1>3 DEF ToSkip, Finished, Successful

LEMMA ReceiveFailedEffect ==
  ASSUME IInv, ReceiveFailed, NEW id, id = Head(chan).id
  PROVE  /\ id \in BuildId /\ kind[id] = "Started" /\ chan # <<>> /\ pc = "recv"
         /\ chan' = Tail(chan)
         /\ running' = running - 1 /\ finished' = finished + 1 /\ failed' = failed + 1
         /\ pc' = "start"
         /\ kind' = [kind EXCEPT ![id] = "Failed"]
         /\ UNCHANGED <<graph, parallelism, pending_inputs, pending, outcome, runs, task>>
<1>1. /\ id \in BuildId /\ kind[id] = "Started" /\ chan # <<>> /\ pc = "recv"
  BY FirstMessage DEF ReceiveFailed, Received
<1>2. ToSkip(id) = {} /\ Cardinality(ToSkip(id)) = 0
  BY <1>1, NothingToSkip, FS_EmptySet
<1>3. ~AlreadyFinished(id)
  BY <1>1 DEF AlreadyFinished, Finished
<1>4. /\ chan' = Tail(chan) /\ running' = running - 1 /\ pc' = "start"
      /\ kind' = [b \in BuildId |-> IF b = id THEN "Failed"
                                    ELSE IF b \in ToSkip(id) THEN "Skipped"
                                    ELSE kind[b]]
      /\ finished' = finished + 1 + Cardinality(ToSkip(id))
      /\ failed' = failed + NewlyFailed(id)
      /\ UNCHANGED <<graph, parallelism, pending_inputs, pending, outcome, runs, task>>
  BY <1>3 DEF ReceiveFailed, Received
<1>5. kind' = [kind EXCEPT ![id] = "Failed"]
  BY <1>2, <1>4 DEF IInv, TypeOK
<1>6. NewlyFailed(id) = 1
  BY <1>2 DEF NewlyFailed
<1>7. finished' = finished + 1 /\ failed' = failed + 1
  BY <1>2, <1>4, <1>6 DEF IInv, TypeOK
<1> QED BY <1>1, <1>4, <1>5, <1>7

LEMMA ReceiveFailedStep == IInv /\ ReceiveFailed => IInv'
<1> SUFFICES ASSUME IInv, ReceiveFailed PROVE IInv'
  OBVIOUS
<1> DEFINE id == Head(chan).id
<1>1. /\ id \in BuildId /\ kind[id] = "Started" /\ chan # <<>> /\ pc = "recv"
  BY ReceiveFailedEffect
<1>2. /\ kind \in [BuildId -> Kinds] /\ graph \in BuildGraphs
      /\ finished \in Nat /\ failed \in Nat
  BY DEF IInv, TypeOK
<1>4. /\ chan' = Tail(chan)
      /\ running' = running - 1 /\ finished' = finished + 1 /\ failed' = failed + 1
      /\ pc' = "start"
      /\ kind' = [kind EXCEPT ![id] = "Failed"]
      /\ UNCHANGED <<graph, parallelism, pending_inputs, pending, outcome, runs, task>>
  BY ReceiveFailedEffect
<1> HIDE DEF id
<1>5. /\ Tracked' = Tracked /\ TrackedClosed'
      /\ TaskMatchesKind' /\ NeverSkipped'
      /\ ChannelExact' /\ SendNeverFails' /\ CallerExact' /\ NothingLost'
      /\ running' \in Nat /\ running' = Cardinality(OfKind({"Started"})')
      /\ finished' \in Nat /\ finished' = Cardinality(OfKind(Finished)')
      /\ kind' \in [BuildId -> Kinds] /\ (chan \in Seq(Message))'
  <2>1. "Failed" \in Finished \ {"Skipped"}
    BY DEF Finished
  <2> QED BY <1>1, <1>4, <2>1, FinishOne DEF id
<1>6. \A c \in BuildId : Unbuilt(c)' = Unbuilt(c)
  BY <1>1, <1>2, <1>4 DEF Unbuilt, build_dependencies, BuildGraphs, Successful
<1>7. PendingExact'
  <2>1. OfKind({"Fresh"})' = OfKind({"Fresh"})
    BY <1>1, <1>2, <1>4 DEF OfKind
  <2>2. \A c \in Tracked' : pending_inputs'[c] = Cardinality(Unbuilt(c)')
    BY <1>4, <1>5, <1>6 DEF IInv, PendingExact, Tracked
  <2>3. pending' = {c \in OfKind({"Fresh"})' : Unbuilt(c)' = {}}
    BY <1>4, <1>6, <2>1 DEF IInv, PendingExact, OfKind
  <2> QED BY <2>2, <2>3 DEF PendingExact
<1>8. CountersExact'
  <2>1. OfKind({"Failed", "Skipped"})' = OfKind({"Failed", "Skipped"}) \cup {id}
        /\ id \notin OfKind({"Failed", "Skipped"})
    BY <1>1, <1>2, <1>4 DEF OfKind
  <2>2. Cardinality(OfKind({"Failed", "Skipped"})') = Cardinality(OfKind({"Failed", "Skipped"})) + 1
    BY <1>1, <2>1, CardinalityAdd DEF OfKind
  <2> QED BY <1>4, <1>5, <2>2 DEF IInv, CountersExact
<1>9. BuiltInOrder'
  <2> SUFFICES ASSUME NEW b \in BuildId, kind'[b] \in {"Started"} \cup Finished
               PROVE  Unbuilt(b)' = {}
    BY DEF BuiltInOrder
  <2>1. kind[b] \in {"Started"} \cup Finished
    BY <1>1, <1>2, <1>4 DEF Finished
  <2> QED BY <1>6, <2>1 DEF IInv, BuiltInOrder
<1>10. TypeOK'
  BY <1>4, <1>5, <1>2 DEF IInv, TypeOK, InRun
<1> QED BY <1>5, <1>7, <1>8, <1>9, <1>10 DEF IInv

LEMMA NextIInv == IInv /\ graph \in Graphs /\ [Next]_vars => IInv'
<1> SUFFICES ASSUME IInv, graph \in Graphs, [Next]_vars PROVE IInv'
  OBVIOUS
<1>1. CASE \E S \in SUBSET BuildId : Want(S)
  BY <1>1, WantStep
<1>2. CASE Run
  BY <1>2, RunStep
<1>3. CASE \E b \in BuildId : StartBuild(b)
  BY <1>3, StartBuildStep
<1>4. CASE LeaveLoop
  BY <1>4, LeaveLoopStep
<1>5. CASE Stall
  BY <1>5, StallStep
<1>6. CASE Wait
  BY <1>6, WaitStep
<1>7. CASE ReceiveErr
  BY <1>7, ReceiveErrStep
<1>8. CASE \E r \in Successful : ReceiveSuccess(r)
  BY <1>8, ReceiveSuccessStep
<1>9. CASE ReceiveFailed
  BY <1>9, ReceiveFailedStep
<1>10. CASE Join
  BY <1>10, JoinStep
<1>11. CASE \E b \in BuildId : TaskStep(b)
  BY <1>11, BeginExecuteStep, ReportStep, PanicStep DEF TaskStep
<1>12. CASE UNCHANGED vars
  <2>1. /\ UNCHANGED <<graph, parallelism, builds, pending, counters>> /\ UNCHANGED <<kind, chan, task>>
        /\ UNCHANGED <<pc, outcome, runs>>
    BY <1>12 DEF vars, builds, caller
  <2>2. TypeOK'
    BY <2>1, TableUnchanged, TasksUnchanged DEF IInv, TypeOK
  <2>3. SendNeverFails' /\ NothingLost' /\ CallerExact'
    BY <2>1 DEF IInv, SendNeverFails, NothingLost, CallerExact, Lost, Reported,
                LiveTasks, AllDone, Tracked, counters
  <2> QED BY <2>1, <2>2, <2>3, TableUnchanged, TasksUnchanged DEF IInv
<1> QED
  BY <1>1, <1>2, <1>3, <1>4, <1>5, <1>6, <1>7, <1>8, <1>9, <1>10, <1>11, <1>12
     DEF Next, MainStep

\* No action changes the graph.
LEMMA GraphFixed == [Next]_vars => UNCHANGED <<graph, parallelism>>
BY DEF Next, MainStep, TaskStep, vars, Want, Run, StartBuild, LeaveLoop, Stall, Wait,
       ReceiveErr, ReceiveSuccess, ReceiveFailed, Join, BeginExecute, Report, Panic

\* The inductive invariant holds in every reachable state.
THEOREM Invariance == Spec => [](IInv /\ graph \in Graphs)
<1>1. Init => IInv /\ graph \in Graphs
  BY InitIInv DEF Init
<1>2. IInv /\ graph \in Graphs /\ [Next]_vars => (IInv /\ graph \in Graphs)'
  BY NextIInv, GraphFixed
<1> QED BY <1>1, <1>2, PTL DEF Spec

-----------------------------------------------------------------------------
(* What the executor guarantees.                                           *)

\* Every variable keeps its type: no counter goes below zero.
THEOREM TypeCorrect == Spec => []TypeOK
<1>1. IInv => TypeOK
  BY DEF IInv
<1> QED BY <1>1, Invariance, PTL

\* The counters always agree with the table.
THEOREM CountersAlwaysExact == Spec => []CountersExact
<1>1. IInv => CountersExact
  BY DEF IInv
<1> QED BY <1>1, Invariance, PTL

\* pending_inputs and the pending set always agree with the table.
THEOREM PendingAlwaysExact == Spec => []PendingExact
<1>1. IInv => PendingExact
  BY DEF IInv
<1> QED BY <1>1, Invariance, PTL

\* No task runs before all it depends on, transitively, has been built: the
\* builds that are built, with the task's own, are closed under dependencies.
THEOREM DepsAlwaysBuiltFirst == Spec => []DepsBuiltFirst
<1>1. IInv => DepsBuiltFirst
  <2> SUFFICES ASSUME IInv, NEW b \in LiveTasks
               PROVE  \A d \in Reach(graph, {b}) \ {b} : kind[d] \in Successful
    BY DEF DepsBuiltFirst
  <2> DEFINE T == {d \in BuildId : kind[d] \in Successful} \cup {b}
  <2>1. b \in BuildId /\ kind[b] = "Started"
    BY DEF IInv, TaskMatchesKind, LiveTasks
  <2>2. \A d \in T : d \in BuildId /\ Unbuilt(d) = {}
    BY <2>1 DEF IInv, BuiltInOrder, Finished, Successful
  <2>3. \A d \in T : build_dependencies(graph, d) \subseteq T
    <3> TAKE d \in T
    <3>1. build_dependencies(graph, d) \subseteq BuildId
      BY <2>2 DEF IInv, TypeOK, BuildGraphs, build_dependencies
    <3> QED BY <2>2, <3>1 DEF Unbuilt
  <2>4. Reach(graph, {b}) \subseteq T
    BY <2>1, <2>3, ReachLeast DEF DepClosed
  <2> QED BY <2>4
<1> QED BY <1>1, Invariance, PTL

\* Never more tasks than the configured parallelism.
THEOREM ConcurrencyAlwaysBounded == Spec => []ConcurrencyBound
<1>1. IInv => ConcurrencyBound
  <2> SUFFICES ASSUME IInv PROVE ConcurrencyBound
    OBVIOUS
  <2>1. LiveTasks \in SUBSET OfKind({"Started"}) /\ OfKind({"Started"}) \in SUBSET BuildId
    BY DEF IInv, TaskMatchesKind, LiveTasks, OfKind
  <2>2. Cardinality(LiveTasks) <= running /\ running <= parallelism
    BY <2>1, CardinalitySubset DEF IInv, CountersExact, CallerExact
  <2>3. Cardinality(LiveTasks) \in Nat /\ running \in Nat /\ parallelism \in Nat
    BY <2>1, BuildSetsFinite DEF IInv, TypeOK
  <2> QED BY <2>2, <2>3 DEF ConcurrencyBound
<1> QED BY <1>1, Invariance, PTL

\* The "This is a bug" panics are unreachable when the pool has a slot.
THEOREM MainNeverPanicsItself == Spec => []MainNeverPanics
<1>1. IInv => MainNeverPanics
  BY DEF IInv, CallerExact, MainNeverPanics
<1> QED BY <1>1, Invariance, PTL

\* In the first run() no result gets lost unless a task panics.
THEOREM FirstRunLosesNothing == Spec => []NothingLost
<1>1. IInv => NothingLost
  BY DEF IInv
<1> QED BY <1>1, Invariance, PTL

\* The receiver outlives every task that may send to it.
THEOREM ReceiverOutlivesTasks == Spec => []SendNeverFails
<1>1. IInv => SendNeverFails
  BY DEF IInv
<1> QED BY <1>1, Invariance, PTL

\* A run() that returns Ok with no failure built everything wanted.
THEOREM OkAlwaysMeansBuilt == Spec => []OkMeansBuilt
<1>1. IInv => OkMeansBuilt
  <2> SUFFICES ASSUME IInv, outcome = "Ok", failed = 0
               PROVE  \A b \in Tracked : kind[b] \in Successful
    BY DEF OkMeansBuilt
  <2>1. OfKind(Finished) \in SUBSET Tracked /\ Tracked \in SUBSET BuildId
        /\ OfKind({"Failed", "Skipped"}) \in SUBSET BuildId
    BY DEF OfKind, Tracked, Finished
  <2>2. Cardinality(OfKind(Finished)) = Cardinality(Tracked)
        /\ Cardinality(OfKind({"Failed", "Skipped"})) = 0
    BY DEF IInv, CallerExact, CountersExact, AllDone
  <2>3. OfKind(Finished) = Tracked
    BY <2>1, <2>2, CardinalitySubset
  <2>4. OfKind({"Failed", "Skipped"}) = {}
    BY <2>1, <2>2, BuildSetsFinite
  <2> QED BY <2>3, <2>4 DEF OfKind, Tracked, Finished, Successful
<1> QED BY <1>1, Invariance, PTL

\* A build is handed to the pool at most once, over all runs.
THEOREM BuiltAtMostOnce == Spec => BuiltOnce
<1>1. IInv /\ [Next]_vars =>
        \A b \in BuildId : task'[b] = "spawned" => task[b] \in {"idle", "spawned"}
  <2> SUFFICES ASSUME IInv, [Next]_vars, NEW b \in BuildId, task'[b] = "spawned"
               PROVE  task[b] \in {"idle", "spawned"}
    OBVIOUS
  <2>0. task \in [BuildId -> {"idle", "done", "panicked"} \cup Live]
    BY DEF IInv, TypeOK
  <2>1. ASSUME NEW c \in BuildId, StartBuild(c)
        PROVE  task[b] \in {"idle", "spawned"}
    <3>1. kind[c] = "Fresh" /\ task[c] = "idle"
      BY <2>1 DEF IInv, StartBuild, PendingExact, OfKind, TaskMatchesKind
    <3> QED BY <2>0, <2>1, <3>1 DEF StartBuild
  <2>2. ASSUME NEW c \in BuildId, TaskStep(c)
        PROVE  task[b] \in {"idle", "spawned"}
    BY <2>0, <2>2 DEF TaskStep, BeginExecute, Report, Panic
  <2>3. CASE UNCHANGED task
    BY <2>3
  <2> QED
    BY <2>1, <2>2, <2>3
       DEF Next, MainStep, vars, Want, Run, LeaveLoop, Stall, Wait, ReceiveErr,
           ReceiveSuccess, ReceiveFailed, Join
<1> QED BY <1>1, Invariance, PTL DEF Spec, BuiltOnce

-----------------------------------------------------------------------------
(* Refinement.                                                             *)

\* A step that moves one started build to a finished kind is a Finish of the
\* abstract schedule.
LEMMA FinishRefines ==
  ASSUME NEW id \in BuildId, NEW k \in Finished, kind \in [BuildId -> Kinds],
         kind[id] = "Started", kind' = [kind EXCEPT ![id] = k], UNCHANGED <<graph, parallelism>>
  PROVE  Sched!Finish(id)
<1> DEFINE p == IF k \in Successful THEN "ok" ELSE "failed"
<1>1. Phase[id] = "active"
  BY DEF Phase, Successful
<1>2. Phase' = [Phase EXCEPT ![id] = p]
  BY DEF Phase, Successful, Finished
<1>3. p \in {"ok", "failed"}
  OBVIOUS
<1> QED BY <1>1, <1>2, <1>3 DEF Sched!Finish

LEMMA StartRefines ==
  ASSUME IInv, NEW b \in BuildId, StartBuild(b)
  PROVE  Sched!Start(b)
<1>1. /\ running < parallelism /\ b \in pending
      /\ kind' = [kind EXCEPT ![b] = "Started"] /\ UNCHANGED <<graph, parallelism>>
  BY DEF StartBuild, HasSlot
<1>2. kind \in [BuildId -> Kinds] /\ graph \in BuildGraphs
  BY DEF IInv, TypeOK
<1>3. kind[b] = "Fresh" /\ Unbuilt(b) = {}
  BY <1>1 DEF IInv, PendingExact, OfKind
<1>4. Phase[b] = "waiting"
  BY <1>3 DEF Phase
<1>5. \A d \in graph[b] : Phase[d] = "ok"
  BY <1>2, <1>3 DEF Unbuilt, build_dependencies, BuildGraphs, Phase, Successful
<1>6. Sched!Active = OfKind({"Started"})
  BY DEF Sched!Active, OfKind, Phase, Successful
<1>7. Sched!Cardinality(Sched!Active) < parallelism
  <2>1. Sched!Cardinality(Sched!Active) = Cardinality(OfKind({"Started"}))
    BY <1>6 DEF Sched!Cardinality, Cardinality
  <2> QED BY <1>1, <2>1 DEF IInv, CountersExact
<1>8. Phase' = [Phase EXCEPT ![b] = "active"]
  BY <1>1, <1>2 DEF Phase, Successful
<1> QED BY <1>1, <1>4, <1>5, <1>7, <1>8 DEF Sched!Start

\* The executor implements Schedule: want(), the channel, the tasks and the
\* end of a run are stutters, start_build a Start, build_finished a Finish.
THEOREM ExecutorImplementsSchedule == Spec => ImplementsSchedule
<1>1. Init => Sched!Init
  BY GraphsAssumption, ParallelismsAssumption DEF Init, Sched!Init, BuildGraphs, Phase, Successful
<1>2. IInv /\ [Next]_vars => [Sched!Next]_<<parallelism, graph, Phase>>
  <2> SUFFICES ASSUME IInv, [Next]_vars PROVE [Sched!Next]_<<parallelism, graph, Phase>>
    OBVIOUS
  <2>0. kind \in [BuildId -> Kinds]
    BY DEF IInv, TypeOK
  <2>1. ASSUME NEW b \in BuildId, StartBuild(b) PROVE Sched!Next
    BY <2>1, StartRefines DEF Sched!Next
  <2>2. ASSUME NEW r \in Successful, ReceiveSuccess(r) PROVE Sched!Next
    <3>1. r \in Finished
      BY DEF Finished, Successful
    <3> QED BY <2>0, <2>2, <3>1, ReceiveSuccessEffect, FinishRefines DEF Sched!Next
  <2>3. CASE ReceiveFailed
    <3>1. "Failed" \in Finished
      BY DEF Finished
    <3> QED BY <2>0, <2>3, <3>1, ReceiveFailedEffect, FinishRefines DEF Sched!Next
  <2>4. ASSUME NEW S \in SUBSET BuildId, Want(S) PROVE UNCHANGED <<parallelism, graph, Phase>>
    <3>1. UNCHANGED <<graph, parallelism>> /\ \A b \in BuildId : kind'[b] \in {kind[b], "Fresh"}
      BY <2>4 DEF Want
    <3>2. \A b \in BuildId : kind[b] \in {"Untracked", "Fresh"}
      BY <2>4 DEF Want, IInv, CallerExact
    <3>3. \A b \in BuildId : Phase[b] = "waiting" /\ Phase[b]' = "waiting"
      BY <3>1, <3>2 DEF Phase
    <3> QED BY <3>1, <3>3 DEF Phase
  <2>5. CASE UNCHANGED <<graph, parallelism, kind>>
    BY <2>5 DEF Phase
  <2> QED
    BY <2>1, <2>2, <2>3, <2>4, <2>5
       DEF Next, MainStep, TaskStep, vars, builds, Run, LeaveLoop, Stall, Wait,
           ReceiveErr, Join, BeginExecute, Report, Panic
<1> QED BY <1>1, <1>2, Invariance, PTL DEF Spec, ImplementsSchedule, Sched!Spec
-----------------------------------------------------------------------------
(* What RunReturns rests on: run() cannot go on for ever, and while it     *)
(* waits there is somebody to wait for.                                    *)

TasksIn(t, S) == {b \in BuildId : t[b] \in S}

\* What the tasks still have to do.
TaskWork(t) ==
  Cardinality(TasksIn(t, {"idle"})) + Cardinality(TasksIn(t, {"idle", "spawned"}))
  + Cardinality(TasksIn(t, {"idle", "spawned", "executing"}))

CallerRank(p) ==
  IF p = "start" THEN 3 ELSE IF p = "recv" THEN 2 ELSE IF p = "join" THEN 1 ELSE 0

\* With the messages nobody has taken, and where the caller is.
WorkLeft == 3 * TaskWork(task) + 2 * Len(chan) + CallerRank(pc)

LEMMA TaskWorkTyped ==
  ASSUME NEW t PROVE TaskWork(t) \in Nat
<1>1. \A S : TasksIn(t, S) \in SUBSET BuildId
  BY DEF TasksIn
<1> QED BY <1>1, BuildSetsFinite DEF TaskWork

LEMMA WorkTyped ==
  ASSUME IInv
  PROVE  /\ TaskWork(task) \in Nat /\ Len(chan) \in Nat
         /\ CallerRank(pc) \in Nat /\ WorkLeft \in Nat
<1>1. Len(chan) \in Nat /\ CallerRank(pc) \in Nat
  BY MessagesTyped DEF CallerRank
<1> QED BY <1>1, TaskWorkTyped DEF WorkLeft

\* A task that goes on leaves one of the sets or more, and enters none.
LEMMA TasksInAfter ==
  ASSUME NEW T, NEW t \in [BuildId -> T], NEW b \in BuildId, NEW S, NEW v, NEW u,
         u = [t EXCEPT ![b] = v], v \in S => t[b] \in S
  PROVE  /\ Cardinality(TasksIn(u, S)) \in Nat /\ Cardinality(TasksIn(t, S)) \in Nat
         /\ Cardinality(TasksIn(u, S)) <= Cardinality(TasksIn(t, S))
         /\ v \notin S /\ t[b] \in S =>
              Cardinality(TasksIn(u, S)) < Cardinality(TasksIn(t, S))
<1>1. TasksIn(u, S) \in SUBSET BuildId /\ TasksIn(t, S) \in SUBSET BuildId
  BY DEF TasksIn
<1>2. TasksIn(u, S) \in SUBSET TasksIn(t, S)
  BY DEF TasksIn
<1>3. v \notin S /\ t[b] \in S => b \in TasksIn(t, S) /\ b \notin TasksIn(u, S)
  BY DEF TasksIn
<1>4. Cardinality(TasksIn(u, S)) <= Cardinality(TasksIn(t, S))
  BY <1>1, <1>2, CardinalitySubset
<1>5. Cardinality(TasksIn(u, S)) = Cardinality(TasksIn(t, S)) => TasksIn(u, S) = TasksIn(t, S)
  BY <1>1, <1>2, CardinalitySubset
<1>6. Cardinality(TasksIn(u, S)) \in Nat /\ Cardinality(TasksIn(t, S)) \in Nat
  BY <1>1, BuildSetsFinite
<1> QED BY <1>3, <1>4, <1>5, <1>6

LEMMA TaskWorkLess ==
  ASSUME NEW T, NEW t \in [BuildId -> T], NEW b \in BuildId, NEW v, NEW u,
         u = [t EXCEPT ![b] = v],
         \/ t[b] = "idle" /\ v = "spawned"
         \/ t[b] = "spawned" /\ v \in {"executing", "done", "panicked"}
         \/ t[b] = "executing" /\ v \in {"done", "panicked"}
  PROVE  TaskWork(u) < TaskWork(t)
<1> DEFINE S1 == {"idle"}
           S2 == {"idle", "spawned"}
           S3 == {"idle", "spawned", "executing"}
           N(w, S) == Cardinality(TasksIn(w, S))
<1>1. /\ v \in S1 => t[b] \in S1
      /\ v \in S2 => t[b] \in S2
      /\ v \in S3 => t[b] \in S3
      /\ \/ v \notin S1 /\ t[b] \in S1
         \/ v \notin S2 /\ t[b] \in S2
         \/ v \notin S3 /\ t[b] \in S3
  OBVIOUS
<1>2. TaskWork(u) = N(u, S1) + N(u, S2) + N(u, S3) /\ TaskWork(t) = N(t, S1) + N(t, S2) + N(t, S3)
  BY DEF TaskWork
<1> HIDE DEF S1, S2, S3
<1>3. /\ N(u, S1) \in Nat /\ N(t, S1) \in Nat /\ N(u, S1) <= N(t, S1)
      /\ v \notin S1 /\ t[b] \in S1 => N(u, S1) < N(t, S1)
  BY <1>1, TasksInAfter
<1>4. /\ N(u, S2) \in Nat /\ N(t, S2) \in Nat /\ N(u, S2) <= N(t, S2)
      /\ v \notin S2 /\ t[b] \in S2 => N(u, S2) < N(t, S2)
  BY <1>1, TasksInAfter
<1>5. /\ N(u, S3) \in Nat /\ N(t, S3) \in Nat /\ N(u, S3) <= N(t, S3)
      /\ v \notin S3 /\ t[b] \in S3 => N(u, S3) < N(t, S3)
  BY <1>1, TasksInAfter
<1> HIDE DEF N
<1> QED BY <1>1, <1>2, <1>3, <1>4, <1>5

LEMMA TaskStepLess ==
  ASSUME IInv, NEW b \in BuildId, TaskStep(b)
  PROVE  WorkLeft' < WorkLeft
<1>1. /\ task \in [BuildId -> {"idle", "done", "panicked"} \cup Live]
      /\ chan \in Seq(Message) /\ pc' = pc
  BY DEF IInv, TypeOK, TaskStep, BeginExecute, Report, Panic, caller
<1>2. PICK v : /\ task' = [task EXCEPT ![b] = v]
               /\ \/ task[b] = "spawned" /\ v \in {"executing", "done", "panicked"}
                  \/ task[b] = "executing" /\ v \in {"done", "panicked"}
  BY DEF TaskStep, BeginExecute, Report, Panic, Live
<1>3. Len(chan') <= Len(chan) + 1 /\ Len(chan') \in Nat
  <2>1. CASE UNCHANGED chan
    BY <1>1, <2>1
  <2>2. ASSUME NEW r \in ExecuteResults, Report(b, r)
        PROVE  Len(chan') = Len(chan) + 1 /\ Len(chan') \in Nat
    <3>1. [id |-> b, result |-> r] \in Message
      BY DEF Message, ExecuteResults, Results, Successful
    <3> QED BY <1>1, <2>2, <3>1 DEF Report, Sent
  <2>3. Len(chan) \in Nat
    BY <1>1
  <2> QED BY <2>1, <2>2, <2>3 DEF TaskStep, BeginExecute, Panic
<1>4. TaskWork(task') < TaskWork(task)
  BY <1>1, <1>2, TaskWorkLess
<1>5. TaskWork(task') \in Nat
  BY TaskWorkTyped
<1>6. CallerRank(pc') = CallerRank(pc)
  BY <1>1
<1>7. WorkLeft' = 3 * TaskWork(task') + 2 * Len(chan') + CallerRank(pc')
  BY DEF WorkLeft
<1>8. WorkLeft = 3 * TaskWork(task) + 2 * Len(chan) + CallerRank(pc)
  BY DEF WorkLeft
<1> QED BY ONLY <1>3, <1>4, <1>5, <1>6, <1>7, <1>8, WorkTyped, IInv

LEMMA MainStepLess ==
  ASSUME IInv, MainStep
  PROVE  WorkLeft' < WorkLeft
<1>0. /\ task \in [BuildId -> {"idle", "done", "panicked"} \cup Live]
      /\ chan \in Seq(Message)
  BY DEF IInv, TypeOK
<1>1. ASSUME NEW b \in BuildId, StartBuild(b) PROVE WorkLeft' < WorkLeft
  <2>1. task[b] = "idle"
    BY <1>1 DEF IInv, StartBuild, PendingExact, OfKind, TaskMatchesKind
  <2>2. /\ task' = [task EXCEPT ![b] = "spawned"] /\ pc' = pc /\ chan' = chan
    BY <1>1 DEF StartBuild, caller
  <2>3. TaskWork(task') < TaskWork(task)
    BY <1>0, <2>1, <2>2, TaskWorkLess
  <2> QED BY <2>2, <2>3, WorkTyped, TaskWorkTyped DEF WorkLeft
<1>2. CASE pc = "start" /\ pc' \in {"recv", "join"} /\ UNCHANGED <<chan, task>>
  <2>1. CallerRank(pc') < CallerRank(pc) /\ CallerRank(pc') \in Nat
    BY <1>2 DEF CallerRank
  <2> QED BY <1>2, <2>1, WorkTyped DEF WorkLeft
<1>3. ASSUME NEW r, Received(r), pc' \in {"start", "join"}, UNCHANGED task
      PROVE  WorkLeft' < WorkLeft
  <2>1. pc = "recv" /\ Len(chan') = Len(chan) - 1
    BY <1>0, <1>3 DEF Received
  <2>2. CallerRank(pc) = 2 /\ CallerRank(pc') <= 3 /\ CallerRank(pc') \in Nat
    BY <1>3, <2>1 DEF CallerRank
  <2> QED BY <1>3, <2>1, <2>2, WorkTyped DEF WorkLeft
<1>4. CASE Join
  <2>1. pc = "join" /\ pc' \in Ended /\ Len(chan') = 0 /\ task' = task
    BY <1>4 DEF Join, Ended
  <2>2. CallerRank(pc) = 1 /\ CallerRank(pc') = 0
    BY <2>1 DEF CallerRank, Ended
  <2> QED BY <2>1, <2>2, WorkTyped DEF WorkLeft
<1>5. ASSUME NEW r \in Successful, ReceiveSuccess(r) PROVE WorkLeft' < WorkLeft
  BY <1>3, <1>5 DEF ReceiveSuccess
<1>6. CASE ReceiveFailed
  BY <1>3, <1>6 DEF ReceiveFailed
<1>7. CASE ReceiveErr
  BY <1>3, <1>7 DEF ReceiveErr
<1>8. CASE LeaveLoop \/ Stall \/ Wait
  BY <1>2, <1>8 DEF LeaveLoop, Stall, Wait
<1> QED BY <1>1, <1>4, <1>5, <1>6, <1>7, <1>8 DEF MainStep

\* Between two calls of the user, every step of the caller's thread and of the
\* tasks leaves less to do, and what is left is a natural number: a call of
\* run() has at most as many steps as that.
THEOREM RunGoesOn ==
  Spec => [][\/ \E S \in SUBSET BuildId : Want(S)
             \/ Run
             \/ WorkLeft \in Nat /\ WorkLeft' \in Nat /\ WorkLeft' < WorkLeft]_vars
<1>1. IInv /\ IInv' /\ [Next]_vars =>
        [\/ \E S \in SUBSET BuildId : Want(S)
         \/ Run
         \/ WorkLeft \in Nat /\ WorkLeft' \in Nat /\ WorkLeft' < WorkLeft]_vars
  <2> SUFFICES ASSUME IInv, IInv', Next,
                      ~(\E S \in SUBSET BuildId : Want(S)), ~Run
               PROVE  WorkLeft \in Nat /\ WorkLeft' \in Nat /\ WorkLeft' < WorkLeft
    OBVIOUS
  <2>1. WorkLeft' < WorkLeft
    BY TaskStepLess, MainStepLess DEF Next
  <2>2. WorkLeft \in Nat
    BY WorkTyped
  <2>3. WorkLeft' \in Nat
    <3>1. Len(chan') \in Nat
      <4>1. chan' \in Seq(Message)
        BY DEF IInv, TypeOK
      <4> QED BY <4>1
    <3> QED BY <3>1, TaskWorkTyped DEF WorkLeft, CallerRank
  <2> QED BY <2>1, <2>2, <2>3
<1> QED BY <1>1, Invariance, PTL DEF Spec

\* A run() that waits counts a build as running.
WaitsForOne == pc = "recv" => running # 0

\* While run() waits, there is a message, or a task that will send one or die,
\* unless a build was lost; and in the first run() builds are lost by the panic
\* of a task only.  So nothing but a panic makes the first run() hang, with
\* every graph and every order of results.
WaitIsAnswered ==
  pc = "recv" /\ chan = <<>> /\ LiveTasks = {} =>
    /\ \E b \in BuildId : Lost(b)
    /\ runs = 1 => \E b \in BuildId : task[b] = "panicked"

THEOREM WaitsAreAnswered == Spec => []WaitIsAnswered
<1>1. Init => WaitsForOne
  BY DEF Init, WaitsForOne
<1>2. IInv /\ WaitsForOne /\ [Next]_vars => WaitsForOne'
  BY DEF WaitsForOne, Next, MainStep, TaskStep, vars, counters, caller, Want, Run,
         StartBuild, LeaveLoop, Stall, Wait, ReceiveErr, Received, ReceiveSuccess,
         ReceiveFailed, Join, BeginExecute, Report, Panic, IInv, TypeOK, Ended
<1>3. IInv /\ WaitsForOne => WaitIsAnswered
  <2> SUFFICES ASSUME IInv, WaitsForOne, pc = "recv", chan = <<>>, LiveTasks = {}
               PROVE  /\ \E b \in BuildId : Lost(b)
                      /\ runs = 1 => \E b \in BuildId : task[b] = "panicked"
    BY DEF WaitIsAnswered
  <2>1. OfKind({"Started"}) # {}
    BY FS_EmptySet DEF WaitsForOne, IInv, CountersExact
  <2>2. PICK b \in BuildId : kind[b] = "Started"
    BY <2>1 DEF OfKind
  <2>3. Lost(b)
    BY <2>2 DEF Lost, LiveTasks, Reported
  <2> QED BY <2>3 DEF IInv, NothingLost
<1> QED BY <1>1, <1>2, <1>3, Invariance, PTL DEF Spec
===============================================================================
