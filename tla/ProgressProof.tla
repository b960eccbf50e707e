------------------------------ MODULE ProgressProof ------------------------------
(***************************************************************************)
(* Theorems about Progress, for every set of builds, every set of acyclic  *)
(* graphs, every parallelism and every number of runs.                     *)
(***************************************************************************)
EXTENDS Progress, ExecutorProof

-----------------------------------------------------------------------------
(* The reporter does not disturb the executor.                             *)

\* A step with the reporter attached is a step of the executor alone.
LEMMA ReporterWatches == [PNext]_pvars => [Next]_vars
<1> SUFFICES ASSUME [PNext]_pvars PROVE [Next]_vars
  OBVIOUS
<1>1. CASE PMainStep
  <2>1. MainStep
    BY <1>1 DEF PMainStep, MainStep, StartReported, SuccessReported, FailureReported,
                JoinFinish
  <2> QED BY <2>1 DEF Next
<1>2. CASE \E b \in BuildId : PTaskStep(b)
  BY <1>2 DEF PTaskStep, Next
<1>3. CASE UNCHANGED pvars
  BY <1>3 DEF pvars
<1> QED BY <1>1, <1>2, <1>3 DEF PNext, RunPrepared, Next

\* With a reporter attached the executor is the one of module Executor: what
\* that module guarantees of all its behaviours holds with any console.
THEOREM ProgressImplementsExecutor == PSpec => Spec
<1>1. PInit => Init
  BY DEF PInit
<1>2. PSpec => PInit /\ [][PNext]_pvars
  BY PTL DEF PSpec
<1> QED BY <1>1, <1>2, ReporterWatches, PTL DEF Spec

\* So the invariant of the executor holds here, too.
LEMMA ExecutorUnderneath == PSpec => [](IInv /\ graph \in Graphs)
BY ProgressImplementsExecutor, Invariance, PTL

-----------------------------------------------------------------------------
(* What is shown is what happens.                                          *)

Reports == {"none", "started", "built", "failed"}
Begun == {b \in BuildId : reported[b] # "none"}

\* The parts of ReportsExact: what was told of each build, ...
Told ==
  /\ reported \in [BuildId -> Reports]
  /\ \A b \in BuildId :
       /\ reported[b] = "none" <=> task[b] = "idle"
       /\ reported[b] = "built" <=> kind[b] \in Successful
       /\ reported[b] = "failed" <=> kind[b] = "Failed"

\* ... whether there is a session, ...
SessionTold ==
  /\ pc \in InRun => session = "open"
  /\ pc = "returned" => (session = "finished" <=> outcome = "Ok")

\* ... and the numbers on the two consoles.
Shown ==
  Begun # {} =>
    /\ dumb = <<Cardinality(Begun), Cardinality(Tracked)>>
    /\ fancy[2] = Cardinality(Tracked)
    /\ fancy[1] - Cardinality(Begun) \in {0, 1}
    /\ fancy[1] - Cardinality(Begun) = 1 => \E b \in Begun : reported[b] # "started"

ReportInv == Told /\ SessionTold /\ Shown

LEMMA ReportInvIsExact == ReportInv => ReportsExact
BY DEF ReportInv, Told, SessionTold, Shown, Begun, ReportsExact

\* The count that start_build and build_finished hand over is that of the
\* builds reported so far, because it is that of the builds with a task.
LEMMA StatusCounts ==
  ASSUME IInv, Told
  PROVE  /\ running + finished = Cardinality(Begun)
         /\ Cardinality(Begun) \in Nat
<1> DEFINE S == OfKind({"Started"})
           F == OfKind(Finished)
<1>1. S \in SUBSET BuildId /\ F \in SUBSET BuildId /\ Begun \in SUBSET BuildId
  BY DEF OfKind, Begun
<1>2. \A b \in BuildId : kind[b] \in Kinds
  BY DEF IInv, TypeOK
<1>3. Begun = S \cup F /\ S \cap F = {}
  <2>1. \A b \in BuildId : b \in Begun <=> kind[b] \notin {"Untracked", "Fresh"}
    BY DEF IInv, TaskMatchesKind, Told, Begun
  <2> QED BY <1>2, <2>1 DEF OfKind, Kinds, Finished, Begun
<1>4. /\ IsFiniteSet(S) /\ IsFiniteSet(F)
      /\ Cardinality(S) \in Nat /\ Cardinality(F) \in Nat /\ Cardinality(Begun) \in Nat
  BY <1>1, BuildSetsFinite
<1>5. Cardinality(S \cup F) = Cardinality(S) + Cardinality(F) - Cardinality(S \cap F)
  BY <1>4, FS_Union
<1>6. Cardinality(S \cap F) = 0
  BY <1>3, FS_EmptySet
<1> QED BY <1>3, <1>4, <1>5, <1>6 DEF IInv, CountersExact

LEMMA InitReportInv == PInit => ReportInv
BY DEF PInit, Init, ReportInv, Told, SessionTold, Shown, Begun, Reports, Successful, InRun

\* A step that reports nothing, and starts no build, keeps the reporter right
\* if the session is as it should be.
LEMMA QuietStep ==
  ASSUME IInv, ReportInv, UNCHANGED reported, UNCHANGED <<dumb, fancy>>, UNCHANGED kind,
         \A b \in BuildId : task'[b] = "idle" <=> task[b] = "idle",
         SessionTold'
  PROVE  ReportInv'
<1>1. Told' /\ Begun' = Begun /\ Tracked' = Tracked
  BY DEF ReportInv, Told, Begun, Tracked
<1>2. Shown'
  BY <1>1 DEF ReportInv, Shown
<1> QED BY <1>1, <1>2 DEF ReportInv

\* want() is over when the first build starts: the total does not change.
LEMMA WantReports ==
  ASSUME IInv, ReportInv, NEW S \in SUBSET BuildId, Want(S), UNCHANGED progress
  PROVE  ReportInv'
<1>1. /\ pc = "idle" /\ UNCHANGED <<pc, outcome, task>>
      /\ \A b \in BuildId : kind'[b] \in {kind[b], "Fresh"}
      /\ UNCHANGED <<session, reported, dumb, fancy>>
  BY DEF Want, caller, progress
<1>2. \A b \in BuildId : kind[b] \in {"Untracked", "Fresh"} /\ task[b] = "idle"
  BY <1>1 DEF IInv, CallerExact, TaskMatchesKind
<1>3. Told'
  BY <1>1, <1>2 DEF ReportInv, Told, Successful
<1>4. Begun' = {}
  BY <1>1, <1>2 DEF ReportInv, Told, Begun
<1>5. SessionTold'
  BY <1>1 DEF ReportInv, SessionTold
<1> QED BY <1>3, <1>4, <1>5 DEF ReportInv, Shown

\* start_build: one more than what status() counted is what is counted now.
LEMMA StartReports ==
  ASSUME IInv, ReportInv, NEW b \in BuildId, StartReported(b)
  PROVE  ReportInv'
<1>1. /\ StartBuild(b) /\ pc = "start" /\ b \in pending
      /\ kind' = [kind EXCEPT ![b] = "Started"]
      /\ task' = [task EXCEPT ![b] = "spawned"]
      /\ reported' = [reported EXCEPT ![b] = "started"]
      /\ dumb' = <<running + finished + 1, Cardinality(Tracked)>>
      /\ fancy' = <<running + finished + 1, Cardinality(Tracked)>>
      /\ UNCHANGED <<pc, outcome, session>>
  BY DEF StartReported, StartBuild, build_started, update_progress, StatusAtStart,
         status, caller
<1>2. /\ kind[b] = "Fresh" /\ task[b] = "idle"
      /\ kind \in [BuildId -> Kinds]
      /\ task \in [BuildId -> {"idle", "done", "panicked"} \cup Live]
      /\ reported \in [BuildId -> Reports]
  BY <1>1 DEF IInv, TypeOK, PendingExact, OfKind, TaskMatchesKind, ReportInv, Told
<1>3. Told'
  <2>1. reported' \in [BuildId -> Reports]
    BY <1>1, <1>2 DEF Reports
  <2>2. ASSUME NEW c \in BuildId
        PROVE  /\ reported'[c] = "none" <=> task'[c] = "idle"
               /\ reported'[c] = "built" <=> kind'[c] \in Successful
               /\ reported'[c] = "failed" <=> kind'[c] = "Failed"
    BY <1>1, <1>2 DEF ReportInv, Told, Successful
  <2> QED BY <2>1, <2>2 DEF Told
<1>4. b \in BuildId \ Begun /\ Begun \in SUBSET BuildId
  BY <1>2 DEF ReportInv, Told, Begun
<1>5. Begun' = Begun \cup {b} /\ Tracked' = Tracked
  BY <1>1, <1>2 DEF Begun, Tracked
<1>6. Cardinality(Begun') = running + finished + 1 /\ Cardinality(Begun') \in Nat
  BY <1>4, <1>5, CardinalityAdd, StatusCounts DEF ReportInv
<1>7. Shown'
  BY <1>1, <1>5, <1>6 DEF Shown
<1>8. SessionTold'
  BY <1>1 DEF ReportInv, SessionTold
<1> QED BY <1>3, <1>7, <1>8 DEF ReportInv

\* build_finished: the bar is set one ahead, by a build that is not counted
\* twice, and the line above it stays.
LEMMA ResultReports ==
  ASSUME IInv, ReportInv, NEW id \in BuildId, NEW k \in Successful \cup {"Failed"},
         NEW word, word = (IF k = "Failed" THEN "failed" ELSE "built"),
         kind[id] = "Started", pc = "recv", pc' = "start",
         kind' = [kind EXCEPT ![id] = k],
         running' = running - 1, finished' = finished + 1,
         UNCHANGED <<outcome, task, session, dumb>>,
         reported' = [reported EXCEPT ![id] = word],
         fancy' = <<running' + finished' + 1, Cardinality(Tracked')>>
  PROVE  ReportInv'
<1>1. /\ kind \in [BuildId -> Kinds] /\ running \in Nat /\ finished \in Nat
      /\ reported \in [BuildId -> Reports]
  BY DEF IInv, TypeOK, ReportInv, Told
<1>2. reported[id] = "started"
  BY <1>1 DEF IInv, TaskMatchesKind, ReportInv, Told, Reports, Successful
<1>3. Told'
  <2>1. reported' \in [BuildId -> Reports]
    BY <1>1 DEF Reports
  <2>2. ASSUME NEW c \in BuildId
        PROVE  /\ reported'[c] = "none" <=> task'[c] = "idle"
               /\ reported'[c] = "built" <=> kind'[c] \in Successful
               /\ reported'[c] = "failed" <=> kind'[c] = "Failed"
    BY <1>1, <1>2 DEF ReportInv, Told, Successful
  <2> QED BY <2>1, <2>2 DEF Told
<1>4. Begun' = Begun /\ Tracked' = Tracked /\ id \in Begun
  BY <1>1, <1>2 DEF Begun, Tracked, Successful
<1>5. running' + finished' + 1 - Cardinality(Begun) = 1 /\ Cardinality(Begun) \in Nat
  BY <1>1, StatusCounts DEF ReportInv
<1>6. Shown'
  <2>1. reported'[id] # "started"
    BY <1>1
  <2>2. dumb = <<Cardinality(Begun), Cardinality(Tracked)>>
    BY <1>4 DEF ReportInv, Shown
  <2> QED BY <1>4, <1>5, <2>1, <2>2 DEF Shown
<1>7. SessionTold'
  BY DEF ReportInv, SessionTold, InRun
<1> QED BY <1>3, <1>6, <1>7 DEF ReportInv

LEMMA NextReportInv ==
  ASSUME IInv, graph \in Graphs, ReportInv, [PNext]_pvars
  PROVE  ReportInv'
<1>1. ASSUME NEW S \in SUBSET BuildId, Want(S), UNCHANGED progress
      PROVE  ReportInv'
  BY <1>1, WantReports
<1>2. CASE RunPrepared
  <2>1. /\ session' = "open" /\ pc' = "start"
        /\ UNCHANGED <<reported, dumb, fancy, kind, task>>
    BY <1>2 DEF RunPrepared, Run, prepare, builds
  <2>2. SessionTold'
    BY <2>1 DEF SessionTold
  <2> QED BY <2>1, <2>2, QuietStep
<1>3. ASSUME NEW b \in BuildId, StartReported(b)
      PROVE  ReportInv'
  BY <1>3, StartReports
<1>4. CASE (LeaveLoop \/ Stall \/ Wait \/ ReceiveErr) /\ UNCHANGED progress
  <2>1. /\ UNCHANGED <<session, reported, dumb, fancy, kind, task>>
        /\ pc \in InRun /\ pc' \in InRun
    BY <1>4 DEF LeaveLoop, Stall, Wait, ReceiveErr, Received, progress, builds, InRun
  <2>2. SessionTold'
    BY <2>1 DEF ReportInv, SessionTold, InRun
  <2> QED BY <2>1, <2>2, QuietStep
<1>5. ASSUME NEW r \in Successful, ReceiveSuccess(r), ResultReported(TRUE)
      PROVE  ReportInv'
  <2> DEFINE id == Head(chan).id
  <2>1. /\ id \in BuildId /\ kind[id] = "Started" /\ pc = "recv" /\ pc' = "start"
        /\ kind' = [kind EXCEPT ![id] = r]
        /\ running' = running - 1 /\ finished' = finished + 1
        /\ UNCHANGED <<outcome, task>>
    BY <1>5, ReceiveSuccessEffect
  <2>2. outcome' # "Panic"
    BY <2>1 DEF IInv, CallerExact
  <2>3. /\ reported' = [reported EXCEPT ![id] = "built"]
        /\ fancy' = <<running' + finished' + 1, Cardinality(Tracked')>>
        /\ UNCHANGED <<session, dumb>>
    BY <1>5, <2>2 DEF ResultReported, build_finished, update_progress, status
  <2>4. r \in Successful \cup {"Failed"} /\ r # "Failed"
    BY DEF Successful
  <2> HIDE DEF id
  <2> QED BY <2>1, <2>3, <2>4, ResultReports
<1>6. CASE FailureReported
  <2> DEFINE id == Head(chan).id
  <2>1. /\ id \in BuildId /\ kind[id] = "Started" /\ pc = "recv" /\ pc' = "start"
        /\ kind' = [kind EXCEPT ![id] = "Failed"]
        /\ running' = running - 1 /\ finished' = finished + 1
        /\ UNCHANGED <<outcome, task>>
    BY <1>6, ReceiveFailedEffect DEF FailureReported
  <2>2. outcome' # "Panic"
    BY <2>1 DEF IInv, CallerExact
  <2>3. /\ reported' = [reported EXCEPT ![id] = "failed"]
        /\ fancy' = <<running' + finished' + 1, Cardinality(Tracked')>>
        /\ UNCHANGED <<session, dumb>>
    BY <1>6, <2>2 DEF FailureReported, ResultReported, build_finished, update_progress, status
  <2> HIDE DEF id
  <2> QED BY <2>1, <2>3, ResultReports
<1>7. CASE JoinFinish
  <2>1. /\ pc = "join" /\ pc' = (IF outcome' = "Panic" THEN "panicked" ELSE "returned")
        /\ session' = (IF outcome' = "Ok" THEN "finished" ELSE session)
        /\ UNCHANGED <<reported, dumb, fancy, kind, task>>
    BY <1>7 DEF JoinFinish, Join, finish, progress, builds
  <2>2. session = "open"
    BY <2>1 DEF ReportInv, SessionTold, InRun
  <2>3. SessionTold'
    BY <2>1, <2>2 DEF SessionTold, InRun
  <2> QED BY <2>1, <2>3, QuietStep
<1>8. ASSUME NEW b \in BuildId, PTaskStep(b)
      PROVE  ReportInv'
  <2>1. /\ task[b] \in Live /\ \E t \in {"executing", "done", "panicked"} : task' = [task EXCEPT ![b] = t]
        /\ UNCHANGED <<session, reported, dumb, fancy, kind, pc, outcome>>
    BY <1>8 DEF PTaskStep, TaskStep, BeginExecute, Report, Panic, progress, builds,
                caller, Live
  <2>2. \A c \in BuildId : task'[c] = "idle" <=> task[c] = "idle"
    BY <2>1 DEF IInv, TypeOK, Live
  <2>3. SessionTold'
    BY <2>1 DEF ReportInv, SessionTold
  <2> QED BY <2>1, <2>2, <2>3, QuietStep
<1>9. CASE UNCHANGED pvars
  <2>1. UNCHANGED <<session, reported, dumb, fancy, kind, task, pc, outcome>>
    BY <1>9 DEF pvars, progress, vars, builds, caller
  <2>2. SessionTold'
    BY <2>1 DEF ReportInv, SessionTold
  <2> QED BY <2>1, <2>2, QuietStep
<1> QED
  BY <1>1, <1>2, <1>3, <1>4, <1>5, <1>6, <1>7, <1>8, <1>9
     DEF PNext, PMainStep, SuccessReported

\* The inductive invariant of the reporter holds in every reachable state.
THEOREM ReportInvariance == PSpec => []ReportInv
<1>1. IInv /\ graph \in Graphs /\ ReportInv /\ [PNext]_pvars => ReportInv'
  BY NextReportInv
<1>2. PSpec => PInit /\ [][PNext]_pvars
  BY PTL DEF PSpec
<1> QED BY <1>1, <1>2, InitReportInv, ExecutorUnderneath, PTL

\* What the reporter is told of each build, when it is told that the session
\* ends, and the numbers on the consoles are always those of what happened.
THEOREM ReportsAlwaysExact == PSpec => []ReportsExact
BY ReportInvariance, ReportInvIsExact, PTL

-----------------------------------------------------------------------------
(* The order of what is told.                                              *)

SaidStarted(b) == reported[b] = "none" /\ reported'[b] = "started"
SaidFinished(b) == reported[b] = "started" /\ reported'[b] \in {"built", "failed"}

\* Whatever the order of results and however runs end, a build is reported
\* finished after it was reported started, each once; and once a failure has
\* been reported nothing more is reported finished, in this run() or another.
ToldInOrder ==
  \A b \in BuildId : reported'[b] # reported[b] =>
    \/ SaidStarted(b)
    \/ SaidFinished(b) /\ \A c \in BuildId : reported[c] # "failed"

ReportedInOrder == [][ToldInOrder]_pvars

\* While run_inner waits for a result nothing has failed.
LEMMA NoneFailedWhileWaiting ==
  ASSUME IInv, ReportInv, pc = "recv"
  PROVE  \A c \in BuildId : reported[c] # "failed"
<1>1. failed = 0
  BY DEF IInv, CallerExact
<1>2. OfKind({"Failed", "Skipped"}) \in SUBSET BuildId
  BY DEF OfKind
<1>3. OfKind({"Failed", "Skipped"}) = {}
  BY <1>1, <1>2, BuildSetsFinite DEF IInv, CountersExact
<1> QED BY <1>3 DEF OfKind, ReportInv, Told

THEOREM ReportsComeInOrder == PSpec => ReportedInOrder
<1>1. IInv /\ ReportInv /\ [PNext]_pvars => ToldInOrder
  <2> SUFFICES ASSUME IInv, ReportInv, [PNext]_pvars,
                      NEW b \in BuildId, reported'[b] # reported[b]
               PROVE  SaidStarted(b) \/ (SaidFinished(b) /\ \A c \in BuildId : reported[c] # "failed")
    BY DEF ToldInOrder
  <2>0. reported \in [BuildId -> Reports]
    BY DEF ReportInv, Told
  <2>1. ASSUME NEW c \in BuildId, StartReported(c)
        PROVE  SaidStarted(b)
    <3>1. task[c] = "idle" /\ reported' = [reported EXCEPT ![c] = "started"]
      BY <2>1 DEF StartReported, StartBuild, build_started, IInv, PendingExact, OfKind,
                  TaskMatchesKind
    <3>2. reported[c] = "none"
      BY <3>1 DEF ReportInv, Told
    <3> QED BY <2>0, <3>1, <3>2 DEF SaidStarted
  <2>2. ASSUME NEW c \in BuildId, kind[c] = "Started", pc = "recv",
               NEW w \in {"built", "failed"}, reported' = [reported EXCEPT ![c] = w]
        PROVE  SaidFinished(b) /\ \A d \in BuildId : reported[d] # "failed"
    <3>1. reported[c] = "started"
      BY <2>0, <2>2 DEF IInv, TaskMatchesKind, ReportInv, Told, Reports, Successful
    <3> QED BY <2>0, <2>2, <3>1, NoneFailedWhileWaiting DEF SaidFinished
  <2>3. ASSUME NEW r \in Successful, ReceiveSuccess(r), ResultReported(TRUE)
        PROVE  SaidFinished(b) /\ \A d \in BuildId : reported[d] # "failed"
    <3> DEFINE id == Head(chan).id
    <3>1. id \in BuildId /\ kind[id] = "Started" /\ pc = "recv"
      BY <2>3, ReceiveSuccessEffect
    <3>2. reported' = [reported EXCEPT ![id] = "built"]
      BY <2>3 DEF ResultReported, build_finished, progress
    <3> HIDE DEF id
    <3> QED BY <2>2, <3>1, <3>2
  <2>4. CASE FailureReported
    <3> DEFINE id == Head(chan).id
    <3>1. id \in BuildId /\ kind[id] = "Started" /\ pc = "recv"
      BY <2>4, ReceiveFailedEffect DEF FailureReported
    <3>2. reported' = [reported EXCEPT ![id] = "failed"]
      BY <2>4 DEF FailureReported, ResultReported, build_finished, progress
    <3> HIDE DEF id
    <3> QED BY <2>2, <3>1, <3>2
  <2> QED
    BY <2>1, <2>3, <2>4
       DEF PNext, PMainStep, SuccessReported, RunPrepared, prepare, JoinFinish, finish,
           PTaskStep, pvars, progress
<1>2. PSpec => PInit /\ [][PNext]_pvars
  BY PTL DEF PSpec
<1> QED BY <1>1, <1>2, ReportInvariance, ExecutorUnderneath, PTL DEF ReportedInOrder
===============================================================================
