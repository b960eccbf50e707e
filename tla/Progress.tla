------------------------------- MODULE Progress -------------------------------
(***************************************************************************)
(* The executor together with its progress reporter (src/src/progress.rs): *)
(* which calls of the trait Progress happen at which step of run(), what   *)
(* status they carry, and what the two consoles show of it.  The fancy bar *)
(* redraws on both reports, the dumb console prints at a start only, and   *)
(* the no-op reporter shows nothing.  Every call is on the caller's thread;*)
(* nothing calls stdout_line.                                              *)
(***************************************************************************)
EXTENDS Executor

VARIABLES
  session,    \* "new", "open" from prepare() on, "finished" after finish()
  reported,   \* what the reporter was last told of each build
  dumb,       \* the numbers of the last line dumb.rs printed
  fancy       \* position and length of the bar of fancy.rs

progress == <<session, reported, dumb, fancy>>
pvars == <<vars, progress>>

PInit ==
  /\ Init
  /\ session = "new"
  /\ reported = [b \in BuildId |-> "none"]
  /\ dumb = <<0, 0>>
  /\ fancy = <<0, 0>>

\* The part of ProgressStatus that a console shows.
status == [total |-> Cardinality(Tracked), started |-> running + finished]

prepare == session' = "open" /\ UNCHANGED <<reported, dumb, fancy>>

finish == session' = "finished" /\ UNCHANGED <<reported, dumb, fancy>>

\* Both consoles add one for the build that is being started.
update_progress(s) == <<s.started + 1, s.total>>

build_started(b, s) ==
  /\ reported' = [reported EXCEPT ![b] = "started"]
  /\ dumb' = <<s.started + 1, s.total>>
  /\ fancy' = update_progress(s)
  /\ UNCHANGED session

build_finished(b, success, s) ==
  /\ reported' = [reported EXCEPT ![b] = IF success THEN "built" ELSE "failed"]
  /\ fancy' = update_progress(s)
  /\ UNCHANGED <<session, dumb>>

-----------------------------------------------------------------------------

RunPrepared == Run /\ prepare

\* A bug: the build that starts is counted already.
StatusCounted == [status EXCEPT !.started = @ + 1]

\* start_build takes the status before it counts the build as running.
StatusAtStart == status

StartReported(b) == StartBuild(b) /\ build_started(b, StatusAtStart)

\* build_finished reports as the last thing it does: not on Err, not when it
\* panics.
ResultReported(success) ==
  IF outcome' = "Panic"
  THEN UNCHANGED progress
  ELSE build_finished(Head(chan).id, success, status')

SuccessReported == \E r \in Successful : ReceiveSuccess(r) /\ ResultReported(TRUE)

FailureReported == ReceiveFailed /\ ResultReported(FALSE)

\* The `?` behind in_place_scope leaves before finish(), as a panic does.
JoinFinish ==
  Join /\ IF outcome' = "Ok" THEN finish ELSE UNCHANGED progress

PMainStep ==
  \/ \E b \in BuildId : StartReported(b)
  \/ LeaveLoop /\ UNCHANGED progress
  \/ Stall /\ UNCHANGED progress
  \/ Wait /\ UNCHANGED progress
  \/ ReceiveErr /\ UNCHANGED progress
  \/ SuccessReported
  \/ FailureReported
  \/ JoinFinish

PTaskStep(b) == TaskStep(b) /\ UNCHANGED progress

PNext ==
  \/ \E S \in SUBSET BuildId : Want(S) /\ UNCHANGED progress
  \/ RunPrepared
  \/ PMainStep
  \/ \E b \in BuildId : PTaskStep(b)

\* As in Executor: run() keeps running and commands end.
PSpec ==
  /\ PInit /\ [][PNext]_pvars
  /\ WF_pvars(PMainStep)
  /\ \A b \in BuildId : WF_pvars(PTaskStep(b))

-----------------------------------------------------------------------------

\* What was reported is what happened, over all the runs, however they ended:
\* a build is reported started when it gets its task, once, and finished when
\* its result reaches the table; the session ends only with a run that is Ok.
\* A number on the console is the number of builds started, but for the bar
\* right after a result, which is one ahead and at the end passes its length.
ReportsExact ==
  LET begun == {b \in BuildId : reported[b] # "none"}
      ahead == fancy[1] - Cardinality(begun)
  IN  /\ \A b \in BuildId :
           /\ reported[b] = "none" <=> task[b] = "idle"
           /\ reported[b] = "built" <=> kind[b] \in Successful
           /\ reported[b] = "failed" <=> kind[b] = "Failed"
      /\ pc \in InRun => session = "open"
      /\ pc = "returned" => (session = "finished" <=> outcome = "Ok")
      /\ begun # {} =>
           /\ dumb = <<Cardinality(begun), Cardinality(Tracked)>>
           /\ fancy[2] = Cardinality(Tracked)
           /\ ahead \in {0, 1}
           /\ ahead = 1 => \E b \in begun : reported[b] # "started"
===============================================================================
