------------------------------- MODULE Schedule -------------------------------
(***************************************************************************)
(* What the executor of src/src/exec.rs promises about the order in which  *)
(* builds run, without channels, counters or threads: a job starts once,   *)
(* after everything it needs ended well, while fewer than limit jobs are   *)
(* active; an active job ends well or fails.                               *)
(***************************************************************************)
EXTENDS Integers, FiniteSets

CONSTANT Job

VARIABLES
  limit,   \* how many jobs may be active
  needs,   \* the jobs each job needs
  phase    \* "waiting", "active", "ok" or "failed"

Active == {j \in Job : phase[j] = "active"}

Init ==
  /\ limit \in Nat
  /\ needs \in [Job -> SUBSET Job]
  /\ phase = [j \in Job |-> "waiting"]

Start(j) ==
  /\ phase[j] = "waiting"
  /\ \A n \in needs[j] : phase[n] = "ok"
  /\ Cardinality(Active) < limit
  /\ phase' = [phase EXCEPT ![j] = "active"]
  /\ UNCHANGED <<limit, needs>>

Finish(j) ==
  /\ phase[j] = "active"
  /\ \E p \in {"ok", "failed"} : phase' = [phase EXCEPT ![j] = p]
  /\ UNCHANGED <<limit, needs>>

Next == \E j \in Job : Start(j) \/ Finish(j)

Spec == Init /\ [][Next]_<<limit, needs, phase>>
===============================================================================
