------------------------------ MODULE RecordStore ------------------------------
(***************************************************************************)
(* What a build database (ExecDb of src/src/db.rs) promises to the tasks,  *)
(* without locks, copies, entries and files: a build has one record, which *)
(* is written, or removed, in one step; a reader is told of one record what*)
(* it was when the reader began; and the next process finds what is on     *)
(* disk, which is either always what was recorded last, or what it was when*)
(* the database was saved.                                                 *)
(***************************************************************************)
CONSTANTS Client, Build, Version, None

VARIABLES
  atOnce,   \* the disk follows each step
  misses,   \* a reader may be told that there is nothing where there is
  records,  \* what was recorded of each build
  disk,     \* what the next process finds
  readers   \* who reads the record of which build, what it was when the
            \* reader began, and what the reader has been told

vars == <<atOnce, misses, records, disk, readers>>

Nothing == [b \in Build |-> None]
Away == [at |-> "away"]
Reading(b, record, told) ==
  [at |-> "reading", build |-> b, record |-> record, told |-> told]
Nobody == [c \in Client |-> Away]

Init ==
  /\ atOnce \in BOOLEAN /\ misses \in BOOLEAN
  /\ records = Nothing /\ disk = Nothing
  /\ readers = Nobody

Change(new) ==
  /\ records' = new
  /\ disk' = IF atOnce THEN new ELSE disk
  /\ UNCHANGED <<atOnce, misses, readers>>

Record(b, v) == Change([records EXCEPT ![b] = v])

Clear == Change(Nothing)

Begin(c, b) ==
  /\ readers[c].at = "away"
  /\ readers' = [readers EXCEPT ![c] = Reading(b, records[b], {})]
  /\ UNCHANGED <<atOnce, misses, records, disk>>

Tell(c) ==
  /\ readers[c].at = "reading"
  /\ \E v \in {readers[c].record} \cup (IF misses THEN {None} ELSE {}) :
       readers' = [readers EXCEPT ![c] =
                     Reading(@.build, @.record, @.told \cup {v})]
  /\ UNCHANGED <<atOnce, misses, records, disk>>

Finish(c) ==
  /\ readers' = [readers EXCEPT ![c] = Away]
  /\ UNCHANGED <<atOnce, misses, records, disk>>

\* Saving begins by emptying the disk.
Save ==
  /\ ~atOnce
  /\ disk' \in {records, Nothing}
  /\ UNCHANGED <<atOnce, misses, records, readers>>

Stop ==
  /\ readers' = Nobody
  /\ UNCHANGED <<atOnce, misses, records, disk>>

Restart ==
  /\ records' = disk
  /\ readers' = Nobody
  /\ UNCHANGED <<atOnce, misses, disk>>

Next ==
  \/ \E b \in Build, v \in Version \cup {None} : Record(b, v)
  \/ Clear
  \/ \E c \in Client : Tell(c) \/ Finish(c) \/ \E b \in Build : Begin(c, b)
  \/ Save \/ Stop \/ Restart

Spec == Init /\ [][Next]_vars
===============================================================================
