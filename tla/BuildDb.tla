-------------------------------- MODULE BuildDb --------------------------------
(***************************************************************************)
(* The transactions of ExecDb (src/src/db.rs) in its four implementations, *)
(* as stat_node, write_build and invalidate_build of src/src/exec.rs use   *)
(* them: InMemoryDb and DumbDb guard one map with an RwLock and write in   *)
(* place; redb and heed give a reader a snapshot and a writer a copy that  *)
(* commit publishes.  A client is a thread with access to the database: a  *)
(* task of the pool, or one of another executor that shares it.            *)
(*                                                                         *)
(* The data is one entry for each build hash and each output.  A write     *)
(* transaction gives all entries of one build a new version, or removes    *)
(* them all.                                                               *)
(***************************************************************************)
CONSTANTS
  Client,
  Build,         \* builds, each with its hash as the key of its BuildInfo
  Path,          \* the outputs of builds
  Outs,          \* Outs[b]: the outputs of build b
  Backends,      \* the implementations to consider
  Version        \* what a BuildInfo and its FileInfos may be

ASSUME OutsAssumption ==
  /\ Build \cap Path = {}
  /\ Outs \in [Build -> SUBSET Path]
  /\ \A b, c \in Build : b # c => Outs[b] \cap Outs[c] = {}

Locked == {"in_memory", "dumb"}
Transactional == {"redb", "heed"}

ASSUME BackendsAssumption == Backends \subseteq Locked \cup Transactional

\* No entry.
CONSTANT None
ASSUME NoneAssumption == None \notin Version

VARIABLES
  backend,
  data,       \* the RwLock's map, or the last committed root
  poisoned,   \* the RwLock is poisoned
  file,       \* what opening the database again finds on disk
  open,       \* "open", "closing" while DumbDbInner is dropped, "closed"
  txn,        \* the transaction of each client, or how it ended
  latest      \* history: the version each build was last committed with, in
              \* this process or in one whose commits are durable

vars == <<backend, data, poisoned, file, open, txn, latest>>

Key == Build \cup Path
Keys(b) == {b} \cup Outs[b]

Empty == [k \in Key |-> None]

-----------------------------------------------------------------------------

NoTxn == [kind |-> "none"]
Dead == [kind |-> "dead"]   \* the client has panicked

\* seen: what a reader has been told; view: the snapshot of redb and heed.
ReadTxn(b, view, seen) ==
  [kind |-> "read", build |-> b, view |-> view, seen |-> seen]

\* new: the version to write, None to remove; copy: the uncommitted root;
\* left: the entries not written yet.
WriteTxn(b, new, copy, left) ==
  [kind |-> "write", build |-> b, new |-> new, copy |-> copy, left |-> left]

Of(kind) == {c \in Client : txn[c].kind = kind}

Init ==
  /\ backend \in Backends
  /\ data = Empty /\ file = Empty
  /\ poisoned = FALSE
  /\ open = "open"
  /\ txn = [c \in Client |-> NoTxn]
  /\ latest = [b \in Build |-> None]

\* RwLock::read waits for the writer; the others never wait.
CanRead == backend \in Locked => Of("write") = {}

\* A bug: a second writer is let in.
CanWriteAlways == TRUE

\* One writer at a time; RwLock::write also waits for the readers.
CanWrite == Of("write") = {} /\ (backend \in Locked => Of("read") = {})

\* A bug: a poisoned lock is used as if nothing had happened.
PoisonIgnored == FALSE

\* `.read().unwrap()` and `.write().unwrap()` panic.
LockFails == backend \in Locked /\ poisoned

Idle(c) == open = "open" /\ txn[c].kind = "none"

BeginRead(c, b) ==
  /\ Idle(c) /\ CanRead
  /\ txn' = [txn EXCEPT ![c] =
                IF LockFails THEN Dead ELSE ReadTxn(b, data, <<>>)]
  /\ UNCHANGED <<backend, data, poisoned, file, open, latest>>

\* A bug: redb and heed answer from the last committed root.
AnswersLatest(t, k) == {data[k]} \cup (IF backend = "heed" THEN {None} ELSE {})

\* What a reader may be told of k.  `.ok()??` in heed turns any error into no
\* entry.
Answers(t, k) ==
  {IF backend \in Locked THEN data[k] ELSE t.view[k]}
  \cup (IF backend = "heed" THEN {None} ELSE {})

\* get_build_info(hash), get_file_info(path).
Get(c, k) ==
  /\ txn[c].kind = "read"
  /\ LET t == txn[c]
     IN  /\ k \in Keys(t.build) \ DOMAIN t.seen
         /\ k # t.build => t.build \in DOMAIN t.seen
         /\ \E value \in Answers(t, k) :
              txn' = [txn EXCEPT ![c] =
                        ReadTxn(t.build, t.view,
                                [j \in DOMAIN t.seen \cup {k} |->
                                   IF j = k THEN value ELSE t.seen[j]])]
  /\ UNCHANGED <<backend, data, poisoned, file, open, latest>>

\* stat_node has its verdict, and the transaction is dropped.
EndRead(c) ==
  /\ txn[c].kind = "read"
  /\ txn' = [txn EXCEPT ![c] = NoTxn]
  /\ UNCHANGED <<backend, data, poisoned, file, open, latest>>

\* write_build, or invalidate_build with None.
BeginWrite(c, b, new) ==
  /\ Idle(c) /\ CanWrite
  /\ txn' = [txn EXCEPT ![c] =
                IF LockFails THEN Dead ELSE WriteTxn(b, new, data, Keys(b))]
  /\ UNCHANGED <<backend, data, poisoned, file, open, latest>>

\* set_build_info or invalidate_build first, then the same for the outputs.
Put(c, k) ==
  /\ txn[c].kind = "write"
  /\ LET t == txn[c]
     IN  /\ k \in t.left
         /\ t.build \in t.left => k = t.build
         /\ txn' = [txn EXCEPT ![c] =
                      WriteTxn(t.build, t.new,
                               IF backend \in Locked THEN t.copy
                               ELSE [t.copy EXCEPT ![k] = t.new],
                               t.left \ {k})]
         /\ data' = IF backend \in Locked THEN [data EXCEPT ![k] = t.new] ELSE data
  /\ UNCHANGED <<backend, poisoned, file, open, latest>>

\* commit: a no-op under the lock, which is released; else the copy is the
\* new root, in memory and on disk.
Committed(c) == IF backend \in Locked THEN data ELSE txn[c].copy

\* A bug: the commit is not flushed.
OnDiskLater(c) == file

OnDisk(c) == IF backend \in Transactional THEN Committed(c) ELSE file

Commit(c) ==
  /\ txn[c].kind = "write" /\ txn[c].left = {}
  /\ data' = Committed(c)
  /\ file' = OnDisk(c)
  /\ latest' = [latest EXCEPT ![txn[c].build] = txn[c].new]
  /\ txn' = [txn EXCEPT ![c] = NoTxn]
  /\ UNCHANGED <<backend, poisoned, open>>

\* reset: a write transaction that empties both tables.  That of DumbDb panics
\* before it asks for the lock.
Reset(c) ==
  /\ Idle(c)
  /\ IF backend = "dumb" \/ LockFails
     THEN txn' = [txn EXCEPT ![c] = Dead] /\ UNCHANGED <<data, file, latest>>
     ELSE /\ CanWrite
          /\ data' = Empty
          /\ file' = IF backend \in Transactional THEN Empty ELSE file
          /\ latest' = [b \in Build |-> None]
          /\ UNCHANGED txn
  /\ UNCHANGED <<backend, poisoned, open>>

\* The client panics in a transaction, in World::now() for one.  Dropping the
\* write guard poisons the lock and leaves the map as it is; a read guard does
\* not poison; redb and heed drop the copy.
PanicIn(c) ==
  /\ txn[c].kind \in {"read", "write"}
  /\ txn' = [txn EXCEPT ![c] = Dead]
  /\ poisoned' = (poisoned \/ (backend \in Locked /\ txn[c].kind = "write"))
  /\ UNCHANGED <<backend, data, file, open, latest>>

-----------------------------------------------------------------------------
(* The life of the database.                                               *)

\* The last reference goes.  DumbDbInner::drop begins by truncating its file.
Close ==
  /\ open = "open"
  /\ Of("read") \cup Of("write") = {}
  /\ IF backend = "dumb" THEN open' = "closing" /\ file' = Empty
                         ELSE open' = "closed" /\ UNCHANGED file
  /\ UNCHANGED <<backend, data, poisoned, txn, latest>>

\* A bug: the map is written without asking for the lock's state.
SavesAlways == TRUE

\* `.get_mut().expect("lock poisoned")` holds.
Saves == ~poisoned

\* The rest of drop: the map is written, or drop panics.
Save ==
  /\ open = "closing"
  /\ open' = "closed"
  /\ file' = IF Saves THEN data ELSE file
  /\ UNCHANGED <<backend, data, poisoned, txn, latest>>

\* The process is killed; or cut short in drop, with a file DumbDb::new finds
\* undecodable.
Kill ==
  /\ open # "closed"
  /\ open' = "closed"
  /\ txn' = [c \in Client |-> NoTxn]
  /\ UNCHANGED <<backend, data, poisoned, file, latest>>

\* DumbDb::new, ExecRedb::open, ExecHeedDb::open.  InMemoryDb::new has no file.
Reopen ==
  /\ open = "closed"
  /\ open' = "open"
  /\ data' = IF backend = "in_memory" THEN Empty ELSE file
  /\ poisoned' = FALSE
  /\ txn' = [c \in Client |-> NoTxn]
  /\ latest' = IF backend \in Transactional THEN latest
               ELSE [b \in Build |-> data'[b]]
  /\ UNCHANGED <<backend, file>>

Next ==
  \/ \E c \in Client, b \in Build :
       \/ BeginRead(c, b)
       \/ \E new \in Version \cup {None} : BeginWrite(c, b, new)
  \/ \E c \in Client, k \in Key : Get(c, k) \/ Put(c, k)
  \/ \E c \in Client : EndRead(c) \/ Commit(c) \/ Reset(c) \/ PanicIn(c)
  \/ Close \/ Save \/ Kill \/ Reopen

Spec == Init /\ [][Next]_vars

-----------------------------------------------------------------------------
(* What stat_node may rely on.                                             *)

Entry == Version \cup {None}
Map == [Key -> Entry]
Seen == UNION {[S -> Entry] : S \in SUBSET Key}

Txn ==
  {NoTxn, Dead}
  \cup [kind : {"read"}, build : Build, view : Map, seen : Seen]
  \cup [kind : {"write"}, build : Build, new : Entry, copy : Map, left : SUBSET Key]

\* Types; one writer at a time, and no reader beside it under the lock.
TypeOK ==
  /\ backend \in Backends
  /\ data \in Map /\ file \in Map
  /\ poisoned \in BOOLEAN
  /\ open \in {"open", "closing", "closed"}
  /\ txn \in [Client -> Txn]
  /\ latest \in [Build -> Entry]
  /\ \A c, d \in Of("write") : c = d
  /\ backend \in Locked => Of("write") = {} \/ Of("read") = {}

\* All entries of a build are of one version, or there are none.
Whole(map) == \A b \in Build : \A k \in Keys(b) : map[k] = map[b]

\* However readers, writers, resets and panics interleave, a reader finds the
\* BuildInfo of a build together with the FileInfos written with it: never the
\* new one with old ones, never what a transaction that panicked half-way left
\* behind.  In heed it may miss some, and then stat_node says Outdated.
ReadsAllOrNothing ==
  \A c \in Of("read") :
    \A j, k \in DOMAIN txn[c].seen :
      \/ txn[c].seen[j] = txn[c].seen[k]
      \/ backend = "heed" /\ None \in {txn[c].seen[j], txn[c].seen[k]}

\* Wherever the process is killed or panics, half a transaction is never what
\* the next process finds.
DiskAllOrNothing == Whole(file)

\* What was committed stays until the next commit for the same build or the next
\* reset; in redb and heed also when the process is killed at any point.
CommittedStays ==
  open = "open" /\ Of("write") = {} /\ ~poisoned =>
    \A b \in Build : \A k \in Keys(b) : data[k] = latest[b]

-----------------------------------------------------------------------------
(* The databases implement the promise of module RecordStore.              *)

\* What a reader will be told: under the lock nobody writes meanwhile.
Found(t) == IF backend \in Locked THEN latest[t.build] ELSE t.view[t.build]

Reader(t) ==
  IF t.kind = "read"
  THEN [at |-> "reading", build |-> t.build, record |-> Found(t),
        told |-> {t.seen[k] : k \in DOMAIN t.seen}]
  ELSE [at |-> "away"]

Readers == [c \in Client |-> Reader(txn[c])]

OnDiskNow ==
  [b \in Build |-> IF backend = "in_memory" THEN None ELSE file[b]]

Store == INSTANCE RecordStore WITH
           atOnce <- backend \in Transactional, misses <- backend = "heed",
           records <- latest, disk <- OnDiskNow, readers <- Readers

\* A write transaction, with all its entries, is one step: at its commit, on
\* disk at once in redb and heed, and not at all if it panics.  A reader is told
\* what was committed when it began, whoever writes meanwhile.  The next process
\* begins with what the disk has, of each build all entries or none.
ImplementsRecordStore == Store!Spec

-----------------------------------------------------------------------------
(* The inductive invariant behind them.                                    *)

Holds(map) == \A b \in Build : \A k \in Keys(b) : map[k] = latest[b]

\* The entries t has written are new, all others as last committed.
HalfWritten(map, t) ==
  \A b \in Build : \A k \in Keys(b) :
    map[k] = IF b = t.build /\ k \notin t.left THEN t.new ELSE latest[b]

\* Nobody is in a transaction once the lock is poisoned or the database is on
\* its way out.
NobodyIn == Of("read") = {} /\ Of("write") = {}

\* Under the lock the map is as last committed, but for what the one writer
\* has put into it; and what a reader was told is still so.
LockedInv ==
  /\ ~poisoned /\ Of("write") = {} /\ open # "closed" => Holds(data)
  /\ \A c \in Of("write") : HalfWritten(data, txn[c])
  /\ \A c \in Of("read") : \A k \in DOMAIN txn[c].seen :
       txn[c].seen[k] = data[k]

\* In redb and heed memory and disk are as last committed, the writer's copy
\* but for what it has put into it, and a reader was told what its view holds,
\* or in heed that there is nothing.
TransactionalInv ==
  /\ ~poisoned
  /\ Holds(data) /\ file = data
  /\ \A c \in Of("write") : HalfWritten(txn[c].copy, txn[c])
  /\ \A c \in Of("read") :
       /\ Whole(txn[c].view)
       /\ \A k \in DOMAIN txn[c].seen :
            \/ txn[c].seen[k] = txn[c].view[k]
            \/ backend = "heed" /\ txn[c].seen[k] = None

DbInv ==
  /\ TypeOK
  /\ Whole(file)
  /\ poisoned \/ open # "open" => NobodyIn
  /\ \A c \in Of("write") : txn[c].left \subseteq Keys(txn[c].build)
  /\ \A c \in Of("read") : DOMAIN txn[c].seen \subseteq Keys(txn[c].build)
  /\ backend \in Locked => LockedInv
  /\ backend \in Transactional => TransactionalInv
===============================================================================
