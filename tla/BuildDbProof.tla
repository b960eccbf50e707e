----------------------------- MODULE BuildDbProof -----------------------------
(***************************************************************************)
(* Theorems about BuildDb, for every set of clients, builds with disjoint  *)
(* outputs, versions and implementations.                                  *)
(***************************************************************************)
EXTENDS BuildDb, TLAPS

\* An entry belongs to one build.
LEMMA KeysDisjoint ==
  ASSUME NEW b \in Build, NEW c \in Build, NEW k \in Keys(b), k \in Keys(c)
  PROVE  b = c /\ k \in Key /\ b \in Keys(b)
BY OutsAssumption DEF Keys, Key

\* What the two kinds of transaction are made of.
LEMMA TxnShape ==
  ASSUME TypeOK, NEW c \in Client
  PROVE  /\ txn[c] \in Txn
         /\ c \in Of("read") =>
              /\ txn[c].build \in Build /\ txn[c].view \in Map
              /\ txn[c].seen \in Seen
              /\ DOMAIN txn[c].seen \subseteq Key
              /\ \A k \in DOMAIN txn[c].seen : txn[c].seen[k] \in Entry
         /\ c \in Of("write") =>
              /\ txn[c].build \in Build /\ txn[c].new \in Entry
              /\ txn[c].copy \in Map /\ txn[c].left \in SUBSET Key
<1>1. txn[c] \in Txn
  BY DEF TypeOK
<1>2. ASSUME NEW s \in Seen
      PROVE  DOMAIN s \subseteq Key /\ \A k \in DOMAIN s : s[k] \in Entry
  BY DEF Seen
<1>3. c \in Of("read") =>
        /\ txn[c].build \in Build /\ txn[c].view \in Map /\ txn[c].seen \in Seen
  BY <1>1 DEF Txn, Of, NoTxn, Dead
<1>4. c \in Of("write") =>
        /\ txn[c].build \in Build /\ txn[c].new \in Entry
        /\ txn[c].copy \in Map /\ txn[c].left \in SUBSET Key
  BY <1>1 DEF Txn, Of, NoTxn, Dead
<1> QED BY <1>1, <1>2, <1>3, <1>4

\* A map that holds what was committed is whole.
LEMMA HoldsIsWhole ==
  ASSUME NEW map, Holds(map)
  PROVE  Whole(map)
BY KeysDisjoint DEF Holds, Whole, Keys

\* Every step of one client changes the transaction of that client.
LEMMA OneTxnChanges ==
  ASSUME TypeOK, NEW c \in Client, NEW t \in Txn,
         txn' = [txn EXCEPT ![c] = t]
  PROVE  /\ txn' \in [Client -> Txn]
         /\ txn'[c] = t
         /\ \A d \in Client \ {c} : txn'[d] = txn[d]
         /\ \A kind \in {"read", "write"} :
              Of(kind)' = IF t.kind = kind THEN Of(kind) \cup {c}
                                           ELSE Of(kind) \ {c}
BY DEF TypeOK, Of

-----------------------------------------------------------------------------

LEMMA InitDbInv == Init => DbInv
<1> SUFFICES ASSUME Init
             PROVE  DbInv
  OBVIOUS
<1>1. Empty \in Map /\ None \in Entry
  BY DEF Empty, Map, Entry
<1>2. Of("read") = {} /\ Of("write") = {}
  BY DEF Init, Of, NoTxn
<1>3. Whole(Empty)
  BY KeysDisjoint DEF Whole, Empty, Keys, Key
<1>4. Holds(Empty)
  BY KeysDisjoint DEF Init, Holds, Empty
<1>5. TypeOK
  BY <1>1, <1>2 DEF Init, TypeOK, Txn
<1> QED BY <1>2, <1>3, <1>4, <1>5
        DEF Init, DbInv, LockedInv, TransactionalInv, NobodyIn

\* A client is let in, or finds the lock poisoned.
LEMMA BeginReadInv ==
  ASSUME DbInv, NEW c \in Client, NEW b \in Build, BeginRead(c, b)
  PROVE  DbInv'
<1> DEFINE t == IF LockFails THEN Dead ELSE ReadTxn(b, data, <<>>)
<1>1. <<>> \in Seen /\ DOMAIN <<>> = {}
  <2>1. <<>> \in [{} -> Entry]
    BY SMT
  <2> QED BY <2>1 DEF Seen
<1>2. t \in Txn
  BY <1>1 DEF DbInv, TypeOK, Txn, ReadTxn
<1>3. /\ txn' \in [Client -> Txn] /\ txn'[c] = t
      /\ \A d \in Client \ {c} : txn'[d] = txn[d]
      /\ Of("write")' = Of("write")
      /\ Of("read")' = IF LockFails THEN Of("read") ELSE Of("read") \cup {c}
  BY <1>2, OneTxnChanges DEF DbInv, BeginRead, ReadTxn, Dead, Of, Idle
<1>4. TypeOK'
  BY <1>3 DEF DbInv, TypeOK, BeginRead, CanRead
<1>5. LockFails \/ (~poisoned /\ open = "open" /\ txn'[c] = ReadTxn(b, data, <<>>))
  BY <1>3, BackendsAssumption
     DEF DbInv, TypeOK, TransactionalInv, LockFails, BeginRead, Idle
<1>6. \A d \in Of("read")' :
        IF d = c /\ ~LockFails
        THEN /\ txn'[d].view = data /\ DOMAIN txn'[d].seen = {}
        ELSE d \in Of("read") /\ txn'[d] = txn[d]
  BY <1>1, <1>3, <1>5 DEF ReadTxn, Of, BeginRead, Idle
<1>7. \A d \in Of("write")' : d \in Of("write") /\ txn'[d] = txn[d]
  BY <1>3 DEF Of, BeginRead, Idle
<1>8. \A d \in Of("read")' : DOMAIN txn'[d].seen \subseteq Keys(txn'[d].build)
  BY <1>6 DEF DbInv
<1>9. \A d \in Of("write")' : txn'[d].left \subseteq Keys(txn'[d].build)
  BY <1>7 DEF DbInv
<1>10. (poisoned \/ open # "open" => NobodyIn)'
  BY <1>3, <1>5 DEF DbInv, NobodyIn, BeginRead, Idle
<1>11. ASSUME backend \in Locked
       PROVE  LockedInv'
  BY <1>3, <1>6, <1>7, <1>11 DEF DbInv, LockedInv, BeginRead, Holds, HalfWritten
<1>12. ASSUME backend \in Transactional
       PROVE  TransactionalInv'
  <2>1. Whole(data)
    BY <1>12, HoldsIsWhole DEF DbInv, TransactionalInv
  <2> QED BY <2>1, <1>6, <1>7, <1>12
          DEF DbInv, TransactionalInv, BeginRead, Holds, HalfWritten, Whole
<1> QED BY <1>4, <1>8, <1>9, <1>10, <1>11, <1>12 DEF DbInv, BeginRead, Whole

\* A reader is told the value of one more entry.
LEMMA GetInv ==
  ASSUME DbInv, NEW c \in Client, NEW k \in Key, Get(c, k)
  PROVE  DbInv'
<1> DEFINE old == txn[c]
<1>a. PICK value \in Answers(old, k) :
      txn' = [txn EXCEPT ![c] =
                ReadTxn(old.build, old.view,
                        [j \in DOMAIN old.seen \cup {k} |->
                           IF j = k THEN value ELSE old.seen[j]])]
  BY DEF Get
<1> DEFINE seen == [j \in DOMAIN old.seen \cup {k} |->
                      IF j = k THEN value ELSE old.seen[j]]
           t == ReadTxn(old.build, old.view, seen)
<1>0. UNCHANGED <<backend, data, poisoned, file, open, latest>>
  BY DEF Get
<1>1. c \in Of("read") /\ k \in Keys(old.build) /\ TypeOK /\ txn' = [txn EXCEPT ![c] = t]
  BY <1>a DEF Get, Of, DbInv
<1>2. /\ old.build \in Build /\ old.view \in Map
      /\ DOMAIN old.seen \subseteq Key
      /\ \A j \in DOMAIN old.seen : old.seen[j] \in Entry
  BY <1>1, TxnShape
<1>3. value \in Entry
  BY <1>1, <1>2 DEF TypeOK, Map, Answers, Entry
<1>4. seen \in Seen
  <2>1. seen \in [DOMAIN old.seen \cup {k} -> Entry]
    BY <1>2, <1>3
  <2> QED BY <2>1, <1>2 DEF Seen
<1>5. t \in Txn /\ t.kind = "read"
  BY <1>2, <1>4 DEF Txn, ReadTxn
<1>6. /\ txn' \in [Client -> Txn] /\ txn'[c] = t
      /\ \A d \in Client \ {c} : txn'[d] = txn[d]
      /\ Of("write")' = Of("write") /\ Of("read")' = Of("read")
      /\ c \notin Of("write")
  <2>1. c \in Client /\ txn[c].kind = "read" /\ c \notin Of("write")
    BY <1>1 DEF Of
  <2> HIDE DEF t
  <2>2. /\ txn' \in [Client -> Txn] /\ txn'[c] = t
        /\ \A d \in Client \ {c} : txn'[d] = txn[d]
    BY <1>1, <1>5, OneTxnChanges
  <2>3. Of("write")' = Of("write") \ {c} /\ Of("read")' = Of("read") \cup {c}
    BY <1>1, <1>5, OneTxnChanges
  <2> QED BY <1>1, <2>1, <2>2, <2>3
<1>7. TypeOK'
  BY <1>1, <1>6 DEF TypeOK, Get
<1>8. /\ txn'[c].view = old.view /\ txn'[c].build = old.build
      /\ DOMAIN txn'[c].seen = DOMAIN old.seen \cup {k}
      /\ txn'[c].seen[k] = value
      /\ \A j \in DOMAIN old.seen \ {k} : txn'[c].seen[j] = old.seen[j]
  BY <1>6 DEF ReadTxn
<1>9. \A d \in Of("write") : txn'[d] = txn[d]
  BY <1>6 DEF Of
<1>10. \A d \in Of("read") \ {c} : txn'[d] = txn[d]
  BY <1>6 DEF Of
<1>11. (\A d \in Of("read") : DOMAIN txn[d].seen \subseteq Keys(txn[d].build))'
  BY <1>1, <1>6, <1>8, <1>10 DEF DbInv
<1>12. (poisoned \/ open # "open" => NobodyIn)'
  BY <1>6 DEF DbInv, Get, NobodyIn
<1>13. ASSUME backend \in Locked
       PROVE  LockedInv'
  <2>1. value = data[k]
    BY <1>13 DEF Answers, Locked
  <2>2. \A d \in Of("read") :
          \A j \in DOMAIN txn'[d].seen : txn'[d].seen[j] = data[j]
    <3>1. \A d \in Of("read") :
            \A j \in DOMAIN txn[d].seen : txn[d].seen[j] = data[j]
      BY <1>13 DEF DbInv, LockedInv
    <3> HIDE DEF old, seen, t
    <3>2. \A j \in DOMAIN txn'[c].seen : txn'[c].seen[j] = data[j]
      <4> SUFFICES ASSUME NEW j \in DOMAIN old.seen \ {k}
                   PROVE  txn'[c].seen[j] = data[j]
        BY <2>1, <1>8
      <4> QED BY <3>1, <1>1, <1>8 DEF old
    <3> QED BY <3>1, <3>2, <1>10
  <2>3. /\ \A d \in Of("write") : HalfWritten(data, txn[d])
        /\ ~poisoned /\ Of("write") = {} /\ open # "closed" => Holds(data)
    BY <1>13 DEF DbInv, LockedInv
  <2> HIDE DEF old, seen, t
  <2> QED BY <2>2, <2>3, <1>0, <1>6, <1>9 DEF LockedInv, Holds, HalfWritten
<1>14. ASSUME backend \in Transactional
       PROVE  TransactionalInv'
  <2>1. backend \notin Locked
    BY <1>14 DEF Locked, Transactional
  <2>2. value = old.view[k] \/ (backend = "heed" /\ value = None)
    BY <2>1 DEF Answers
  <2>3. \A d \in Of("read") :
          /\ txn'[d].view = txn[d].view
          /\ \A j \in DOMAIN txn'[d].seen :
               \/ txn'[d].seen[j] = txn'[d].view[j]
               \/ backend = "heed" /\ txn'[d].seen[j] = None
    <3>1. \A d \in Of("read") : \A j \in DOMAIN txn[d].seen :
            \/ txn[d].seen[j] = txn[d].view[j]
            \/ backend = "heed" /\ txn[d].seen[j] = None
      BY <1>14 DEF DbInv, TransactionalInv
    <3> HIDE DEF old, seen, t
    <3>2. \A j \in DOMAIN txn'[c].seen :
            \/ txn'[c].seen[j] = txn'[c].view[j]
            \/ backend = "heed" /\ txn'[c].seen[j] = None
      <4> SUFFICES ASSUME NEW j \in DOMAIN old.seen \ {k}
                   PROVE  \/ txn'[c].seen[j] = old.view[j]
                          \/ backend = "heed" /\ txn'[c].seen[j] = None
        BY <2>2, <1>8
      <4> QED BY <3>1, <1>1, <1>8 DEF old
    <3> QED BY <3>1, <3>2, <1>8, <1>10 DEF old
  <2>4. /\ ~poisoned /\ Holds(data) /\ file = data
        /\ \A d \in Of("write") : HalfWritten(txn[d].copy, txn[d])
        /\ \A d \in Of("read") : Whole(txn[d].view)
    BY <1>14 DEF DbInv, TransactionalInv
  <2> HIDE DEF old, seen, t
  <2> QED BY <2>3, <2>4, <1>0, <1>6, <1>9
          DEF TransactionalInv, Holds, HalfWritten, Whole
<1> QED BY <1>6, <1>7, <1>9, <1>11, <1>12, <1>13, <1>14 DEF DbInv, Get, Whole

\* A client leaves: what holds of the others goes on holding.
LEMMA EndReadInv ==
  ASSUME DbInv, NEW c \in Client, EndRead(c)
  PROVE  DbInv'
<1>1. /\ txn' \in [Client -> Txn]
      /\ \A d \in Client \ {c} : txn'[d] = txn[d]
      /\ Of("write")' = Of("write") \ {c} /\ Of("read")' = Of("read") \ {c}
      /\ c \notin Of("write")
  BY OneTxnChanges DEF DbInv, EndRead, NoTxn, Txn, Of
<1>2. TypeOK'
  BY <1>1 DEF DbInv, TypeOK, EndRead
<1>3. \A d \in Of("write")' \cup Of("read")' : txn'[d] = txn[d]
  BY <1>1 DEF Of
<1>4. ASSUME backend \in Locked
      PROVE  LockedInv'
  BY <1>1, <1>3, <1>4 DEF DbInv, LockedInv, EndRead, Holds, HalfWritten
<1>5. ASSUME backend \in Transactional
      PROVE  TransactionalInv'
  BY <1>1, <1>3, <1>5
     DEF DbInv, TransactionalInv, EndRead, Holds, HalfWritten, Whole
<1> QED BY <1>1, <1>2, <1>3, <1>4, <1>5 DEF DbInv, EndRead, NobodyIn, Whole

\* The writer starts from what was last committed, and has written nothing.
LEMMA BeginWriteInv ==
  ASSUME DbInv, NEW c \in Client, NEW b \in Build,
         NEW new \in Version \cup {None}, BeginWrite(c, b, new)
  PROVE  DbInv'
<1> DEFINE t == IF LockFails THEN Dead ELSE WriteTxn(b, new, data, Keys(b))
<1>1. t \in Txn
  BY OutsAssumption DEF DbInv, TypeOK, Txn, WriteTxn, Entry, Keys, Key
<1>2. /\ txn' \in [Client -> Txn] /\ txn'[c] = t
      /\ \A d \in Client \ {c} : txn'[d] = txn[d]
      /\ Of("read")' = Of("read")
      /\ Of("write")' = IF LockFails THEN {} ELSE {c}
      /\ Of("write") = {}
  <2>1. TypeOK /\ txn' = [txn EXCEPT ![c] = t] /\ txn[c].kind = "none" /\ Of("write") = {}
    BY DEF DbInv, BeginWrite, Idle, CanWrite
  <2>2. t.kind = IF LockFails THEN "dead" ELSE "write"
    BY DEF WriteTxn, Dead
  <2>3. c \notin Of("read")
    BY <2>1 DEF Of
  <2> HIDE DEF t
  <2>4. /\ txn' \in [Client -> Txn] /\ txn'[c] = t
        /\ \A d \in Client \ {c} : txn'[d] = txn[d]
    BY <1>1, <2>1, OneTxnChanges
  <2>5. /\ Of("read")' = Of("read") \ {c}
        /\ Of("write")' = IF LockFails THEN Of("write") \ {c} ELSE Of("write") \cup {c}
    BY <1>1, <2>1, <2>2, OneTxnChanges
  <2> QED BY <2>1, <2>3, <2>4, <2>5
<1>3. TypeOK'
  BY <1>2 DEF DbInv, TypeOK, BeginWrite, CanWrite
<1>4. LockFails \/ (~poisoned /\ open = "open")
  BY BackendsAssumption
     DEF DbInv, TypeOK, TransactionalInv, LockFails, BeginWrite, Idle
<1>5. \A d \in Of("read") : txn'[d] = txn[d]
  BY <1>2 DEF Of, BeginWrite, Idle
<1>6. ASSUME ~LockFails
      PROVE  /\ txn'[c].build = b /\ txn'[c].copy = data
             /\ txn'[c].left = Keys(b)
  BY <1>2, <1>6 DEF WriteTxn
<1>7. Holds(data) /\ ~LockFails => \A d \in Of("write")' :
        HalfWritten(data, txn'[d]) /\ HalfWritten(txn'[d].copy, txn'[d])
  BY <1>2, <1>6 DEF Holds, HalfWritten
<1>8. (\A d \in Of("write") : txn[d].left \subseteq Keys(txn[d].build))'
  BY <1>2, <1>6
<1>9. (poisoned \/ open # "open" => NobodyIn)'
  BY <1>2, <1>4 DEF DbInv, NobodyIn, BeginWrite
<1>10. ASSUME backend \in Locked
       PROVE  LockedInv'
  <2>1. LockFails \/ Holds(data)
    BY <1>2, <1>4, <1>10 DEF DbInv, LockedInv
  <2> QED BY <2>1, <1>2, <1>5, <1>7, <1>10
          DEF DbInv, LockedInv, BeginWrite, Holds, HalfWritten, LockFails
<1>11. ASSUME backend \in Transactional
       PROVE  TransactionalInv'
  <2>1. ~LockFails
    BY <1>11 DEF LockFails, Locked, Transactional
  <2> QED BY <2>1, <1>2, <1>5, <1>7, <1>11
          DEF DbInv, TransactionalInv, BeginWrite, Holds, HalfWritten, Whole
<1> QED BY <1>2, <1>3, <1>5, <1>8, <1>9, <1>10, <1>11 DEF DbInv, BeginWrite, Whole

\* The writer writes one more entry, into the map or into its copy.
LEMMA PutInv ==
  ASSUME DbInv, NEW c \in Client, NEW k \in Key, Put(c, k)
  PROVE  DbInv'
<1> DEFINE old == txn[c]
           copy == IF backend \in Locked THEN old.copy
                   ELSE [old.copy EXCEPT ![k] = old.new]
           t == WriteTxn(old.build, old.new, copy, old.left \ {k})
<1>0. UNCHANGED <<backend, poisoned, file, open, latest>>
  BY DEF Put
<1>1. /\ c \in Of("write") /\ k \in old.left /\ TypeOK
      /\ txn' = [txn EXCEPT ![c] = t]
      /\ data' = IF backend \in Locked THEN [data EXCEPT ![k] = old.new] ELSE data
  BY DEF Put, Of, DbInv
<1>2. /\ old.build \in Build /\ old.new \in Entry
      /\ old.copy \in Map /\ old.left \in SUBSET Key
  BY <1>1, TxnShape
<1>3. copy \in Map
  BY <1>2 DEF Map
<1>4. t \in Txn /\ t.kind = "write"
  BY <1>2, <1>3 DEF Txn, WriteTxn
<1>5. /\ txn' \in [Client -> Txn] /\ txn'[c] = t
      /\ \A d \in Client \ {c} : txn'[d] = txn[d]
      /\ Of("write")' = Of("write") /\ Of("read")' = Of("read")
      /\ Of("write") = {c} /\ c \notin Of("read")
  <2>1. Of("write") = {c} /\ c \notin Of("read")
    BY <1>1 DEF Of, TypeOK
  <2>2. /\ txn' \in [Client -> Txn] /\ txn'[c] = t
        /\ \A d \in Client \ {c} : txn'[d] = txn[d]
    BY <1>1, <1>4, OneTxnChanges
  <2>3. Of("write")' = Of("write") /\ Of("read")' = Of("read")
    BY <2>1, <2>2, <1>4 DEF Of
  <2> QED BY <2>1, <2>2, <2>3
<1>6. data' \in Map
  BY <1>1, <1>2 DEF TypeOK, Map
<1>7. TypeOK'
  BY <1>0, <1>1, <1>5, <1>6 DEF TypeOK
<1>8. /\ txn'[c].build = old.build /\ txn'[c].new = old.new
      /\ txn'[c].copy = copy /\ txn'[c].left = old.left \ {k}
  BY <1>5 DEF WriteTxn
<1>9. old.left \subseteq Keys(old.build)
  BY <1>1 DEF DbInv
<1>10. \A d \in Of("read") : txn'[d] = txn[d]
  BY <1>5 DEF Of
<1>11. (\A d \in Of("write") : txn[d].left \subseteq Keys(txn[d].build))'
  BY <1>5, <1>8, <1>9
<1>12. (poisoned \/ open # "open" => NobodyIn)'
  BY <1>0, <1>5 DEF DbInv, NobodyIn
\* The entry is one of this build and of no other.
<1>13. ASSUME NEW map \in Map, HalfWritten(map, old)
       PROVE  \A b \in Build : \A j \in Keys(b) :
                [map EXCEPT ![k] = old.new][j] =
                  IF b = old.build /\ j \notin old.left \ {k}
                  THEN old.new ELSE latest[b]
  <2> TAKE b \in Build
  <2> TAKE j \in Keys(b)
  <2>1. map[j] = IF b = old.build /\ j \notin old.left THEN old.new ELSE latest[b]
    BY <1>13 DEF HalfWritten
  <2>2. j \in Key /\ (j = k => b = old.build)
    BY <1>1, <1>2, <1>9, KeysDisjoint
  <2>3. [map EXCEPT ![k] = old.new][j] = IF j = k THEN old.new ELSE map[j]
    BY <2>2 DEF Map
  <2> HIDE DEF old
  <2> QED BY <2>1, <2>2, <2>3
<1>14. ASSUME backend \in Locked
       PROVE  LockedInv'
  <2>1. HalfWritten(data, old) /\ data \in Map
    BY <1>1, <1>14 DEF DbInv, LockedInv, TypeOK
  <2>2. HalfWritten(data, txn[c])'
    <3>1. data' = [data EXCEPT ![k] = old.new]
      BY <1>1, <1>14
    <3> HIDE DEF old
    <3> QED BY <2>1, <3>1, <1>0, <1>8, <1>13 DEF HalfWritten
  <2>3. Of("read") = {}
    BY <1>1, <1>14 DEF TypeOK
  <2> QED BY <2>2, <2>3, <1>5 DEF LockedInv
<1>15. ASSUME backend \in Transactional
       PROVE  TransactionalInv'
  <2>1. backend \notin Locked
    BY <1>15 DEF Locked, Transactional
  <2>2. HalfWritten(old.copy, old)
    BY <1>1, <1>15 DEF DbInv, TransactionalInv
  <2>3. HalfWritten(txn[c].copy, txn[c])'
    <3>1. txn'[c].copy = [old.copy EXCEPT ![k] = old.new]
      BY <2>1, <1>8
    <3> HIDE DEF old, copy, t
    <3> QED BY <2>2, <3>1, <1>0, <1>2, <1>8, <1>13 DEF HalfWritten
  <2>4. /\ ~poisoned /\ Holds(data) /\ file = data
        /\ \A d \in Of("read") :
             /\ Whole(txn[d].view)
             /\ \A j \in DOMAIN txn[d].seen :
                  \/ txn[d].seen[j] = txn[d].view[j]
                  \/ backend = "heed" /\ txn[d].seen[j] = None
    BY <1>15 DEF DbInv, TransactionalInv
  <2>5. data' = data
    BY <2>1, <1>1
  <2> HIDE DEF old, copy, t
  <2> QED BY <2>3, <2>4, <2>5, <1>0, <1>5, <1>10
          DEF TransactionalInv, Holds, Whole
<1>16. Whole(file)'
  BY <1>0 DEF DbInv, Whole
<1>17. (\A d \in Of("read") : DOMAIN txn[d].seen \subseteq Keys(txn[d].build))'
  BY <1>5, <1>10 DEF DbInv
<1> QED BY <1>0, <1>7, <1>11, <1>12, <1>14, <1>15, <1>16, <1>17 DEF DbInv

\* All entries are written: the map, or the copy, is as now committed.
LEMMA CommitInv ==
  ASSUME DbInv, NEW c \in Client, Commit(c)
  PROVE  DbInv'
<1>1. /\ c \in Of("write") /\ txn[c].left = {} /\ TypeOK
      /\ txn' = [txn EXCEPT ![c] = NoTxn]
      /\ latest' = [latest EXCEPT ![txn[c].build] = txn[c].new]
      /\ data' = Committed(c) /\ file' = OnDisk(c)
      /\ UNCHANGED <<backend, poisoned, open>>
  BY DEF Commit, Of, DbInv
<1>2. /\ txn[c].build \in Build /\ txn[c].new \in Entry /\ txn[c].copy \in Map
  BY <1>1, TxnShape
<1>3. /\ txn' \in [Client -> Txn]
      /\ \A d \in Client \ {c} : txn'[d] = txn[d]
      /\ Of("write")' = {} /\ Of("read")' = Of("read") /\ c \notin Of("read")
  BY <1>1, OneTxnChanges DEF NoTxn, Txn, Of, TypeOK
<1>4. data' \in Map /\ file' \in Map
  BY <1>1, <1>2 DEF TypeOK, Committed, OnDisk
<1>5. TypeOK'
  BY <1>1, <1>2, <1>3, <1>4 DEF TypeOK
<1>6. \A d \in Of("read") : txn'[d] = txn[d]
  BY <1>3 DEF Of
<1>7. ASSUME NEW map, HalfWritten(map, txn[c]), data' = map
      PROVE  Holds(data)'
  BY <1>1, <1>2, <1>7 DEF HalfWritten, Holds, TypeOK
<1>8. Holds(data)'
  <2>1. HalfWritten(Committed(c), txn[c])
    BY <1>1, BackendsAssumption
       DEF DbInv, LockedInv, TransactionalInv, Committed, TypeOK
  <2> QED BY <2>1, <1>1, <1>7
<1>9. Whole(data)'
  BY <1>8, KeysDisjoint DEF Holds, Whole, Keys
<1>10. Whole(file)'
  BY <1>1, <1>9 DEF DbInv, OnDisk, Whole
<1>11. ASSUME backend \in Locked
       PROVE  LockedInv'
  <2>1. Of("read") = {}
    BY <1>1, <1>11 DEF TypeOK
  <2> QED BY <2>1, <1>3, <1>8 DEF LockedInv
<1>12. ASSUME backend \in Transactional
       PROVE  TransactionalInv'
  BY <1>1, <1>3, <1>6, <1>8, <1>12
     DEF DbInv, TransactionalInv, OnDisk, Whole
<1>13. (\A d \in Of("read") : DOMAIN txn[d].seen \subseteq Keys(txn[d].build))'
  BY <1>3, <1>6 DEF DbInv
<1> QED BY <1>1, <1>3, <1>5, <1>10, <1>11, <1>12, <1>13 DEF DbInv, NobodyIn

\* A client resets the database, or panics trying to: nothing is left to be half
\* of anything.
LEMMA ResetInv ==
  ASSUME DbInv, NEW c \in Client, Reset(c)
  PROVE  DbInv'
<1>0. /\ Empty \in Map /\ Whole(Empty) /\ None \in Entry
      /\ UNCHANGED <<backend, poisoned, open>> /\ TypeOK /\ open = "open"
      /\ c \notin Of("read") /\ c \notin Of("write")
  BY KeysDisjoint
     DEF Empty, Map, Entry, Whole, Keys, Key, DbInv, Reset, Idle, Of
<1>1. CASE backend = "dumb" \/ LockFails
  <2>1. txn' = [txn EXCEPT ![c] = Dead] /\ UNCHANGED <<data, file, latest>>
    BY <1>1 DEF Reset
  <2>2. /\ txn' \in [Client -> Txn]
        /\ Of("write")' = Of("write") /\ Of("read")' = Of("read")
        /\ \A d \in Of("write") \cup Of("read") : txn'[d] = txn[d]
    <3>1. Dead \in Txn /\ Dead.kind = "dead"
      BY DEF Dead, Txn
    <3>2. /\ txn' \in [Client -> Txn] /\ \A d \in Client \ {c} : txn'[d] = txn[d]
          /\ Of("write")' = Of("write") \ {c} /\ Of("read")' = Of("read") \ {c}
      BY <2>1, <3>1, <1>0, OneTxnChanges
    <3>3. Of("write") \subseteq Client /\ Of("read") \subseteq Client
      BY DEF Of
    <3> QED BY <3>2, <3>3, <1>0
  <2>3. TypeOK'
    BY <2>1, <2>2, <1>0 DEF TypeOK
  <2>4. ASSUME backend \in Locked
        PROVE  LockedInv'
    BY <2>1, <2>2, <2>4, <1>0 DEF DbInv, LockedInv, Holds, HalfWritten
  <2>5. ASSUME backend \in Transactional
        PROVE  TransactionalInv'
    BY <2>1, <2>2, <2>5, <1>0
       DEF DbInv, TransactionalInv, Holds, HalfWritten, Whole
  <2> QED BY <2>1, <2>2, <2>3, <2>4, <2>5, <1>0 DEF DbInv, NobodyIn, Whole
<1>2. CASE ~(backend = "dumb" \/ LockFails)
  <2>1. /\ CanWrite /\ data' = Empty /\ UNCHANGED txn
        /\ file' = IF backend \in Transactional THEN Empty ELSE file
        /\ latest' = [b \in Build |-> None]
    BY <1>2 DEF Reset
  <2>2. Of("write") = {} /\ (backend \in Locked => Of("read") = {})
    BY <2>1 DEF CanWrite
  <2>3. Of("write")' = Of("write") /\ Of("read")' = Of("read")
    BY <2>1 DEF Of
  <2>4. TypeOK'
    BY <2>1, <2>3, <1>0 DEF TypeOK
  <2>5. Holds(data)'
    BY <2>1, KeysDisjoint DEF Holds, Empty
  <2>6. ASSUME backend \in Locked
        PROVE  LockedInv'
    BY <2>2, <2>3, <2>5, <2>6 DEF LockedInv
  <2>7. ASSUME backend \in Transactional
        PROVE  TransactionalInv'
    BY <2>1, <2>2, <2>3, <2>5, <2>7, <1>0 DEF DbInv, TransactionalInv, Whole
  <2> QED BY <2>1, <2>2, <2>3, <2>4, <2>6, <2>7, <1>0 DEF DbInv, NobodyIn, Whole
<1> QED BY <1>1, <1>2

\* A client panics: under the lock the half-written map is never used again.
LEMMA PanicInInv ==
  ASSUME DbInv, NEW c \in Client, PanicIn(c)
  PROVE  DbInv'
<1>1. /\ txn' \in [Client -> Txn]
      /\ \A d \in Client \ {c} : txn'[d] = txn[d]
      /\ Of("write")' = Of("write") \ {c} /\ Of("read")' = Of("read") \ {c}
      /\ c \in Of("write") \/ c \in Of("read")
  BY OneTxnChanges DEF DbInv, PanicIn, Dead, Txn, Of
<1>2. TypeOK'
  BY <1>1 DEF DbInv, TypeOK, PanicIn
<1>3. \A d \in Of("write")' \cup Of("read")' : txn'[d] = txn[d]
  BY <1>1 DEF Of
<1>4. poisoned' = (poisoned \/ (backend \in Locked /\ c \in Of("write")))
  BY DEF PanicIn, Of
<1>5. c \in Of("write") => Of("write")' = {}
  BY <1>1 DEF DbInv, TypeOK
<1>6. (poisoned \/ open # "open" => NobodyIn)'
  BY <1>1, <1>4, <1>5 DEF DbInv, TypeOK, NobodyIn, PanicIn
<1>7. ASSUME backend \in Locked
      PROVE  LockedInv'
  <2>1. UNCHANGED <<data, latest, open>>
    BY DEF PanicIn
  <2>2. ~poisoned' => c \notin Of("write") /\ ~poisoned
    BY <1>4, <1>7
  <2>3. (~poisoned /\ Of("write") = {} /\ open # "closed" => Holds(data))'
    BY <2>1, <2>2, <1>1, <1>7 DEF DbInv, LockedInv, Holds
  <2>4. (\A d \in Of("write") : HalfWritten(data, txn[d]))'
    BY <2>1, <1>1, <1>3, <1>7 DEF DbInv, LockedInv, HalfWritten
  <2>5. (\A d \in Of("read") :
           \A k \in DOMAIN txn[d].seen : txn[d].seen[k] = data[k])'
    BY <2>1, <1>1, <1>3, <1>7 DEF DbInv, LockedInv
  <2> QED BY <2>3, <2>4, <2>5 DEF LockedInv
<1>8. ASSUME backend \in Transactional
      PROVE  TransactionalInv'
  <2>1. backend \notin Locked
    BY <1>8 DEF Locked, Transactional
  <2>1a. backend' = backend
    BY DEF PanicIn
  <2>2. UNCHANGED <<data, file, latest>>
    BY DEF PanicIn
  <2>3. (~poisoned /\ Holds(data) /\ file = data)'
    BY <2>1, <2>2, <1>4, <1>8 DEF DbInv, TransactionalInv, Holds
  <2>4. (\A d \in Of("write") : HalfWritten(txn[d].copy, txn[d]))'
    BY <2>2, <1>1, <1>3, <1>8 DEF DbInv, TransactionalInv, HalfWritten
  <2>5. (\A d \in Of("read") :
           /\ Whole(txn[d].view)
           /\ \A k \in DOMAIN txn[d].seen :
                \/ txn[d].seen[k] = txn[d].view[k]
                \/ backend = "heed" /\ txn[d].seen[k] = None)'
    BY <2>1a, <1>1, <1>3, <1>8 DEF DbInv, TransactionalInv, Whole
  <2> QED BY <2>3, <2>4, <2>5 DEF TransactionalInv
<1> QED BY <1>1, <1>2, <1>3, <1>6, <1>7, <1>8 DEF DbInv, PanicIn, Whole

-----------------------------------------------------------------------------

\* Opening, closing and being killed happen around transactions, or end them.
LEMMA LifeInv ==
  ASSUME DbInv, Close \/ Save \/ Kill \/ Reopen
  PROVE  DbInv'
<1> USE DEF NobodyIn
<1>0. /\ Empty \in Map /\ Whole(Empty)
      /\ \A map \in {data, file} : map \in Map
  BY KeysDisjoint DEF Empty, Map, Entry, Whole, Keys, DbInv, TypeOK
<1>1. CASE Close
  <2>1. UNCHANGED <<backend, data, poisoned, txn, latest>> /\ NobodyIn
        /\ open' \in {"closing", "closed"} /\ open = "open"
        /\ file' = IF backend = "dumb" THEN Empty ELSE file
    BY <1>1 DEF Close
  <2>2. Of("read")' = {} /\ Of("write")' = {}
    BY <2>1 DEF Of
  <2>3. TypeOK'
    BY <2>1, <2>2, <1>0 DEF DbInv, TypeOK
  <2>4. backend \in Locked => LockedInv'
    BY <2>1, <2>2 DEF DbInv, LockedInv, Holds
  <2>5. backend \in Transactional => TransactionalInv'
    BY <2>1, <2>2 DEF DbInv, TransactionalInv, Holds, Transactional
  <2> QED BY <2>1, <2>2, <2>3, <2>4, <2>5, <1>0 DEF DbInv, Whole
<1>2. CASE Save
  <2>1. UNCHANGED <<backend, data, poisoned, txn, latest>> /\ NobodyIn
        /\ open' = "closed" /\ open = "closing"
        /\ file' = IF ~poisoned THEN data ELSE file
    BY <1>2 DEF Save, Saves, DbInv
  <2>2. Of("read")' = {} /\ Of("write")' = {}
    BY <2>1 DEF Of
  <2>3. TypeOK'
    BY <2>1, <2>2 DEF DbInv, TypeOK
  <2>4. ~poisoned => Whole(data)
    BY <2>1, HoldsIsWhole, BackendsAssumption
       DEF DbInv, LockedInv, TransactionalInv, TypeOK
  <2>5. backend \in Locked => LockedInv'
    BY <2>1, <2>2 DEF LockedInv
  <2>6. backend \in Transactional => TransactionalInv'
    BY <2>1, <2>2 DEF DbInv, TransactionalInv, Holds
  <2> QED BY <2>1, <2>2, <2>3, <2>4, <2>5, <2>6 DEF DbInv, Whole
<1>3. CASE Kill
  <2>1. UNCHANGED <<backend, data, poisoned, file, latest>>
        /\ open' = "closed" /\ txn' = [c \in Client |-> NoTxn]
    BY <1>3 DEF Kill
  <2>2. Of("read")' = {} /\ Of("write")' = {}
    BY <2>1 DEF Of, NoTxn
  <2>3. TypeOK'
    BY <2>1, <2>2 DEF DbInv, TypeOK, Txn
  <2>4. backend \in Locked => LockedInv'
    BY <2>1, <2>2 DEF LockedInv
  <2>5. backend \in Transactional => TransactionalInv'
    BY <2>1, <2>2 DEF DbInv, TransactionalInv, Holds
  <2> QED BY <2>1, <2>2, <2>3, <2>4, <2>5 DEF DbInv, Whole
<1>4. CASE Reopen
  <2>1. UNCHANGED <<backend, file>> /\ poisoned' = FALSE /\ open' = "open"
        /\ data' = (IF backend = "in_memory" THEN Empty ELSE file)
        /\ txn' = [c \in Client |-> NoTxn]
        /\ latest' = IF backend \in Transactional THEN latest
                     ELSE [b \in Build |-> data'[b]]
    BY <1>4 DEF Reopen
  <2>2. Of("read")' = {} /\ Of("write")' = {}
    BY <2>1 DEF Of, NoTxn
  <2>3. data' \in Map /\ Whole(data)'
    BY <2>1, <1>0 DEF DbInv, Whole
  <2>4. latest' \in [Build -> Entry]
    BY <2>1, <2>3 DEF DbInv, TypeOK, Map, Key
  <2>5. TypeOK'
    BY <2>1, <2>2, <2>3, <2>4 DEF DbInv, TypeOK, Txn
  <2>6. backend \in Locked => LockedInv'
    <3>1. backend \in Locked => backend \notin Transactional
      BY DEF Locked, Transactional
    <3> QED BY <3>1, <2>1, <2>2, <2>3 DEF LockedInv, Holds, Whole
  <2>7. backend \in Transactional => TransactionalInv'
    BY <2>1, <2>2 DEF DbInv, TransactionalInv, Holds, Transactional
  <2> QED BY <2>1, <2>2, <2>5, <2>6, <2>7 DEF DbInv, Whole
<1> QED BY <1>1, <1>2, <1>3, <1>4

\* A step that changes nothing.
LEMMA StutterInv ==
  ASSUME DbInv, UNCHANGED vars
  PROVE  DbInv'
BY DEF vars, DbInv, TypeOK, Of, NobodyIn, Whole, LockedInv, TransactionalInv,
       Holds, HalfWritten

LEMMA NextDbInv ==
  ASSUME DbInv, [Next]_vars
  PROVE  DbInv'
BY BeginReadInv, BeginWriteInv, GetInv, PutInv, EndReadInv, CommitInv,
   ResetInv, PanicInInv, LifeInv, StutterInv
   DEF Next

-----------------------------------------------------------------------------

\* Transactions of one build after another keep the invariant: the lock's map
\* and redb's and heed's root and copy are as last committed, but for what the
\* one writer has written.
THEOREM DbInvariance == Spec => []DbInv
<1>1. Init => DbInv
  BY InitDbInv
<1>2. DbInv /\ [Next]_vars => DbInv'
  BY NextDbInv
<1> QED BY <1>1, <1>2, PTL DEF Spec

\* One writer at a time, and under the lock no reader beside it.
THEOREM DbTypeCorrect == Spec => []TypeOK
<1>1. DbInv => TypeOK
  BY DEF DbInv
<1> QED BY <1>1, DbInvariance, PTL

\* stat_node reads a BuildInfo with the FileInfos of the same write_build, in
\* every implementation, whatever panics or is reset in between.
THEOREM ReadsAlwaysWhole == Spec => []ReadsAllOrNothing
<1>1. DbInv => ReadsAllOrNothing
  <2> SUFFICES ASSUME DbInv, NEW c \in Of("read"),
                      NEW j \in DOMAIN txn[c].seen, NEW k \in DOMAIN txn[c].seen
               PROVE  \/ txn[c].seen[j] = txn[c].seen[k]
                      \/ backend = "heed" /\ None \in {txn[c].seen[j], txn[c].seen[k]}
    BY DEF ReadsAllOrNothing
  <2>1. /\ TypeOK /\ txn[c].build \in Build
        /\ j \in Keys(txn[c].build) /\ k \in Keys(txn[c].build)
    BY TxnShape DEF DbInv, Of
  <2>2. CASE backend \in Locked
    <3>1. Holds(data)
      BY <2>2, <2>1 DEF DbInv, LockedInv, TypeOK, NobodyIn
    <3> QED BY <3>1, <2>1, <2>2 DEF DbInv, LockedInv, Holds
  <2>3. CASE backend \in Transactional
    BY <2>1, <2>3 DEF DbInv, TransactionalInv, Whole
  <2> QED BY <2>1, <2>2, <2>3, BackendsAssumption DEF TypeOK
<1> QED BY <1>1, DbInvariance, PTL

\* No crash leaves half a transaction for the next process to find.
THEOREM DiskAlwaysWhole == Spec => []DiskAllOrNothing
<1>1. DbInv => DiskAllOrNothing
  BY DEF DbInv, DiskAllOrNothing
<1> QED BY <1>1, DbInvariance, PTL

\* What write_build committed is found until the next commit for that build.
THEOREM CommitsStay == Spec => []CommittedStays
<1>1. DbInv => CommittedStays
  BY BackendsAssumption
     DEF DbInv, TypeOK, CommittedStays, LockedInv, TransactionalInv, Holds
<1> QED BY <1>1, DbInvariance, PTL
-----------------------------------------------------------------------------
(* Refinement.                                                             *)

\* As far as a client that changes its transaction alone is concerned.
LEMMA OneReaderChanges ==
  ASSUME NEW c \in Client, NEW t, txn \in [Client -> Txn],
         txn' = [txn EXCEPT ![c] = t], UNCHANGED <<backend, latest>>
  PROVE  Readers' = [Readers EXCEPT ![c] = Reader(t)]
<1>1. Reader(txn[c])' = Reader(t)
  <2>1. txn'[c] = t
    OBVIOUS
  <2>2. Found(txn[c])' = Found(t)
    BY <2>1 DEF Found
  <2> QED BY <2>1, <2>2 DEF Reader
<1>2. ASSUME NEW d \in Client \ {c} PROVE Reader(txn[d])' = Reader(txn[d])
  <2>1. txn'[d] = txn[d]
    OBVIOUS
  <2>2. Found(txn[d])' = Found(txn[d])
    BY <2>1 DEF Found
  <2> QED BY <2>1, <2>2 DEF Reader
<1> QED BY <1>1, <1>2 DEF Readers

\* One that is not reading afterwards has finished, if it was.
LEMMA LeavesStore ==
  ASSUME NEW c \in Client, NEW t, t.kind # "read", txn \in [Client -> Txn],
         txn' = [txn EXCEPT ![c] = t], UNCHANGED <<backend, latest, file>>
  PROVE  Store!Next
<1>1. Readers' = [Readers EXCEPT ![c] = Reader(t)]
  BY OneReaderChanges
<1>2. Reader(t) = [at |-> "away"]
  BY DEF Reader
<1>3. OnDiskNow' = OnDiskNow
  BY DEF OnDiskNow
<1> QED BY <1>1, <1>2, <1>3 DEF Store!Next, Store!Finish, Store!Away

LEMMA BeginReadRefines ==
  ASSUME DbInv, NEW c \in Client, NEW b \in Build, BeginRead(c, b)
  PROVE  Store!Next
<1>0. /\ txn \in [Client -> Txn] /\ UNCHANGED <<backend, latest, file>>
      /\ txn[c].kind = "none"
  BY DEF DbInv, TypeOK, BeginRead, Idle
<1>1. CASE LockFails
  BY <1>0, <1>1, LeavesStore DEF BeginRead, Dead
<1>2. CASE ~LockFails
  <2> DEFINE t == ReadTxn(b, data, <<>>)
  <2>1. Readers' = [Readers EXCEPT ![c] = Reader(t)]
    BY <1>0, <1>2, OneReaderChanges DEF BeginRead
  <2>2. Found(t) = latest[b]
    <3>1. backend \in Locked \/ (backend \in Transactional /\ Holds(data))
      BY BackendsAssumption DEF DbInv, TypeOK, TransactionalInv
    <3>2. b \in Keys(b)
      BY DEF Keys
    <3> QED BY <3>1, <3>2 DEF Found, ReadTxn, Holds
  <2>3. {t.seen[k] : k \in DOMAIN t.seen} = {}
    <3>1. DOMAIN <<>> = {}
      BY SMT
    <3> QED BY <3>1 DEF ReadTxn
  <2>4. Reader(t) = Store!Reading(b, latest[b], {})
    BY <2>2, <2>3 DEF Reader, ReadTxn, Store!Reading
  <2>5. Readers[c].at = "away" /\ OnDiskNow' = OnDiskNow
    BY <1>0 DEF Readers, Reader, OnDiskNow
  <2> HIDE DEF t
  <2> QED BY <1>0, <2>1, <2>4, <2>5 DEF Store!Next, Store!Begin
<1> QED BY <1>1, <1>2

LEMMA GetRefines ==
  ASSUME DbInv, NEW c \in Client, NEW k \in Key, Get(c, k)
  PROVE  Store!Next
<1> DEFINE old == txn[c]
<1>1. PICK value \in Answers(old, k) :
      txn' = [txn EXCEPT ![c] =
                ReadTxn(old.build, old.view,
                        [j \in DOMAIN old.seen \cup {k} |->
                           IF j = k THEN value ELSE old.seen[j]])]
  BY DEF Get
<1> DEFINE seen == [j \in DOMAIN old.seen \cup {k} |->
                      IF j = k THEN value ELSE old.seen[j]]
           t == ReadTxn(old.build, old.view, seen)
<1>2. /\ txn \in [Client -> Txn] /\ UNCHANGED <<backend, latest, file>> /\ TypeOK
      /\ c \in Of("read") /\ old.kind = "read"
      /\ k \in Keys(old.build) \ DOMAIN old.seen
  BY DEF DbInv, TypeOK, Get, Of
<1>3. Readers' = [Readers EXCEPT ![c] = Reader(t)]
  BY <1>1, <1>2, OneReaderChanges
<1>4. value = Found(old) \/ (backend = "heed" /\ value = None)
  <2>1. old.build \in Build
    BY <1>2, TxnShape
  <2>2. CASE backend \in Locked
    <3>1. Holds(data) /\ backend # "heed"
      BY <1>2, <2>2 DEF DbInv, TypeOK, LockedInv, NobodyIn, Locked
    <3> QED BY <1>2, <2>1, <2>2, <3>1 DEF Answers, Found, Holds
  <2>3. CASE backend \in Transactional
    <3>1. backend \notin Locked /\ Whole(old.view)
      BY <1>2, <2>3 DEF DbInv, TransactionalInv, Locked, Transactional
    <3> QED BY <1>2, <2>1, <2>3, <3>1 DEF Answers, Found, Whole
  <2> QED BY <1>2, <2>2, <2>3, BackendsAssumption DEF TypeOK
<1>5. {seen[j] : j \in DOMAIN seen} = {old.seen[j] : j \in DOMAIN old.seen} \cup {value}
  <2>1. DOMAIN seen = DOMAIN old.seen \cup {k} /\ seen[k] = value
        /\ \A j \in DOMAIN old.seen : seen[j] = old.seen[j]
    BY <1>2
  <2> HIDE DEF seen, old
  <2> QED BY <2>1
<1>6. Reader(t) = Store!Reading(old.build, Found(old),
                                {old.seen[j] : j \in DOMAIN old.seen} \cup {value})
  <2>1. t.kind = "read" /\ t.build = old.build /\ t.seen = seen /\ Found(t) = Found(old)
    BY DEF ReadTxn, Found
  <2> HIDE DEF t, seen, old
  <2> QED BY <1>5, <2>1 DEF Reader, Store!Reading
<1>7. /\ Readers[c].at = "reading" /\ Readers[c].build = old.build
      /\ Readers[c].record = Found(old)
      /\ Readers[c].told = {old.seen[j] : j \in DOMAIN old.seen}
      /\ OnDiskNow' = OnDiskNow
  BY <1>2 DEF Readers, Reader, OnDiskNow
<1> HIDE DEF t, seen, old
<1>8. value \in {Readers[c].record} \cup (IF backend = "heed" THEN {None} ELSE {})
  BY <1>4, <1>7
<1>9. Readers' = [Readers EXCEPT ![c] =
                    Store!Reading(Readers[c].build, Readers[c].record,
                                  Readers[c].told \cup {value})]
  BY <1>3, <1>6, <1>7
<1>10. Store!Tell(c)
  BY <1>2, <1>7, <1>8, <1>9 DEF Store!Tell
<1> QED BY <1>10 DEF Store!Next

\* No reader notices: under the lock there is none, and the others keep their view.
LEMMA ReadersStill ==
  ASSUME TypeOK, UNCHANGED backend,
         \A d \in Client : txn[d].kind = "read" =>
           txn'[d] = txn[d] /\ (backend \in Locked => latest'[txn[d].build] = latest[txn[d].build]),
         \A d \in Client : txn'[d].kind = "read" => txn[d].kind = "read"
  PROVE  Readers' = Readers
<1>1. ASSUME NEW d \in Client PROVE Reader(txn[d])' = Reader(txn[d])
  <2>1. CASE txn[d].kind # "read"
    <3>1. txn'[d].kind # "read"
      BY <2>1
    <3> QED BY <2>1, <3>1 DEF Reader
  <2>2. CASE txn[d].kind = "read"
    <3>1. txn'[d] = txn[d]
      BY <2>2
    <3>2. Found(txn[d])' = Found(txn[d])
      BY <2>2, <3>1 DEF Found
    <3> QED BY <3>1, <3>2 DEF Reader
  <2> QED BY <2>1, <2>2
<1> QED BY <1>1 DEF Readers

LEMMA CommitRefines ==
  ASSUME DbInv, NEW c \in Client, Commit(c)
  PROVE  Store!Next
<1>1. /\ c \in Of("write") /\ txn[c].left = {} /\ TypeOK
      /\ txn' = [txn EXCEPT ![c] = NoTxn]
      /\ latest' = [latest EXCEPT ![txn[c].build] = txn[c].new]
      /\ data' = Committed(c) /\ file' = OnDisk(c)
      /\ UNCHANGED backend
  BY DEF Commit, Of, DbInv
<1>2. txn[c].build \in Build /\ txn[c].new \in Entry
  BY <1>1, TxnShape
<1>3. backend \in Locked => Of("read") = {}
  BY <1>1 DEF TypeOK
<1>4. Readers' = Readers
  <2>1. txn \in [Client -> Txn] /\ txn[c].kind = "write"
    BY <1>1 DEF TypeOK, Of
  <2> QED BY <1>1, <1>3, <2>1, ReadersStill DEF Of, NoTxn
<1>5. OnDiskNow' = IF backend \in Transactional THEN latest' ELSE OnDiskNow
  <2>1. CASE backend \in Transactional
    <3>1. Holds(data)' /\ file' = data' /\ backend # "in_memory"
      BY <1>1, <2>1, CommitInv DEF DbInv, TransactionalInv, Transactional
    <3>2. \A b \in Build : file'[b] = latest'[b]
      BY <3>1 DEF Holds, Keys
    <3>3. latest' \in [Build -> Entry]
      BY <1>1, <1>2 DEF TypeOK
    <3> QED BY <1>1, <2>1, <3>1, <3>2, <3>3 DEF OnDiskNow
  <2>2. CASE backend \notin Transactional
    BY <1>1, <2>2 DEF OnDisk, OnDiskNow
  <2> QED BY <2>1, <2>2
<1>6. Store!Record(txn[c].build, txn[c].new)
  BY <1>1, <1>4, <1>5 DEF Store!Record, Store!Change
<1> QED BY <1>2, <1>6 DEF Store!Next, Entry

LEMMA ResetRefines ==
  ASSUME DbInv, NEW c \in Client, Reset(c)
  PROVE  Store!Next
<1>0. txn \in [Client -> Txn] /\ UNCHANGED backend /\ TypeOK
  BY DEF DbInv, TypeOK, Reset
<1>1. CASE backend = "dumb" \/ LockFails
  BY <1>0, <1>1, LeavesStore DEF Reset, Dead
<1>2. CASE ~(backend = "dumb" \/ LockFails)
  <2>1. /\ CanWrite /\ UNCHANGED txn
        /\ file' = IF backend \in Transactional THEN Empty ELSE file
        /\ latest' = Store!Nothing
    BY <1>2 DEF Reset, Store!Nothing
  <2>2. Readers' = Readers
    BY <1>0, <2>1, ReadersStill DEF CanWrite, Of
  <2>3. OnDiskNow' = IF backend \in Transactional THEN Store!Nothing ELSE OnDiskNow
    <3>1. \A b \in Build : Empty[b] = None
      BY DEF Empty, Key
    <3> QED BY <1>0, <2>1, <3>1 DEF OnDiskNow, Store!Nothing
  <2>4. Store!Clear
    BY <1>0, <2>1, <2>2, <2>3 DEF Store!Clear, Store!Change
  <2> QED BY <2>4 DEF Store!Next
<1> QED BY <1>1, <1>2

LEMMA LifeRefines ==
  ASSUME DbInv, Close \/ Save \/ Kill \/ Reopen
  PROVE  Store!Next \/ UNCHANGED <<backend, latest, OnDiskNow, Readers>>
<1>0. \A b \in Build : Empty[b] = None /\ b \in Keys(b)
  BY DEF Empty, Key, Keys
<1>a. ASSUME UNCHANGED <<backend, txn, latest>> PROVE UNCHANGED Readers
  BY <1>a DEF Readers, Reader, Found
<1>1. CASE Close
  <2>1. UNCHANGED <<backend, txn, latest>>
    BY <1>1 DEF Close
  <2>2. CASE backend = "dumb"
    <3>1. backend \notin Transactional /\ OnDiskNow' = Store!Nothing
      BY <1>0, <1>1, <2>1, <2>2 DEF Close, Transactional, OnDiskNow, Store!Nothing
    <3> QED BY <1>a, <2>1, <3>1 DEF Store!Next, Store!Save
  <2>3. CASE backend # "dumb"
    BY <1>1, <1>a, <2>1, <2>3 DEF Close, OnDiskNow
  <2> QED BY <2>2, <2>3
<1>2. CASE Save
  <2>1. UNCHANGED <<backend, txn, latest>> /\ open = "closing"
        /\ file' = IF ~poisoned THEN data ELSE file
    BY <1>2 DEF Save, Saves
  <2>2. CASE poisoned \/ backend = "in_memory"
    BY <1>a, <2>1, <2>2 DEF OnDiskNow
  <2>3. CASE ~poisoned /\ backend # "in_memory"
    <3>1. Holds(data)
      BY <2>1, <2>3, BackendsAssumption
         DEF DbInv, TypeOK, LockedInv, TransactionalInv, NobodyIn
    <3>2. OnDiskNow' = latest
      <4>1. latest \in [Build -> Entry] /\ \A b \in Build : data[b] = latest[b]
        BY <1>0, <3>1 DEF DbInv, TypeOK, Holds
      <4> QED BY <2>1, <2>3, <4>1 DEF OnDiskNow
    <3>3. CASE backend \in Transactional
      <4>1. file' = file
        BY <2>1, <3>3 DEF DbInv, TransactionalInv
      <4> QED BY <1>a, <2>1, <4>1 DEF OnDiskNow
    <3>4. CASE backend \notin Transactional
      BY <1>a, <2>1, <3>2, <3>4 DEF Store!Next, Store!Save
    <3> QED BY <3>3, <3>4
  <2> QED BY <2>2, <2>3
<1>b. ASSUME txn' = [c \in Client |-> NoTxn] PROVE Readers' = Store!Nobody
  BY <1>b DEF Readers, Reader, NoTxn, Store!Nobody, Store!Away
<1>3. CASE Kill
  <2>1. UNCHANGED <<backend, latest, OnDiskNow>> /\ Readers' = Store!Nobody
    BY <1>3, <1>b DEF Kill, OnDiskNow
  <2> QED BY <2>1 DEF Store!Next, Store!Stop
<1>4. CASE Reopen
  <2>1. /\ UNCHANGED <<backend, file>> /\ Readers' = Store!Nobody
        /\ latest' = IF backend \in Transactional THEN latest
                     ELSE [b \in Build |-> data'[b]]
        /\ data' = IF backend = "in_memory" THEN Empty ELSE file
    BY <1>4, <1>b DEF Reopen
  <2>2. latest' = OnDiskNow
    <3>1. CASE backend \in Transactional
      <4>1. /\ latest \in [Build -> Entry] /\ \A b \in Build : file[b] = latest[b]
            /\ backend # "in_memory"
        BY <1>0, <3>1 DEF DbInv, TypeOK, TransactionalInv, Holds, Transactional
      <4> QED BY <2>1, <3>1, <4>1 DEF OnDiskNow
    <3>2. CASE backend \notin Transactional
      BY <1>0, <2>1, <3>2 DEF OnDiskNow
    <3> QED BY <3>1, <3>2
  <2>3. OnDiskNow' = OnDiskNow
    BY <2>1 DEF OnDiskNow
  <2> QED BY <2>1, <2>2, <2>3 DEF Store!Next, Store!Restart
<1> QED BY <1>1, <1>2, <1>3, <1>4

\* All four databases do what RecordStore promises, for any number of clients and
\* builds, and however their transactions, panics, resets, kills and restarts
\* interleave: begin_read is a Begin, each answer a Tell, commit a Record.
THEOREM BuildDbImplementsRecordStore == Spec => ImplementsRecordStore
<1>1. Init => Store!Init
  <2> SUFFICES ASSUME Init PROVE Store!Init
    OBVIOUS
  <2>1. Readers = Store!Nobody
    BY DEF Init, Readers, Reader, NoTxn, Store!Nobody, Store!Away
  <2>2. OnDiskNow = Store!Nothing /\ latest = Store!Nothing
    BY DEF Init, OnDiskNow, Empty, Key, Store!Nothing
  <2> QED BY <2>1, <2>2 DEF Store!Init
<1>2. DbInv /\ [Next]_vars => [Store!Next]_(Store!vars)
  <2> SUFFICES ASSUME DbInv, [Next]_vars PROVE [Store!Next]_(Store!vars)
    OBVIOUS
  <2>0. txn \in [Client -> Txn]
    BY DEF DbInv, TypeOK
  <2>1. ASSUME NEW c \in Client,
               \/ \E b \in Build, new \in Version \cup {None} : BeginWrite(c, b, new)
               \/ \E k \in Key : Put(c, k)
               \/ EndRead(c) \/ PanicIn(c)
        PROVE  Store!Next
    <3>1. CASE \E b \in Build, new \in Version \cup {None} : BeginWrite(c, b, new)
      <4>1. PICK b \in Build, new \in Version \cup {None} : BeginWrite(c, b, new)
        BY <3>1
      <4>2. CASE LockFails
        BY <2>0, <4>1, <4>2, LeavesStore DEF BeginWrite, Dead
      <4>3. CASE ~LockFails
        BY <2>0, <4>1, <4>3, LeavesStore DEF BeginWrite, WriteTxn
      <4> QED BY <4>2, <4>3
    <3>2. CASE \E k \in Key : Put(c, k)
      BY <2>0, <3>2, LeavesStore DEF Put, WriteTxn
    <3>3. CASE EndRead(c)
      BY <2>0, <3>3, LeavesStore DEF EndRead, NoTxn
    <3>4. CASE PanicIn(c)
      BY <2>0, <3>4, LeavesStore DEF PanicIn, Dead
    <3> QED BY <2>1, <3>1, <3>2, <3>3, <3>4
  <2>2. CASE UNCHANGED vars
    BY <2>2 DEF vars, Store!vars, OnDiskNow, Readers, Reader, Found
  <2>3. CASE Close \/ Save \/ Kill \/ Reopen
    BY <2>3, LifeRefines DEF Store!vars
  <2>4. CASE \E c \in Client, b \in Build : BeginRead(c, b)
    BY <2>4, BeginReadRefines
  <2>5. CASE \E c \in Client, k \in Key : Get(c, k)
    BY <2>5, GetRefines
  <2>6. CASE \E c \in Client : Commit(c) \/ Reset(c)
    BY <2>6, CommitRefines, ResetRefines
  <2> QED BY <2>1, <2>2, <2>3, <2>4, <2>5, <2>6 DEF Next
<1> QED BY <1>1, <1>2, DbInvariance, PTL DEF Spec, ImplementsRecordStore, Store!Spec
=============================================================================
