------------------------- MODULE IncrementalBuildProof -------------------------
(***************************************************************************)
(* Theorems about IncrementalBuild, for every set of builds and files,     *)
(* every scenario and any number of edits and sessions; and what a session *)
(* leaves behind that nobody disturbs.                                     *)
(***************************************************************************)
EXTENDS IncrementalBuild, ExecutorProof

-----------------------------------------------------------------------------
(* What a database says, apart from any session: of build b in manifest m, *)
(* with files of times mt and contents ct.                                 *)

\* The database D would let stat_node find the build up to date.
Vouches(D, mt, m, b) ==
  /\ HashIn(m, b) \in DOMAIN D.build
  /\ D.build[HashIn(m, b)].input_set_digest = DigestIn(m, DependenciesIn(m), b)
  /\ \A f \in m[b].ins : mt[f] > 0 /\ mt[f] <= D.build[HashIn(m, b)].last_start
  /\ \A f \in m[b].outs :
       /\ mt[f] > 0 /\ f \in DOMAIN D.file
       /\ D.file[f].generated_by = HashIn(m, b) /\ mt[f] <= D.file[f].last_seen

\* Its outputs are what its command makes of its inputs.
MadeFrom(ct, m, b) ==
  <<"output", m[b].method, m[b].cmd, [f \in m[b].ins |-> ct[f]]>>

FreshIn(ct, m, b) ==
  m[b].method # "phony" => \A f \in m[b].outs : ct[f] = MadeFrom(ct, m, b)

\* The record of b in D is in bl, or was made of other inputs than b has in m.
Excused(D, m, b, bl) ==
  \/ <<HashIn(m, b), D.build[HashIn(m, b)].last_start>> \in bl
  \/ D.build[HashIn(m, b)].read # m[b].ins

\* In no manifest D vouches for a stale output, unless its record is excused.
Honest(D, ms, mt, ct, bl) ==
  \A m \in ms : \A b \in DOMAIN m :
    Vouches(D, mt, m, b) => FreshIn(ct, m, b) \/ Excused(D, m, b, bl)

\* An output is recorded with the build that made it, and not later.
Recorded(D) ==
  /\ DOMAIN D.file \subseteq File
  /\ \A h \in DOMAIN D.build : D.build[h].last_start \in Nat
  /\ \A f \in DOMAIN D.file :
       /\ D.file[f].last_seen \in Nat
       /\ f \in D.file[f].generated_by[3]
       /\ D.file[f].generated_by \in DOMAIN D.build
       /\ D.file[f].last_seen <= D.build[D.file[f].generated_by].last_start

\* The manifests are well formed.
Manifests(ms) == \A m \in ms : IsManifest(m)

\* Files fs are written at time t; mt, ct and bl become mu, cu and bk.
Written(D, fs, t, mt, ct, bl, mu, cu, bk) ==
  /\ fs \subseteq File /\ t \in Nat /\ bl \subseteq bk
  /\ \A f \in File : mu[f] = IF f \in fs THEN t ELSE mt[f]
  /\ \A f \in File \ fs : cu[f] = ct[f]
  /\ \A f \in fs : NotOlder(D, f, t) \subseteq bk

\* The file g is removed.
Removed(g, mt, ct, mu, cu) ==
  \A f \in File : mu[f] = (IF f = g THEN 0 ELSE mt[f]) /\ (f # g => cu[f] = ct[f])

\* D after build b of manifest m was recorded at time t, or dropped.
RecordedIn(D, m, b, t) ==
  [build |-> Put(D.build, {HashIn(m, b)},
                 [last_start |-> t,
                  input_set_digest |-> DigestIn(m, DependenciesIn(m), b),
                  read |-> m[b].ins]),
   file |-> Put(D.file, m[b].outs, [last_seen |-> t, generated_by |-> HashIn(m, b)])]

DroppedIn(D, m, b) ==
  [build |-> Drop(D.build, {HashIn(m, b)}), file |-> Drop(D.file, m[b].outs)]

\* What the digest has of an input is not zero.
LEMMA DigestHasInputs ==
  ASSUME NEW m, IsManifest(m), NEW b \in DOMAIN m, NEW f \in m[b].ins
  PROVE  f \in File /\ DigestIn(m, DependenciesIn(m), b)[f] > 0
<1> DEFINE S == {d \in build_dependencies(DependenciesIn(m), b) : f \in m[d].outs}
<1>1. f \in File /\ b \in BuildId
  BY DEF IsManifest
<1>2. S \in SUBSET BuildId
  BY <1>1 DEF IsManifest, DependenciesIn, build_dependencies
<1>3. Cardinality(S) \in Nat
  BY <1>2, BuildSetsFinite
<1>4. DigestIn(m, DependenciesIn(m), b)[f] = 1 + Cardinality(S)
  BY <1>1 DEF DigestIn
<1> HIDE DEF S
<1> QED BY <1>1, <1>3, <1>4

\* Somebody writes the files fs at time t: what the database vouched for it
\* vouches for with a record no older than t, or not at all.
LEMMA WritingKeepsHonest ==
  ASSUME NEW ms, Manifests(ms), NEW D, Recorded(D),
         NEW mt \in [File -> Nat], NEW ct, NEW bl, Honest(D, ms, mt, ct, bl),
         NEW fs, NEW t, NEW mu, NEW cu, NEW bk,
         Written(D, fs, t, mt, ct, bl, mu, cu, bk)
  PROVE  Honest(D, ms, mu, cu, bk)
<1> USE DEF Written
<1> SUFFICES ASSUME NEW m \in ms, NEW b \in DOMAIN m, Vouches(D, mu, m, b)
             PROVE  FreshIn(cu, m, b) \/ Excused(D, m, b, bk)
  BY DEF Honest
<1> DEFINE h == HashIn(m, b)
           r == D.build[h]
<1>1. /\ IsManifest(m) /\ m[b].ins \subseteq File /\ m[b].outs \subseteq File
  BY DEF Manifests, IsManifest
<1>2. /\ h \in DOMAIN D.build /\ r.last_start \in Nat
      /\ r.input_set_digest = DigestIn(m, DependenciesIn(m), b)
      /\ h[3] = m[b].outs
  BY DEF Vouches, Recorded, HashIn
<1>3. ASSUME NEW f \in fs, r.last_start >= t, f \in h[3] \/ r.input_set_digest[f] > 0
      PROVE  Excused(D, m, b, bk)
  <2>1. <<h, r.last_start>> \in NotOlder(D, f, t)
    BY <1>2, <1>3 DEF NotOlder
  <2> QED BY <2>1 DEF Excused
<1>4. CASE \E f \in fs : f \in m[b].ins
  <2>1. PICK f \in fs : f \in m[b].ins
    BY <1>4
  <2>2. t <= r.last_start
    BY <2>1, <1>1 DEF Vouches
  <2>3. r.input_set_digest[f] > 0
    BY <2>1, <1>1, <1>2, DigestHasInputs
  <2> HIDE DEF h
  <2> QED BY <1>2, <1>3, <2>1, <2>2, <2>3 DEF h
<1>5. CASE \E f \in fs : f \in m[b].outs
  <2>1. PICK f \in fs : f \in m[b].outs
    BY <1>5
  <2>2. /\ t <= D.file[f].last_seen /\ f \in DOMAIN D.file
        /\ D.file[f].generated_by = h
    BY <2>1, <1>1 DEF Vouches
  <2>3. D.file[f].last_seen \in Nat /\ D.file[f].last_seen <= r.last_start
    BY <2>2 DEF Recorded
  <2>4. r.last_start >= t
    BY <2>2, <2>3, <1>2
  <2> HIDE DEF h, r
  <2> QED BY <1>2, <1>3, <2>1, <2>4 DEF h, r
<1>6. CASE /\ ~\E f \in fs : f \in m[b].ins
           /\ ~\E f \in fs : f \in m[b].outs
  <2>1. \A f \in m[b].ins \cup m[b].outs : mu[f] = mt[f] /\ cu[f] = ct[f]
    BY <1>1, <1>6
  <2>2. Vouches(D, mt, m, b)
    BY <2>1 DEF Vouches
  <2>3. FreshIn(ct, m, b) \/ Excused(D, m, b, bk)
    BY <2>2 DEF Honest, Excused
  <2>4. FreshIn(ct, m, b) => FreshIn(cu, m, b)
    BY <2>1 DEF FreshIn, MadeFrom
  <2> QED BY <2>3, <2>4
<1> QED BY <1>4, <1>5, <1>6

\* A file that is gone is vouched for by nobody.
LEMMA RemovingKeepsHonest ==
  ASSUME NEW ms, Manifests(ms), NEW D,
         NEW mt \in [File -> Nat], NEW ct, NEW bl, Honest(D, ms, mt, ct, bl),
         NEW g, NEW mu, NEW cu, Removed(g, mt, ct, mu, cu)
  PROVE  Honest(D, ms, mu, cu, bl)
<1> SUFFICES ASSUME NEW m \in ms, NEW b \in DOMAIN m, Vouches(D, mu, m, b)
             PROVE  FreshIn(cu, m, b) \/ Excused(D, m, b, bl)
  BY DEF Honest
<1>1. /\ m[b].ins \subseteq File /\ m[b].outs \subseteq File
  BY DEF Manifests, IsManifest
<1>2. g \notin m[b].ins \cup m[b].outs
  BY <1>1 DEF Vouches, Removed
<1>3. \A f \in m[b].ins \cup m[b].outs : mu[f] = mt[f] /\ cu[f] = ct[f]
  BY <1>1, <1>2 DEF Removed
<1>4. Vouches(D, mt, m, b)
  BY <1>3 DEF Vouches
<1>5. FreshIn(ct, m, b) \/ Excused(D, m, b, bl)
  BY <1>4 DEF Honest
<1>6. FreshIn(ct, m, b) => FreshIn(cu, m, b)
  BY <1>3 DEF FreshIn, MadeFrom
<1> QED BY <1>5, <1>6

\* A build that is fresh, or known to be blind, is recorded.
LEMMA RecordingKeepsHonest ==
  ASSUME NEW ms, Manifests(ms), NEW D, Recorded(D),
         NEW mt, NEW ct, NEW bl, Honest(D, ms, mt, ct, bl),
         NEW m \in ms, NEW b \in DOMAIN m, NEW t \in Nat, NEW bk, bl \subseteq bk,
         \/ <<HashIn(m, b), t>> \in bk
         \/ (\A f \in m[b].ins \cup m[b].outs : mt[f] > 0) => FreshIn(ct, m, b)
  PROVE  /\ Recorded(RecordedIn(D, m, b, t))
         /\ Honest(RecordedIn(D, m, b, t), ms, mt, ct, bk)
<1> DEFINE h == HashIn(m, b)
           E == RecordedIn(D, m, b, t)
<1>1. /\ DOMAIN E.build = DOMAIN D.build \cup {h}
      /\ E.build[h].last_start = t
      /\ E.build[h].read = m[b].ins
      /\ \A g \in DOMAIN D.build \ {h} : E.build[g] = D.build[g]
      /\ DOMAIN E.file = DOMAIN D.file \cup m[b].outs
      /\ \A f \in m[b].outs : E.file[f].last_seen = t /\ E.file[f].generated_by = h
      /\ \A f \in DOMAIN D.file \ m[b].outs : E.file[f] = D.file[f]
  BY DEF Put, RecordedIn
<1>2. h[3] = m[b].outs /\ m[b].outs \subseteq File
  BY DEF HashIn, Manifests, IsManifest
<1> HIDE DEF E
<1>3. Recorded(E)
  <2>1. \A g \in DOMAIN E.build : E.build[g].last_start \in Nat
    BY <1>1 DEF Recorded
  <2>2. ASSUME NEW f \in DOMAIN E.file
        PROVE  /\ E.file[f].last_seen \in Nat
               /\ f \in E.file[f].generated_by[3]
               /\ E.file[f].generated_by \in DOMAIN E.build
               /\ E.file[f].last_seen <= E.build[E.file[f].generated_by].last_start
    <3>1. CASE f \in m[b].outs
      BY <3>1, <1>1, <1>2
    <3>2. CASE f \notin m[b].outs
      <4>1. /\ f \in DOMAIN D.file /\ E.file[f] = D.file[f]
            /\ f \in D.file[f].generated_by[3] /\ D.file[f].generated_by # h
        BY <3>2, <1>1, <1>2 DEF Recorded
      <4>2. /\ D.file[f].last_seen \in Nat /\ D.file[f].generated_by \in DOMAIN D.build
            /\ D.file[f].last_seen <= D.build[D.file[f].generated_by].last_start
        BY <4>1 DEF Recorded
      <4>3. E.build[D.file[f].generated_by] = D.build[D.file[f].generated_by]
        BY <4>1, <4>2, <1>1
      <4> QED BY ONLY <4>1, <4>2, <4>3, <1>1
    <3> QED BY <3>1, <3>2
  <2> QED BY <2>1, <2>2, <1>1, <1>2 DEF Recorded
<1>4. ASSUME NEW n \in ms, NEW c \in DOMAIN n, Vouches(E, mt, n, c)
      PROVE  FreshIn(ct, n, c) \/ Excused(E, n, c, bk)
  <2>0. CASE HashIn(n, c) = h /\ n[c].ins # m[b].ins
    BY <2>0, <1>1 DEF Excused
  <2>1. CASE HashIn(n, c) = h /\ n[c].ins = m[b].ins
    <3>1. n[c].ins = m[b].ins
      BY <2>1
    <3>2. /\ n[c].method = m[b].method /\ n[c].cmd = m[b].cmd /\ n[c].outs = m[b].outs
      BY <2>1 DEF HashIn
    <3>3. FreshIn(ct, m, b) => FreshIn(ct, n, c)
      BY <3>1, <3>2 DEF FreshIn, MadeFrom
    <3>4. \A f \in m[b].ins \cup m[b].outs : mt[f] > 0
      BY <1>4, <3>1, <3>2 DEF Vouches
    <3> QED BY <3>3, <3>4, <2>1, <1>1 DEF Excused
  <2>2. CASE HashIn(n, c) # h
    <3>1. \A f \in n[c].outs : f \notin m[b].outs
      BY <2>2, <1>1, <1>4 DEF Vouches
    <3>2. /\ HashIn(n, c) \in DOMAIN D.build
          /\ E.build[HashIn(n, c)] = D.build[HashIn(n, c)]
      BY <2>2, <1>1, <1>4 DEF Vouches
    <3>3. \A f \in n[c].outs \cap DOMAIN E.file :
            f \in DOMAIN D.file /\ E.file[f] = D.file[f]
      BY <3>1, <1>1
    <3>4. Vouches(D, mt, n, c)
      BY <1>4, <3>2, <3>3 DEF Vouches
    <3> QED BY <3>2, <3>4 DEF Honest, Excused
  <2> QED BY <2>0, <2>1, <2>2
<1> QED BY <1>3, <1>4 DEF Honest, E

\* A record is dropped with the outputs recorded for it.
LEMMA DroppingKeepsHonest ==
  ASSUME NEW ms, NEW D, Recorded(D),
         NEW mt, NEW ct, NEW bl, Honest(D, ms, mt, ct, bl),
         NEW m \in ms, NEW b \in DOMAIN m
  PROVE  Recorded(DroppedIn(D, m, b)) /\ Honest(DroppedIn(D, m, b), ms, mt, ct, bl)
<1> DEFINE E == DroppedIn(D, m, b)
<1>1. /\ DOMAIN E.build = DOMAIN D.build \ {HashIn(m, b)}
      /\ \A g \in DOMAIN E.build : E.build[g] = D.build[g]
      /\ DOMAIN E.file = DOMAIN D.file \ m[b].outs
      /\ \A f \in DOMAIN E.file : E.file[f] = D.file[f]
  BY DEF Drop, Restrict, DroppedIn
<1> HIDE DEF E
<1>2. HashIn(m, b)[3] = m[b].outs
  BY DEF HashIn
<1>3. Recorded(E)
  <2>1. ASSUME NEW f \in DOMAIN E.file
        PROVE  /\ E.file[f].last_seen \in Nat
               /\ f \in E.file[f].generated_by[3]
               /\ E.file[f].generated_by \in DOMAIN E.build
               /\ E.file[f].last_seen <= E.build[E.file[f].generated_by].last_start
    <3>1. /\ f \in DOMAIN D.file /\ f \notin m[b].outs /\ E.file[f] = D.file[f]
      BY <1>1
    <3>2. /\ D.file[f].last_seen \in Nat /\ f \in D.file[f].generated_by[3]
          /\ D.file[f].generated_by \in DOMAIN D.build
          /\ D.file[f].last_seen <= D.build[D.file[f].generated_by].last_start
      BY <3>1 DEF Recorded
    <3>3. D.file[f].generated_by # HashIn(m, b)
      BY <3>1, <3>2, <1>2
    <3> QED BY ONLY <3>1, <3>2, <3>3, <1>1
  <2>2. \A g \in DOMAIN E.build : E.build[g].last_start \in Nat
    BY <1>1 DEF Recorded
  <2>3. DOMAIN E.file \subseteq File
    BY <1>1 DEF Recorded
  <2> QED BY ONLY <2>1, <2>2, <2>3 DEF Recorded
<1>4. ASSUME NEW n \in ms, NEW c \in DOMAIN n, Vouches(E, mt, n, c)
      PROVE  Vouches(D, mt, n, c) /\ E.build[HashIn(n, c)] = D.build[HashIn(n, c)]
  BY <1>1, <1>4 DEF Vouches
<1> QED BY <1>3, <1>4 DEF Honest, Excused, E

-----------------------------------------------------------------------------
(* The invariant behind VouchedIsFresh.                                    *)

World ==
  /\ scenario \in Scenarios /\ manifest \in scenario.manifests
  /\ graph = DependenciesIn(manifest)
  /\ mtime \in [File -> Nat] /\ content = [f \in File |-> content[f]]
  /\ clock \in Nat
  /\ stage \in [BuildId -> Stages]
  /\ product = [b \in BuildId |-> product[b]]

Sound(D) ==
  Recorded(D) /\ Honest(D, scenario.manifests, mtime, content, blind)

\* As long as nobody else touches its files, what the task of b has made or is
\* about to write is what its command makes of the inputs.
TaskHonest(b) ==
  b \notin raced /\ (\A f \in Ins(b) : mtime[f] > 0) =>
    /\ stage[b] \in {"read", "partial"} => product[b] = Output(b)
    /\ stage[b] = "written" /\ Method(b) # "phony" =>
         \A f \in Outs(b) : mtime[f] > 0 => content[f] = Output(b)

VInv ==
  /\ World
  /\ Sound(db) /\ Sound(saved)
  /\ \A b \in DOMAIN manifest : TaskHonest(b)

LEMMA ScenarioManifests ==
  ASSUME World
  PROVE  /\ Manifests(scenario.manifests)
         /\ IsManifest(manifest) /\ DOMAIN manifest \subseteq BuildId
         /\ graph \in Graphs
         /\ \A b \in DOMAIN manifest :
              /\ Ins(b) \subseteq File /\ Outs(b) \subseteq File
              /\ Ins(b) \cap Outs(b) = {}
<1>1. \A m \in scenario.manifests : IsManifest(m) /\ DependenciesIn(m) \in Graphs
  BY ScenariosAssumption, ManifestGraphsAssumption DEF World
<1>2. Manifests(scenario.manifests)
  BY <1>1 DEF World, Manifests
<1>3. IsManifest(manifest) /\ DOMAIN manifest \subseteq BuildId /\ graph \in Graphs
  BY <1>1 DEF World, IsManifest
<1>4. ASSUME NEW b \in DOMAIN manifest
      PROVE  /\ Ins(b) \subseteq File /\ Outs(b) \subseteq File
             /\ Ins(b) \cap Outs(b) = {}
  <2>1. Ins(b) \subseteq File /\ Outs(b) \subseteq File /\ b \in BuildId
    BY <1>3 DEF IsManifest, Ins, Outs
  <2>2. b \notin graph[b]
    <3>1. {b} \in (SUBSET BuildId) \ {{}}
      BY <2>1
    <3> QED BY <1>3, <3>1, GraphsAssumption DEF Acyclic, build_dependencies
  <2>3. Ins(b) \cap Outs(b) # {} => b \in graph[b]
    BY <2>1 DEF World, DependenciesIn, Ins, Outs
  <2> QED BY <2>1, <2>2, <2>3
<1> QED BY <1>2, <1>3, <1>4

LEMMA NowIsNat ==
  ASSUME World, NEW t \in Now
  PROVE  t \in Nat
BY DEF World, Now

\* A step that leaves the files alone; b may have read its inputs.
LEMMA FilesStill ==
  ASSUME VInv, UNCHANGED <<scenario, manifest, graph, mtime, content, raced>>,
         clock' \in Nat, stage' \in [BuildId -> Stages],
         product' = [b \in BuildId |-> product'[b]],
         \A b \in DOMAIN manifest : stage'[b] \in {"read", "partial", "written"} =>
           \/ stage'[b] = stage[b] /\ product'[b] = product[b]
           \/ stage'[b] = "read" /\ product'[b] = Output(b)
           \/ stage'[b] = "written" /\ Method(b) = "phony"
  PROVE  World' /\ \A b \in DOMAIN manifest' : TaskHonest(b)'
<1>1. World'
  BY DEF VInv, World
<1>2. \A b \in DOMAIN manifest :
        Output(b)' = Output(b) /\ Ins(b)' = Ins(b) /\ Outs(b)' = Outs(b) /\ Method(b)' = Method(b)
  BY DEF Output, Ins, Outs, Method
<1>3. \A b \in DOMAIN manifest : TaskHonest(b)'
  BY <1>2 DEF VInv, TaskHonest
<1> QED BY <1>1, <1>3

\* If the database stays too, what it says stays sound.
LEMMA NothingMoves ==
  ASSUME VInv, UNCHANGED <<scenario, manifest, graph, disk, database, raced, blind>>,
         stage' \in [BuildId -> Stages],
         product' = [b \in BuildId |-> product'[b]],
         \A b \in DOMAIN manifest : stage'[b] \in {"read", "partial", "written"} =>
           \/ stage'[b] = stage[b] /\ product'[b] = product[b]
           \/ stage'[b] = "read" /\ product'[b] = Output(b)
           \/ stage'[b] = "written" /\ Method(b) = "phony"
  PROVE  VInv'
<1>1. UNCHANGED <<mtime, content, clock, db, saved>> /\ clock' \in Nat
  BY DEF disk, database, VInv, World
<1>2. World' /\ \A b \in DOMAIN manifest' : TaskHonest(b)'
  BY <1>1, FilesStill
<1>3. Sound(db)' /\ Sound(saved)'
  BY <1>1 DEF VInv, Sound
<1> QED BY <1>2, <1>3 DEF VInv

\* Somebody writes files.  The builds whose task did not move and who are not
\* the writer are honest still.
LEMMA FilesWritten ==
  ASSUME VInv, NEW fs \in SUBSET File, NEW c, NEW t \in Now,
         NEW others \in SUBSET BuildId,
         WriteFiles(fs, c, t), Disturb(fs, others, t),
         UNCHANGED <<scenario, manifest, graph, database>>,
         stage' \in [BuildId -> Stages],
         product' = [b \in BuildId |-> product'[b]]
  PROVE  /\ World' /\ Sound(db)' /\ Sound(saved)'
         /\ \A b \in DOMAIN manifest :
              b \in others /\ stage'[b] = stage[b] /\ product'[b] = product[b] =>
                TaskHonest(b)'
<1>1. t \in Nat /\ mtime \in [File -> Nat]
  BY NowIsNat DEF VInv, World
<1>2. /\ clock' = t
      /\ mtime' = [f \in File |-> IF f \in fs THEN t ELSE mtime[f]]
      /\ content' = [f \in File |-> IF f \in fs THEN c ELSE content[f]]
      /\ raced' = raced \cup (others \cap UNION {Unrecorded(f) : f \in fs})
      /\ blind' = blind \cup UNION {NotOlder(db, f, t) \cup NotOlder(saved, f, t) : f \in fs}
      /\ db' = db /\ saved' = saved
  BY DEF WriteFiles, Disturb, database
<1>3. World'
  BY <1>1, <1>2 DEF VInv, World
<1>4. /\ blind \subseteq blind'
      /\ \A f \in fs : NotOlder(db, f, t) \subseteq blind' /\ NotOlder(saved, f, t) \subseteq blind'
  BY <1>2
<1>5. \A f \in File \ fs : content'[f] = content[f]
  BY <1>2
<1>6. Manifests(scenario.manifests)
  BY ScenarioManifests DEF VInv
<1>7. \A f \in File : mtime'[f] = IF f \in fs THEN t ELSE mtime[f]
  BY <1>2
<1>8. ASSUME NEW D, Sound(D), \A f \in fs : NotOlder(D, f, t) \subseteq blind'
      PROVE  Honest(D, scenario.manifests, mtime', content', blind')
  <2>1. Written(D, fs, t, mtime, content, blind, mtime', content', blind')
    BY <1>1, <1>4, <1>5, <1>7, <1>8 DEF Written
  <2>2. Recorded(D) /\ Honest(D, scenario.manifests, mtime, content, blind)
    BY <1>8 DEF Sound
  <2> QED BY <2>1, <2>2, <1>1, <1>6, WritingKeepsHonest
<1>9. Sound(db)' /\ Sound(saved)'
  BY <1>2, <1>4, <1>8 DEF VInv, Sound
<1>10. ASSUME NEW b \in DOMAIN manifest, b \in others, stage'[b] = stage[b],
              product'[b] = product[b]
       PROVE  TaskHonest(b)'
  <2>1. Ins(b)' = Ins(b) /\ Outs(b)' = Outs(b) /\ Method(b)' = Method(b)
    BY DEF Ins, Outs, Method
  <2>2. Ins(b) \subseteq File /\ Outs(b) \subseteq File
    BY ScenarioManifests DEF VInv
  <2>3. CASE b \in raced'
    BY <2>3 DEF TaskHonest
  <2>4. CASE b \notin raced' /\ stage[b] \in {"read", "partial"}
    <3>1. Ins(b) \cap fs = {}
      BY <2>4, <1>2, <1>10 DEF Unrecorded, At
    <3>2. \A f \in Ins(b) : mtime'[f] = mtime[f] /\ content'[f] = content[f]
      BY <3>1, <2>2, <1>2
    <3>3. Output(b)' = Output(b)
      BY <2>1, <3>2 DEF Output
    <3> QED BY <2>1, <2>4, <3>2, <3>3, <1>2, <1>10 DEF VInv, TaskHonest
  <2>5. CASE b \notin raced' /\ stage[b] = "written"
    <3>1. (Ins(b) \cup Outs(b)) \cap fs = {}
      BY <2>5, <1>2, <1>10 DEF Unrecorded, At
    <3>2. \A f \in Ins(b) \cup Outs(b) : mtime'[f] = mtime[f] /\ content'[f] = content[f]
      BY <3>1, <2>2, <1>2
    <3>3. Output(b)' = Output(b)
      BY <2>1, <3>2 DEF Output
    <3> QED BY <2>1, <2>5, <3>2, <3>3, <1>2, <1>10 DEF VInv, TaskHonest
  <2>6. CASE stage[b] \notin {"read", "partial", "written"}
    BY <2>6, <1>10 DEF TaskHonest
  <2> QED BY <2>3, <2>4, <2>5, <2>6
<1> QED BY <1>3, <1>9, <1>10

\* The caller's thread, and stat_node, touch nothing a record is about.
LEMMA CallerSound ==
  ASSUME VInv,
         \/ \E S \in SUBSET BuildId : WantTargets(S)
         \/ Caller
         \/ \E b \in DOMAIN manifest : Spawn(b)
  PROVE  VInv'
<1> USE DEF VInv, World, local, env, history
<1>1. DOMAIN manifest \subseteq BuildId
  BY ScenarioManifests
<1>2. CASE \E S \in SUBSET BuildId : WantTargets(S)
  <2>1. UNCHANGED <<scenario, manifest, graph, disk, database, stage, product, raced, blind>>
    BY <1>2 DEF WantTargets, Want
  <2> QED BY <2>1, NothingMoves
<1>3. CASE Caller
  <2>1. UNCHANGED <<scenario, manifest, graph, disk, database, stage, product, raced, blind>>
    BY <1>3 DEF Caller, Run, LeaveLoop, Wait, ReceiveErr, ReceiveSuccess, ReceiveFailed, Join
  <2> QED BY <2>1, NothingMoves
<1>4. ASSUME NEW b \in DOMAIN manifest, Spawn(b)
      PROVE  VInv'
  <2>1. /\ UNCHANGED <<scenario, manifest, graph, disk, database, product, raced, blind>>
        /\ stage' = [stage EXCEPT ![b] = "spawned"]
    BY <1>4 DEF Spawn, StartBuild
  <2>2. "spawned" \in Stages
    BY DEF Stages
  <2> QED BY <2>1, <2>2, <1>1, NothingMoves
<1> QED BY <1>2, <1>3, <1>4

LEMMA StatNodeSound ==
  ASSUME VInv, NEW b \in DOMAIN manifest, StatNode(b)
  PROVE  VInv'
<1>1. b \in BuildId /\ stage \in [BuildId -> Stages]
      /\ product = [c \in BuildId |-> product[c]]
  BY ScenarioManifests DEF VInv, World
<1>2. /\ UNCHANGED <<scenario, manifest, graph, disk, database, product, raced, blind>>
      /\ \E s \in {"ins", "outs", "run"} \cup Results : 
           stage' = stage \/ stage' = [stage EXCEPT ![b] = s]
  <2> USE DEF env, history, vars, local
  <2>1. CASE BeginRead(b)
    BY <2>1 DEF BeginRead
  <2>2. ASSUME NEW f \in File, StatInput(b, f) \/ StatOutput(b, f)
        PROVE  <1>2!1 /\ <1>2!2
    BY <2>2 DEF StatInput, StatOutput, LookAt, Verdict, Outdated, Leave, BeginExecute,
                Results, Successful
  <2>3. ASSUME NEW f \in File, StatInputTime(b, f) \/ StatOutputTime(b, f)
        PROVE  <1>2!1 /\ <1>2!2
    BY <2>3 DEF StatInputTime, StatOutputTime, NextFile, Verdict, Outdated, Leave,
                BeginExecute, Results, Successful
  <2>4. CASE StatInputsDone(b) \/ StatDone(b)
    BY <2>4 DEF StatInputsDone, StatDone, Verdict, Outdated, Leave, BeginExecute,
                Results, Successful
  <2> QED BY <2>1, <2>2, <2>3, <2>4 DEF StatNode
<1>3. {"ins", "outs", "run"} \cup Results \subseteq Stages
      /\ ({"ins", "outs", "run"} \cup Results) \cap {"read", "partial", "written"} = {}
  BY DEF Stages, Results, Successful
<1>4. PICK s \in {"ins", "outs", "run"} \cup Results :
        stage' = stage \/ stage' = [stage EXCEPT ![b] = s]
  BY <1>2
<1>5. /\ stage' \in [BuildId -> Stages]
      /\ \A c \in BuildId : stage'[c] \in {"read", "partial", "written"} => stage'[c] = stage[c]
  BY <1>1, <1>3, <1>4
<1>6. DOMAIN manifest \subseteq BuildId /\ product' = product
  BY <1>2, ScenarioManifests DEF VInv
<1> QED BY <1>1, <1>2, <1>5, <1>6, NothingMoves

\* Steps of a command that leave files and records alone.
LEMMA CommandStillSound ==
  ASSUME VInv, NEW b \in DOMAIN manifest,
         CommandReads(b) \/ CommandFails(b) \/ CallbackPanics(b) \/ PhonySucceeds(b) \/ Send(b)
  PROVE  VInv'
<1> USE DEF env, history, vars, local, Goto, At
<1>1. b \in BuildId /\ stage \in [BuildId -> Stages]
      /\ product = [c \in BuildId |-> product[c]]
  BY ScenarioManifests DEF VInv, World
<1>2. {"read", "broken", "none", "written"} \subseteq Stages
  BY DEF Stages
<1>3. CASE CommandReads(b)
  <2>1. /\ UNCHANGED <<scenario, manifest, graph, disk, database, raced, blind>>
        /\ stage' = [stage EXCEPT ![b] = "read"]
        /\ product' = [product EXCEPT ![b] = Output(b)]
    BY <1>3 DEF CommandReads
  <2> QED BY <2>1, <1>1, <1>2, NothingMoves
<1>4. CASE CommandFails(b) \/ CallbackPanics(b)
  <2>1. /\ UNCHANGED <<scenario, manifest, graph, disk, database, raced, blind>>
        /\ \/ stage' = [stage EXCEPT ![b] = "broken"]
           \/ stage' = [stage EXCEPT ![b] = "none"]
        /\ product' = [product EXCEPT ![b] = <<>>]
    BY <1>4 DEF CommandFails, CallbackPanics, Panic
  <2>2. /\ stage' \in [BuildId -> Stages] /\ product' = [c \in BuildId |-> product'[c]]
        /\ stage'[b] \notin {"read", "partial", "written"}
        /\ \A c \in BuildId \ {b} : stage'[c] = stage[c] /\ product'[c] = product[c]
    BY <2>1, <1>1, <1>2
  <2>3. DOMAIN manifest \subseteq BuildId
    BY ScenarioManifests DEF VInv
  <2> QED BY <2>1, <2>2, <2>3, NothingMoves
<1>5. CASE PhonySucceeds(b)
  <2>1. /\ UNCHANGED <<scenario, manifest, graph, disk, database, product, raced, blind>>
        /\ stage' = [stage EXCEPT ![b] = "written"] /\ Method(b) = "phony"
    BY <1>5 DEF PhonySucceeds
  <2> QED BY <2>1, <1>1, <1>2, NothingMoves
<1>6. CASE Send(b)
  <2>1. /\ UNCHANGED <<scenario, manifest, graph, disk, database, product, raced, blind>>
        /\ stage' = [stage EXCEPT ![b] = "none"]
    BY <1>6 DEF Send, Report
  <2> QED BY <2>1, <1>1, <1>2, NothingMoves
<1> QED BY <1>3, <1>4, <1>5, <1>6

\* The command writes its outputs, in part or whole.
LEMMA CommandWritesSound ==
  ASSUME VInv, NEW b \in DOMAIN manifest, CommandWritesPart(b) \/ CommandSucceeds(b)
  PROVE  VInv'
<1>1. /\ b \in BuildId /\ stage \in [BuildId -> Stages]
      /\ product = [c \in BuildId |-> product[c]]
      /\ Ins(b) \subseteq File /\ Outs(b) \subseteq File /\ Ins(b) \cap Outs(b) = {}
      /\ DOMAIN manifest \subseteq BuildId
  BY ScenarioManifests DEF VInv, World
<1>2. {"partial", "written"} \subseteq Stages
  BY DEF Stages
<1>3. UNCHANGED <<scenario, manifest, graph, database>>
  BY DEF CommandWritesPart, CommandSucceeds, env, vars
<1>4. PICK t \in Now : \E c :
        /\ WriteFiles(Outs(b), c, t) /\ Disturb(Outs(b), BuildId \ {b}, t)
        /\ \/ /\ stage[b] = "read" /\ stage' = [stage EXCEPT ![b] = "partial"]
              /\ product' = product
           \/ /\ stage[b] \in {"read", "partial"} /\ stage' = [stage EXCEPT ![b] = "written"]
              /\ product' = [product EXCEPT ![b] = <<>>] /\ c = product[b]
  BY DEF CommandWritesPart, CommandSucceeds, Goto, At
<1>4a. PICK c :
        /\ WriteFiles(Outs(b), c, t) /\ Disturb(Outs(b), BuildId \ {b}, t)
        /\ \/ /\ stage[b] = "read" /\ stage' = [stage EXCEPT ![b] = "partial"]
              /\ product' = product
           \/ /\ stage[b] \in {"read", "partial"} /\ stage' = [stage EXCEPT ![b] = "written"]
              /\ product' = [product EXCEPT ![b] = <<>>] /\ c = product[b]
  BY <1>4
<1>5. stage' \in [BuildId -> Stages] /\ product' = [d \in BuildId |-> product'[d]]
  BY <1>1, <1>2, <1>4a
<1>6. /\ World' /\ Sound(db)' /\ Sound(saved)'
      /\ \A d \in DOMAIN manifest :
           d \in BuildId \ {b} /\ stage'[d] = stage[d] /\ product'[d] = product[d] =>
             TaskHonest(d)'
  BY <1>1, <1>3, <1>4a, <1>5, FilesWritten
<1>7. \A d \in DOMAIN manifest \ {b} : TaskHonest(d)'
  BY <1>1, <1>4a, <1>6
<1>8. TaskHonest(b)'
  <2>1. /\ Ins(b)' = Ins(b) /\ Outs(b)' = Outs(b) /\ Method(b)' = Method(b)
        /\ raced \subseteq raced'
    BY <1>3, <1>4a DEF Ins, Outs, Method, Disturb
  <2>2. \A f \in Ins(b) : mtime'[f] = mtime[f] /\ content'[f] = content[f]
    BY <1>1, <1>4a DEF WriteFiles
  <2>3. Output(b)' = Output(b)
    BY <2>1, <2>2, <1>3 DEF Output
  <2>4. \A f \in Outs(b) : content'[f] = c
    BY <1>1, <1>4a DEF WriteFiles
  <2> QED BY <2>1, <2>2, <2>3, <2>4, <1>1, <1>4a DEF VInv, TaskHonest
<1> QED BY <1>3, <1>6, <1>7, <1>8 DEF VInv

\* write_build records what the task made, and says so if it is blind.
LEMMA WriteBuildSound ==
  ASSUME VInv, NEW b \in DOMAIN manifest, WriteBuild(b)
  PROVE  VInv'
<1>1. /\ b \in BuildId /\ stage \in [BuildId -> Stages] /\ Manifests(scenario.manifests)
      /\ manifest \in scenario.manifests /\ graph = DependenciesIn(manifest)
      /\ product = [c \in BuildId |-> product[c]]
      /\ DOMAIN manifest \subseteq BuildId
  BY ScenarioManifests DEF VInv, World
<1>2. PICK t \in Now :
        /\ clock' = t
        /\ db' = [build |-> Put(db.build, {hash_build(b)}, NewBuildInfo(b, t)),
                  file |-> FileInfos(b, t)]
        /\ blind' = IF b \in raced THEN blind \cup {<<hash_build(b), t>>} ELSE blind
  BY DEF WriteBuild
<1>3. /\ UNCHANGED <<scenario, manifest, graph, mtime, content, saved, product, raced>>
      /\ stage[b] = "written"
      /\ \/ stage' = [stage EXCEPT ![b] = "UpToDate"]
         \/ stage' = [stage EXCEPT ![b] = "Succeeded"]
  BY DEF WriteBuild, env, vars, At, Goto
<1>4. t \in Nat
  BY NowIsNat DEF VInv
<1>5. World' /\ \A c \in DOMAIN manifest' : TaskHonest(c)'
  <2>1. /\ stage' \in [BuildId -> Stages]
        /\ stage'[b] \notin {"read", "partial", "written"}
        /\ \A c \in BuildId \ {b} : stage'[c] = stage[c]
    BY <1>1, <1>3 DEF Stages, Results, Successful
  <2> QED BY <2>1, <1>1, <1>2, <1>3, <1>4, FilesStill
<1>6. db' = RecordedIn(db, manifest, b, t)
  BY <1>1, <1>2 DEF RecordedIn, NewBuildInfo, FileInfos, hash_build,
                       hash_input_set, Ins, Outs
<1>7. \/ <<HashIn(manifest, b), t>> \in blind'
      \/ (\A f \in manifest[b].ins \cup manifest[b].outs : mtime[f] > 0) =>
           FreshIn(content, manifest, b)
  <2>1. CASE b \in raced
    BY <2>1, <1>2 DEF hash_build
  <2>2. CASE b \notin raced
    BY <2>2, <1>3 DEF VInv, TaskHonest, FreshIn, MadeFrom, Output, Ins, Outs, Method
  <2> QED BY <2>1, <2>2
<1>8. blind \subseteq blind'
  BY <1>2
<1>9. Sound(db)' /\ Sound(saved)'
  <2>1. Recorded(db) /\ Honest(db, scenario.manifests, mtime, content, blind)
    BY DEF VInv, Sound
  <2>2. /\ Recorded(db') /\ Honest(db', scenario.manifests, mtime, content, blind')
    BY <2>1, <1>1, <1>4, <1>6, <1>7, <1>8, RecordingKeepsHonest
  <2>3. Recorded(saved) /\ Honest(saved, scenario.manifests, mtime, content, blind')
    BY <1>8 DEF VInv, Sound, Honest, Excused
  <2> QED BY <2>2, <2>3, <1>3 DEF Sound
<1> QED BY <1>5, <1>9 DEF VInv

LEMMA InvalidateSound ==
  ASSUME VInv, NEW b \in DOMAIN manifest, InvalidateBuild(b)
  PROVE  VInv'
<1>1. /\ b \in BuildId /\ stage \in [BuildId -> Stages]
      /\ manifest \in scenario.manifests
      /\ product = [c \in BuildId |-> product[c]]
      /\ DOMAIN manifest \subseteq BuildId /\ clock \in Nat
  BY ScenarioManifests DEF VInv, World
<1>2. /\ UNCHANGED <<scenario, manifest, graph, mtime, content, clock, saved, product, raced, blind>>
      /\ \/ stage' = [stage EXCEPT ![b] = "Failed"]
         \/ stage' = [stage EXCEPT ![b] = "Err"]
      /\ db' = DroppedIn(db, manifest, b)
  BY DEF InvalidateBuild, env, vars, disk, history, Goto, DroppedIn, hash_build, Outs
<1>3. World' /\ \A c \in DOMAIN manifest' : TaskHonest(c)'
  <2>1. /\ stage' \in [BuildId -> Stages]
        /\ stage'[b] \notin {"read", "partial", "written"}
        /\ \A c \in BuildId \ {b} : stage'[c] = stage[c]
    BY <1>1, <1>2 DEF Stages, Results, Successful
  <2> QED BY <2>1, <1>1, <1>2, FilesStill
<1>4. Sound(db)' /\ Sound(saved)'
  <2>1. Recorded(db) /\ Honest(db, scenario.manifests, mtime, content, blind)
    BY DEF VInv, Sound
  <2>2. Recorded(db') /\ Honest(db', scenario.manifests, mtime, content, blind)
    BY <2>1, <1>1, <1>2, DroppingKeepsHonest
  <2> QED BY <2>2, <1>2 DEF VInv, Sound
<1> QED BY <1>3, <1>4 DEF VInv

\* Somebody else gives a file a new content, or removes it.
LEMMA EditSound ==
  ASSUME VInv, NEW f \in Used, Edit(f)
  PROVE  VInv'
<1>1. f \in File
  BY ScenarioManifests DEF VInv, Used, Manifests, IsManifest
<1>2. PICK t \in Now : /\ WriteFiles({f}, <<"edit", edits>>, t)
                       /\ Disturb({f}, BuildId, t)
  BY DEF Edit
<1>3. UNCHANGED <<scenario, manifest, graph, database, stage, product>>
  BY DEF Edit, vars, local
<1>4. DOMAIN manifest \subseteq BuildId
  BY ScenarioManifests DEF VInv
<1>5. /\ World' /\ Sound(db)' /\ Sound(saved)'
      /\ \A b \in DOMAIN manifest :
           b \in BuildId /\ stage'[b] = stage[b] /\ product'[b] = product[b] => TaskHonest(b)'
  <2>1. {f} \in SUBSET File /\ BuildId \in SUBSET BuildId
    BY <1>1
  <2>2. stage' \in [BuildId -> Stages] /\ product' = [b \in BuildId |-> product'[b]]
    BY <1>3 DEF VInv, World
  <2> QED BY <2>1, <2>2, <1>2, <1>3, FilesWritten
<1> QED BY <1>3, <1>4, <1>5 DEF VInv

LEMMA RemoveSound ==
  ASSUME VInv, NEW g \in Used, Remove(g)
  PROVE  VInv'
<1>1. /\ g \in File /\ Manifests(scenario.manifests)
      /\ mtime \in [File -> Nat] /\ content = [f \in File |-> content[f]]
  BY ScenarioManifests DEF VInv, World, Used, Manifests, IsManifest
<1>2. /\ mtime' = [mtime EXCEPT ![g] = 0] /\ content' = [content EXCEPT ![g] = <<"source", 0>>]
      /\ UNCHANGED <<scenario, manifest, graph, clock, db, saved, stage, product, raced, blind>>
  BY DEF Remove, vars, database, local
<1>3. World'
  BY <1>1, <1>2 DEF VInv, World
<1>4. Sound(db)' /\ Sound(saved)'
  <2>1. Removed(g, mtime, content, mtime', content')
    BY <1>1, <1>2 DEF Removed
  <2>2. /\ Honest(db, scenario.manifests, mtime, content, blind) /\ Recorded(db)
        /\ Honest(saved, scenario.manifests, mtime, content, blind) /\ Recorded(saved)
    BY DEF VInv, Sound
  <2>3. /\ Honest(db, scenario.manifests, mtime', content', blind)
        /\ Honest(saved, scenario.manifests, mtime', content', blind)
    BY <2>1, <2>2, <1>1, RemovingKeepsHonest
  <2> QED BY <2>2, <2>3, <1>2 DEF Sound
<1>5. ASSUME NEW b \in DOMAIN manifest
      PROVE  TaskHonest(b)'
  <2>1. /\ Ins(b)' = Ins(b) /\ Outs(b)' = Outs(b) /\ Method(b)' = Method(b)
        /\ Ins(b) \subseteq File /\ Outs(b) \subseteq File
    BY <1>2, ScenarioManifests DEF VInv, Ins, Outs, Method
  <2>2. CASE g \in Ins(b)
    BY <2>1, <2>2, <1>1, <1>2 DEF TaskHonest
  <2>3. CASE g \notin Ins(b)
    <3>1. \A f \in Ins(b) : mtime'[f] = mtime[f] /\ content'[f] = content[f]
      BY <2>1, <2>3, <1>1, <1>2
    <3>2. \A f \in Outs(b) : mtime'[f] > 0 => mtime'[f] = mtime[f] /\ content'[f] = content[f]
      BY <2>1, <1>1, <1>2
    <3>3. Output(b)' = Output(b)
      BY <2>1, <3>1, <1>2 DEF Output
    <3> QED BY <2>1, <3>1, <3>2, <3>3, <1>2 DEF VInv, TaskHonest
  <2> QED BY <2>2, <2>3
<1> QED BY <1>2, <1>3, <1>4, <1>5 DEF VInv

\* The next session has no task yet, and one of the databases there were.
LEMMA NewSessionSound ==
  ASSUME VInv, NEW clean \in BOOLEAN, NewSession(clean)
  PROVE  VInv'
<1>1. PICK m \in scenario.manifests : InitProcess(m)
  BY DEF NewSession
<1>2. /\ UNCHANGED <<mtime, content, clock, scenario, blind>>
      /\ \E d \in DbAfter(clean) : db' = d /\ saved' = d
  BY DEF NewSession, disk
<1>3. World'
  BY <1>1, <1>2 DEF InitProcess, VInv, World, Stages
<1>4. \A b \in DOMAIN manifest' : TaskHonest(b)'
  <2>1. \A b \in BuildId : stage'[b] = "none"
    BY <1>1 DEF InitProcess
  <2>2. DOMAIN manifest' \subseteq BuildId
    BY <1>1, ScenariosAssumption DEF InitProcess, VInv, World, IsManifest
  <2> QED BY <2>1, <2>2 DEF TaskHonest
<1>5. Recorded(EmptyDb) /\ Honest(EmptyDb, scenario.manifests, mtime, content, blind)
  BY DEF EmptyDb, Recorded, Honest, Vouches
<1>6. DbAfter(clean) \subseteq {db, saved, EmptyDb}
  BY DEF DbAfter
<1>7. Sound(db)' /\ Sound(saved)'
  BY <1>2, <1>5, <1>6 DEF VInv, Sound
<1> QED BY <1>3, <1>4, <1>7 DEF VInv

LEMMA InitSound == IInit => VInv
<1> SUFFICES ASSUME IInit
             PROVE  VInv
  OBVIOUS
<1>1. World
  BY DEF IInit, World, Stages, Init
<1>2. Recorded(EmptyDb) /\ Honest(EmptyDb, scenario.manifests, mtime, content, blind)
  BY DEF EmptyDb, Recorded, Honest, Vouches
<1>3. \A b \in DOMAIN manifest : TaskHonest(b)
  BY <1>1, ScenarioManifests DEF IInit, TaskHonest
<1> QED BY <1>1, <1>2, <1>3 DEF IInit, VInv, Sound

LEMMA StutterSound ==
  ASSUME VInv, UNCHANGED ivars
  PROVE  VInv'
<1>1. UNCHANGED <<scenario, manifest, graph, disk, database, stage, product, raced, blind>>
  BY DEF ivars, vars, local, env, history
<1>2. /\ stage' \in [BuildId -> Stages] /\ product' = [b \in BuildId |-> product'[b]]
      /\ DOMAIN manifest \subseteq BuildId
  BY <1>1, ScenarioManifests DEF VInv, World
<1> QED BY <1>1, <1>2, NothingMoves

\* What any database a session can find says of the files, and what a task has
\* made of its inputs, is true in every reachable state.
THEOREM VInvariance == ISpec => []VInv
<1>1. IInit => VInv
  BY InitSound
<1>2. VInv /\ [INext]_ivars => VInv'
  <2> SUFFICES ASSUME VInv, [INext]_ivars
               PROVE  VInv'
    OBVIOUS
  <2>1. ASSUME NEW S \in SUBSET BuildId, WantTargets(S)
        PROVE  VInv'
    BY <2>1, CallerSound
  <2>2. CASE Caller
    BY <2>2, CallerSound
  <2>3. ASSUME NEW b \in DOMAIN manifest, Spawn(b)
        PROVE  VInv'
    BY <2>3, CallerSound
  <2>4. ASSUME NEW b \in DOMAIN manifest, StatNode(b)
        PROVE  VInv'
    BY <2>4, StatNodeSound
  <2>5. ASSUME NEW b \in DOMAIN manifest, Execute(b)
        PROVE  VInv'
    BY <2>5, CommandStillSound, CommandWritesSound, WriteBuildSound, InvalidateSound
       DEF Execute
  <2>6. ASSUME NEW f \in Used, Edit(f) \/ Remove(f)
        PROVE  VInv'
    BY <2>6, EditSound, RemoveSound
  <2>7. CASE Finish \/ Kill
    BY <2>7, NewSessionSound DEF Finish, Kill
  <2>8. CASE UNCHANGED ivars
    BY <2>8, StutterSound
  <2> QED BY <2>1, <2>2, <2>3, <2>4, <2>5, <2>6, <2>7, <2>8 DEF INext
<1> QED BY <1>1, <1>2, PTL DEF ISpec

\* What stat_node asks of the database is what Vouches says of it.
LEMMA UpToDateVouches ==
  ASSUME VInv, NEW b \in DOMAIN manifest, UpToDate(b)
  PROVE  Vouches(db, mtime, manifest, b)
<1>1. /\ mtime \in [File -> Nat] /\ graph = DependenciesIn(manifest) /\ Recorded(db)
      /\ Ins(b) \subseteq File /\ Outs(b) \subseteq File
  BY ScenarioManifests DEF VInv, World, Sound
<1>2. /\ HashIn(manifest, b) \in DOMAIN db.build
      /\ db.build[HashIn(manifest, b)].last_start \in Nat
      /\ db.build[HashIn(manifest, b)].input_set_digest
           = DigestIn(manifest, DependenciesIn(manifest), b)
  BY <1>1 DEF UpToDate, HasInfo, BuildInfo, hash_build, hash_input_set,
              InputSetChanged, Recorded
<1>3. \A f \in Ins(b) :
        mtime[f] > 0 /\ mtime[f] <= db.build[HashIn(manifest, b)].last_start
  BY <1>1, <1>2 DEF UpToDate, Exists, InputChanged, HasInfo, BuildInfo, hash_build
<1>4. \A f \in Outs(b) :
        /\ mtime[f] > 0 /\ f \in DOMAIN db.file
        /\ db.file[f].generated_by = HashIn(manifest, b) /\ mtime[f] <= db.file[f].last_seen
  BY <1>1 DEF UpToDate, Exists, OutputChanged, hash_build, Recorded
<1> QED BY <1>2, <1>3, <1>4 DEF Vouches, Ins, Outs

\* Whatever was edited, removed, half written, killed, lost with the database
\* or changed in the manifest, stat_node takes no stale output to be up to
\* date, unless somebody changed a file after the command had used it and no
\* later than the time write_build recorded, or the record was made of other
\* inputs that have the same digest.
THEOREM VouchedAlwaysFresh == ISpec => []VouchedIsFresh
<1>1. VInv => VouchedIsFresh
  <2> SUFFICES ASSUME VInv, NEW b \in DOMAIN manifest, UpToDate(b)
               PROVE  Fresh(b) \/ Blind(b) \/ Mistaken(b)
    BY DEF VouchedIsFresh
  <2>1. Vouches(db, mtime, manifest, b)
    BY UpToDateVouches
  <2>2. FreshIn(content, manifest, b) \/ Excused(db, manifest, b, blind)
    BY <2>1 DEF VInv, World, Sound, Honest
  <2>3. \A f \in Outs(b) : Exists(f)
    BY DEF UpToDate
  <2>4. Excused(db, manifest, b, blind) => Blind(b) \/ Mistaken(b)
    BY DEF Excused, Blind, Mistaken, Ins, hash_build, BuildInfo, UpToDate, InputSetChanged
  <2> QED BY <2>2, <2>3, <2>4 DEF Fresh, FreshIn, MadeFrom, Output, Ins, Outs, Method
<1> QED BY <1>1, VInvariance, PTL
-----------------------------------------------------------------------------
(* Every session is a behaviour of Executor, so what holds there holds in  *)
(* each of them.                                                           *)

\* A step of a session is one of Executor, or leaves its variables alone.
LEMMA SessionSteps ==
  ASSUME World, [INext]_ivars, ~Finish, ~Kill
  PROVE  [Next]_vars
<1> USE DEF Next
<1>1. DOMAIN manifest \subseteq BuildId
  BY ScenarioManifests
<1>2. ASSUME NEW S \in SUBSET BuildId, WantTargets(S)
      PROVE  [Next]_vars
  BY <1>2 DEF WantTargets
<1>3. CASE Caller
  BY <1>3 DEF Caller, MainStep
<1>4. ASSUME NEW b \in DOMAIN manifest, Spawn(b)
      PROVE  [Next]_vars
  BY <1>1, <1>4 DEF Spawn, MainStep
<1>5. ASSUME NEW b \in DOMAIN manifest, StatNode(b)
      PROVE  [Next]_vars
  <2>1. UNCHANGED vars \/ BeginExecute(b)
    <3>1. CASE BeginRead(b)
      BY <3>1 DEF BeginRead
    <3>2. ASSUME NEW f \in File, StatInput(b, f) \/ StatOutput(b, f)
          PROVE  <2>1
      BY <3>2 DEF StatInput, StatOutput, LookAt, Verdict, Outdated
    <3>3. ASSUME NEW f \in File, StatInputTime(b, f) \/ StatOutputTime(b, f)
          PROVE  <2>1
      BY <3>3 DEF StatInputTime, StatOutputTime, NextFile, Verdict, Outdated
    <3>4. CASE StatInputsDone(b) \/ StatDone(b)
      BY <3>4 DEF StatInputsDone, StatDone, Verdict, Outdated
    <3> QED BY <1>5, <3>1, <3>2, <3>3, <3>4 DEF StatNode
  <2> QED BY <1>1, <2>1 DEF TaskStep
<1>6. ASSUME NEW b \in DOMAIN manifest, Execute(b)
      PROVE  [Next]_vars
  <2>1. \/ UNCHANGED vars
        \/ Panic(b)
        \/ \E r \in ExecuteResults : Report(b, r)
    BY <1>6 DEF Execute, CommandReads, CommandWritesPart, CommandSucceeds, CommandFails,
                CallbackPanics, PhonySucceeds, WriteBuild, InvalidateBuild, Send, At,
                Results, Successful, ExecuteResults
  <2> QED BY <1>1, <2>1 DEF TaskStep
<1>7. ASSUME NEW f \in Used, Edit(f) \/ Remove(f)
      PROVE  [Next]_vars
  BY <1>7 DEF Edit, Remove
<1>8. CASE UNCHANGED ivars
  BY <1>8 DEF ivars
<1> QED BY <1>2, <1>3, <1>4, <1>5, <1>6, <1>7, <1>8 DEF INext

\* A session begins as the executor does.
LEMMA SessionBegins ==
  ASSUME World, NEW clean \in BOOLEAN, NewSession(clean)
  PROVE  Init'
<1>1. PICK m \in scenario.manifests : InitProcess(m)
  BY DEF NewSession
<1>2. DependenciesIn(m) \in Graphs
  BY <1>1, ManifestGraphsAssumption DEF World
<1> QED BY <1>1, <1>2 DEF InitProcess, Init

\* The executor's invariant holds in every session: the counters, the pending
\* set, the order of builds and the channel are right whatever stat_node finds
\* and whatever happens to the files.
THEOREM SessionsKeepInvariance == ISpec => [](IInv /\ graph \in Graphs)
<1>1. IInit => IInv /\ graph \in Graphs
  BY InitIInv DEF IInit, Init
<1>2. World /\ (IInv /\ graph \in Graphs) /\ [INext]_ivars => (IInv /\ graph \in Graphs)'
  <2> SUFFICES ASSUME World, IInv, graph \in Graphs, [INext]_ivars
               PROVE  (IInv /\ graph \in Graphs)'
    OBVIOUS
  <2>1. CASE ~Finish /\ ~Kill
    <3>1. [Next]_vars
      BY <2>1, SessionSteps
    <3> QED BY <3>1, NextIInv, GraphFixed
  <2>2. CASE Finish \/ Kill
    <3>1. Init'
      BY <2>2, SessionBegins DEF Finish, Kill
    <3>2. graph' \in Graphs
      BY <3>1 DEF Init
    <3>3. Init' => IInv'
      BY InitIInv, PTL
    <3> QED BY <3>1, <3>2, <3>3
  <2> QED BY <2>1, <2>2
<1>3. VInv => World
  BY DEF VInv
<1> QED BY <1>1, <1>2, <1>3, VInvariance, PTL DEF ISpec

-----------------------------------------------------------------------------
(* Types and places.                                                       *)

\* No time in the database D is later than t.
Dated(D, t) ==
  /\ DOMAIN D.file \subseteq File
  /\ \A f \in DOMAIN D.file : D.file[f].last_seen \in 1 .. t
  /\ \A h \in DOMAIN D.build : D.build[h].last_start \in 1 .. t

Times ==
  /\ clock \in Nat \ {0} /\ mtime \in [File -> 0 .. clock]
  /\ Dated(db, clock) /\ Dated(saved, clock)

Tables ==
  /\ stage \in [BuildId -> Stages]
  /\ at = [b \in BuildId |-> at[b]] /\ todo = [b \in BuildId |-> todo[b]]
  /\ task = [b \in BuildId |-> task[b]]

\* A task has a place in run_build exactly while it lives.
Placed(b) ==
  /\ stage[b] = "none" <=> task[b] \notin Live
  /\ stage[b] \in {"spawned", "ins", "outs"} => task[b] = "spawned"
  /\ at[b] \subseteq todo[b]
  /\ stage[b] \notin {"ins", "outs"} => at[b] = {}

Places == Tables /\ \A b \in BuildId : Placed(b)

LEMMA LaterStillDated ==
  ASSUME NEW D, NEW s \in Nat, NEW t \in Nat, s <= t, Dated(D, s)
  PROVE  Dated(D, t)
BY DEF Dated

LEMMA ClockRuns ==
  ASSUME World, clock # 0, NEW t \in Now
  PROVE  t \in Nat \ {0} /\ clock <= t
BY DEF World, Now

\* Nobody changes a time.
LEMMA TimesStill ==
  ASSUME Times, UNCHANGED <<mtime, clock, db, saved>>
  PROVE  Times'
BY DEF Times

\* Files are written now.
LEMMA TimesOfWrite ==
  ASSUME World, Times, NEW fs \in SUBSET File, NEW c, NEW t \in Now,
         WriteFiles(fs, c, t), UNCHANGED <<db, saved>>
  PROVE  Times'
<1>1. t \in Nat \ {0} /\ clock <= t /\ clock \in Nat
  BY ClockRuns DEF Times
<1>2. Dated(db, t) /\ Dated(saved, t)
  BY <1>1, LaterStillDated DEF Times
<1>3. clock' = t /\ mtime' \in [File -> 0 .. t]
  BY <1>1 DEF Times, WriteFiles
<1> QED BY <1>1, <1>2, <1>3 DEF Times

LEMMA TimesStep ==
  ASSUME World, Times, [INext]_ivars
  PROVE  Times'
<1> USE DEF disk, database, env, history, vars, local
<1>1. ASSUME NEW S \in SUBSET BuildId, WantTargets(S)
      PROVE  Times'
  BY <1>1, TimesStill DEF WantTargets
<1>2. CASE Caller
  BY <1>2, TimesStill DEF Caller
<1>3. ASSUME NEW b \in DOMAIN manifest, Spawn(b)
      PROVE  Times'
  BY <1>3, TimesStill DEF Spawn
<1>4. ASSUME NEW b \in DOMAIN manifest, StatNode(b)
      PROVE  Times'
  BY <1>4, TimesStill
     DEF StatNode, BeginRead, StatInput, StatInputTime, StatInputsDone, StatOutput,
         StatOutputTime, StatDone, Verdict, Outdated, Leave, LookAt, NextFile
<1>5. ASSUME NEW b \in DOMAIN manifest, CommandWritesPart(b) \/ CommandSucceeds(b)
      PROVE  Times'
  <2>1. Outs(b) \in SUBSET File
    BY <1>5, ScenarioManifests
  <2>2. \E t \in Now : \E c : WriteFiles(Outs(b), c, t)
    BY <1>5 DEF CommandWritesPart, CommandSucceeds
  <2>3. UNCHANGED <<db, saved>>
    BY <1>5 DEF CommandWritesPart, CommandSucceeds
  <2> QED BY <2>1, <2>2, <2>3, TimesOfWrite
<1>6. ASSUME NEW b \in DOMAIN manifest, WriteBuild(b)
      PROVE  Times'
  <2>1. Outs(b) \subseteq File
    BY <1>6, ScenarioManifests
  <2>2. PICK t \in Now :
          /\ clock' = t
          /\ db' = [build |-> Put(db.build, {hash_build(b)}, NewBuildInfo(b, t)),
                    file |-> FileInfos(b, t)]
    BY <1>6 DEF WriteBuild
  <2>3. t \in Nat \ {0} /\ clock <= t /\ clock \in Nat
    BY ClockRuns DEF Times
  <2>4. Dated(db, t) /\ Dated(saved, t) /\ t \in 1 .. t
    BY <2>3, LaterStillDated DEF Times
  <2>5. Dated(db', t)
    BY <2>1, <2>2, <2>4 DEF Dated, Put, NewBuildInfo, FileInfos
  <2>6. mtime' \in [File -> 0 .. t] /\ saved' = saved
    BY <1>6, <2>3 DEF WriteBuild, Times
  <2> QED BY <2>2, <2>3, <2>4, <2>5, <2>6 DEF Times
<1>7. ASSUME NEW b \in DOMAIN manifest, InvalidateBuild(b)
      PROVE  Times'
  <2>1. /\ UNCHANGED <<mtime, clock, saved>>
        /\ db' = [build |-> Drop(db.build, {hash_build(b)}), file |-> Drop(db.file, Outs(b))]
    BY <1>7 DEF InvalidateBuild
  <2>2. Dated(db', clock)
    BY <2>1 DEF Times, Dated, Drop, Restrict
  <2> QED BY <2>1, <2>2 DEF Times
<1>8. ASSUME NEW b \in DOMAIN manifest,
             \/ CommandReads(b) \/ CommandFails(b) \/ CallbackPanics(b)
             \/ PhonySucceeds(b) \/ Send(b)
      PROVE  Times'
  BY <1>8, TimesStill
     DEF CommandReads, CommandFails, CallbackPanics, PhonySucceeds, Send
<1>9. ASSUME NEW f \in Used, Edit(f)
      PROVE  Times'
  <2>1. {f} \in SUBSET File
    BY ScenarioManifests DEF Used, Manifests, IsManifest
  <2>2. \E t \in Now : \E c : WriteFiles({f}, c, t)
    BY <1>9 DEF Edit
  <2> QED BY <1>9, <2>1, <2>2, TimesOfWrite DEF Edit
<1>10. ASSUME NEW f \in Used, Remove(f)
       PROVE  Times'
  <2>1. UNCHANGED <<clock, db, saved>> /\ mtime' = [mtime EXCEPT ![f] = 0]
    BY <1>10 DEF Remove
  <2>2. 0 \in 0 .. clock /\ mtime \in [File -> 0 .. clock]
    BY DEF Times
  <2>3. mtime' \in [File -> 0 .. clock]
    BY <2>1, <2>2
  <2> QED BY <2>1, <2>3 DEF Times
<1>11. CASE Finish \/ Kill
  <2>1. PICK clean \in BOOLEAN : NewSession(clean)
    BY <1>11 DEF Finish, Kill
  <2>2. /\ UNCHANGED <<mtime, clock>>
        /\ \E d \in DbAfter(clean) : db' = d /\ saved' = d
    BY <2>1 DEF NewSession
  <2>3. Dated(EmptyDb, clock)
    BY DEF EmptyDb, Dated
  <2>4. DbAfter(clean) \subseteq {db, saved, EmptyDb}
    BY DEF DbAfter
  <2> QED BY <2>2, <2>3, <2>4 DEF Times
<1>12. CASE UNCHANGED ivars
  BY <1>12, TimesStill DEF ivars
<1> QED BY <1>1, <1>2, <1>3, <1>4, <1>5, <1>6, <1>7, <1>8, <1>9, <1>10, <1>11, <1>12
       DEF INext, Execute

\* A step of the task of b.
Moved(b) ==
  /\ Tables' /\ Placed(b)'
  /\ \A c \in BuildId \ {b} : UNCHANGED <<stage[c], task[c], at[c], todo[c]>>

LEMMA StatNodeMoves ==
  ASSUME Places, NEW b \in BuildId, StatNode(b)
  PROVE  Moved(b)
<1> USE DEF Places, Tables, Moved, Placed, vars, Stages, Results, Successful, Live
<1>1. CASE BeginRead(b)
  BY <1>1 DEF BeginRead
<1>2. ASSUME NEW s \in {"run"} \cup Results, Leave(b, s),
             UNCHANGED task \/ task' = [task EXCEPT ![b] = "executing"],
             task[b] = "spawned"
      PROVE  Moved(b)
  BY <1>2 DEF Leave
<1>3. ASSUME NEW f, f \in todo[b], stage[b] \in {"ins", "outs"}, LookAt(b, f)
      PROVE  Moved(b)
  BY <1>3 DEF LookAt
<1>4. ASSUME NEW f, NextFile(b, f)
      PROVE  Moved(b)
  BY <1>4 DEF NextFile
<1>5. ASSUME stage[b] \in {"ins", "outs"},
             Outdated(b) \/ \E v \in Results : Verdict(b, v)
      PROVE  Moved(b)
  BY <1>2, <1>5 DEF Outdated, Verdict, BeginExecute
<1>6. ASSUME NEW f \in File, StatInput(b, f)
      PROVE  Moved(b)
  BY <1>3, <1>5, <1>6 DEF StatInput
<1>7. ASSUME NEW f \in File, StatInputTime(b, f)
      PROVE  Moved(b)
  BY <1>4, <1>5, <1>7 DEF StatInputTime
<1>8. CASE StatInputsDone(b)
  <2>1. CASE Outdated(b)
    BY <1>5, <1>8, <2>1 DEF StatInputsDone
  <2>2. CASE ~Outdated(b)
    BY <1>8, <2>2 DEF StatInputsDone
  <2> QED BY <2>1, <2>2
<1>9. ASSUME NEW f \in File, StatOutput(b, f)
      PROVE  Moved(b)
  BY <1>3, <1>5, <1>9 DEF StatOutput
<1>10. ASSUME NEW f \in File, StatOutputTime(b, f)
       PROVE  Moved(b)
  BY <1>4, <1>5, <1>10 DEF StatOutputTime
<1>11. CASE StatDone(b)
  BY <1>5, <1>11 DEF StatDone
<1> QED BY <1>1, <1>6, <1>7, <1>8, <1>9, <1>10, <1>11 DEF StatNode

LEMMA ExecuteMoves ==
  ASSUME Places, NEW b \in BuildId, Execute(b)
  PROVE  Moved(b)
<1> USE DEF Places, Tables, Moved, Placed, vars, Stages, Results, Successful, Live, At, Goto
<1>1. CASE CommandReads(b) \/ CommandWritesPart(b) \/ CommandSucceeds(b)
           \/ CommandFails(b) \/ PhonySucceeds(b)
  BY <1>1 DEF CommandReads, CommandWritesPart, CommandSucceeds, CommandFails, PhonySucceeds
<1>2. CASE WriteBuild(b) \/ InvalidateBuild(b)
  BY <1>2 DEF WriteBuild, InvalidateBuild
<1>3. CASE CallbackPanics(b)
  BY <1>3 DEF CallbackPanics, Panic
<1>4. CASE Send(b)
  BY <1>4 DEF Send, Report
<1> QED BY <1>1, <1>2, <1>3, <1>4 DEF Execute

LEMMA PlacesStill ==
  ASSUME Places, UNCHANGED <<stage, task, at, todo>>
  PROVE  Places'
BY DEF Places, Tables, Placed

LEMMA PlacesMoved ==
  ASSUME Places, NEW b \in BuildId, Moved(b)
  PROVE  Places'
BY DEF Places, Moved, Placed

LEMMA PlacesStep ==
  ASSUME World, IInv, Places, [INext]_ivars
  PROVE  Places'
<1> USE DEF local, vars
<1>1. ASSUME NEW S \in SUBSET BuildId, WantTargets(S)
      PROVE  Places'
  BY <1>1, PlacesStill DEF WantTargets, Want
<1>2. CASE Caller
  BY <1>2, PlacesStill DEF Caller, Run, LeaveLoop, Wait, ReceiveErr, ReceiveSuccess,
                           ReceiveFailed, Join
<1>3. ASSUME NEW b \in BuildId, Spawn(b)
      PROVE  Places'
  <2>1. /\ stage' = [stage EXCEPT ![b] = "spawned"] /\ UNCHANGED <<at, todo>>
        /\ task' = [task EXCEPT ![b] = "spawned"]
        /\ b \in pending
    BY <1>3 DEF Spawn, StartBuild
  <2>2. task[b] \notin Live
    BY <2>1 DEF IInv, PendingExact, TaskMatchesKind, OfKind
  <2>3. Moved(b)
    BY <2>1, <2>2 DEF Moved, Places, Tables, Placed, Stages, Live
  <2> QED BY <2>3, PlacesMoved
<1>4. ASSUME NEW b \in BuildId, StatNode(b) \/ Execute(b)
      PROVE  Places'
  BY <1>4, StatNodeMoves, ExecuteMoves, PlacesMoved
<1>5. ASSUME NEW f \in Used, Edit(f) \/ Remove(f)
      PROVE  Places'
  BY <1>5, PlacesStill DEF Edit, Remove
<1>6. CASE Finish \/ Kill
  <2>1. \E m : InitProcess(m)
    BY <1>6 DEF Finish, Kill, NewSession
  <2>2. /\ stage' = [b \in BuildId |-> "none"] /\ task' = [b \in BuildId |-> "idle"]
        /\ at' = [b \in BuildId |-> {}] /\ todo' = [b \in BuildId |-> {}]
    BY <2>1 DEF InitProcess
  <2> QED BY <2>2 DEF Places, Tables, Placed, Stages, Live
<1>7. CASE UNCHANGED ivars
  BY <1>7, PlacesStill DEF ivars
<1>8. DOMAIN manifest \subseteq BuildId
  BY ScenarioManifests
<1> QED BY <1>1, <1>2, <1>3, <1>4, <1>5, <1>6, <1>7, <1>8 DEF INext

\* Times never lie in the future, and stat_node, the command and the recording
\* happen in the life of the task that the caller's thread has spawned.
THEOREM IncrementalTypeCorrect == ISpec => []ITypeOK
<1>1. IInit => Times /\ Places
  BY DEF IInit, Init, Times, Dated, EmptyDb, Places, Tables, Placed, Stages, Live
<1>2. World /\ IInv /\ (Times /\ Places) /\ [INext]_ivars => (Times /\ Places)'
  BY TimesStep, PlacesStep
<1>3. IInv /\ Times /\ Places => ITypeOK
  BY DEF IInv, ITypeOK, Times, Dated, Places, Tables, Placed
<1>4. VInv => World
  BY DEF VInv
<1> QED BY <1>1, <1>2, <1>3, <1>4, VInvariance, SessionsKeepInvariance, PTL DEF ISpec

-----------------------------------------------------------------------------
(* What is known of a build as long as nobody edits or removes a file.     *)

\* The task of b has sent a success, or is about to.
Answered(b) ==
  \/ kind[b] \in Successful
  \/ \E i \in DOMAIN chan : chan[i].id = b /\ chan[i].result \in Successful

Good(b) == stage[b] \in Successful \/ Answered(b)

\* Two databases have the same entries for a build of hash h and outputs fs.
SameEntries(D, E, h, fs) ==
  /\ h \in DOMAIN D.build <=> h \in DOMAIN E.build
  /\ h \in DOMAIN D.build => D.build[h] = E.build[h]
  /\ \A f \in fs : /\ f \in DOMAIN D.file <=> f \in DOMAIN E.file
                   /\ f \in DOMAIN D.file => D.file[f] = E.file[f]

InFine(b, f) == Exists(f) /\ ~InputChanged(db, b, f)
OutFine(b, f) == Exists(f) /\ ~OutputChanged(db, b, f)

\* What stat_node has found so far is so still.
Stat(b) ==
  /\ stage[b] \in {"ins", "outs"} => SameEntries(view[b], db, hash_build(b), Outs(b))
  /\ stage[b] = "ins" => \A f \in Ins(b) \ todo[b] : InFine(b, f)
  /\ stage[b] = "outs" => /\ HasInfo(db, b)
                          /\ \A f \in Ins(b) : InFine(b, f)
                          /\ \A f \in Outs(b) \ todo[b] : OutFine(b, f)

\* What the command has made is what it makes of the inputs still.
Made(b) ==
  /\ stage[b] \in {"read", "partial"} => product[b] = Output(b)
  /\ stage[b] = "written" => Fresh(b)

\* stat_node would have nothing missing to complain of.
Ready(b) ==
  /\ \A f \in Ins(b) : Exists(f)
  /\ Method(b) = "phony" => \A f \in Outs(b) : Exists(f)

\* A success is one still.
Kept(b) ==
  Good(b) => /\ Fresh(b) \/ (HasInfo(db, b) /\ (Blind(b) \/ Mistaken(b)))
             /\ Ready(b) => UpToDate(b)

SInv(b) == ~edited /\ Alone(b) => Stat(b) /\ Made(b) /\ Kept(b)

Shape ==
  /\ view = [b \in BuildId |-> view[b]]
  /\ Tracked \subseteq DOMAIN manifest

\* What is known already.
Base ==
  /\ VInv /\ VouchedIsFresh /\ Times /\ Places
  /\ IInv /\ graph \in Graphs
  /\ \A b \in BuildId : stage[b] # "none" => ~Answered(b)

LEMMA ApartFromInvariants ==
  ASSUME IInv, Places, NEW b \in BuildId, stage[b] # "none"
  PROVE  ~Answered(b)
<1>1. task[b] \in Live
  BY DEF Places, Placed
<1>2. kind[b] = "Started"
  BY <1>1 DEF IInv, TaskMatchesKind
<1>3. \A i \in DOMAIN chan : chan[i].id # b
  BY <1>1 DEF IInv, ChannelExact, Live
<1> QED BY <1>2, <1>3 DEF Answered, Successful

\* The invariants of IncrementalBuildProof, together.
LEMMA BaseInvariance == ISpec => []Base
<1>1. VInv /\ VouchedIsFresh /\ Times /\ Places /\ IInv /\ graph \in Graphs => Base
  BY ApartFromInvariants DEF Base
<1>2. IInit => Times /\ Places
  BY DEF IInit, Init, Times, Dated, EmptyDb, Places, Tables, Placed, Stages, Live
<1>3. World /\ IInv /\ (Times /\ Places) /\ [INext]_ivars => (Times /\ Places)'
  BY TimesStep, PlacesStep
<1>4. VInv => World
  BY DEF VInv
<1> QED BY <1>1, <1>2, <1>3, <1>4, VInvariance, VouchedAlwaysFresh,
           SessionsKeepInvariance, PTL DEF ISpec

-----------------------------------------------------------------------------
(* Steps that do not disturb b.                                            *)

\* Neither its files nor its entries change, and no success is new.
Undisturbed(b) ==
  /\ UNCHANGED <<manifest, graph, edited>>
  /\ \A f \in Ins(b) \cup Outs(b) : mtime'[f] = mtime[f] /\ content'[f] = content[f]
  /\ SameEntries(db, db', hash_build(b), Outs(b))
  /\ blind \subseteq blind'
  /\ stage'[b] \in {stage[b], "none"}
  /\ view'[b] = view[b] /\ todo'[b] = todo[b] /\ product'[b] = product[b]
  /\ Good(b)' => Good(b)

LEMMA UndisturbedSound ==
  ASSUME NEW b \in DOMAIN manifest, SInv(b), Undisturbed(b)
  PROVE  SInv(b)'
<1> SUFFICES ASSUME ~edited', Alone(b)'
             PROVE  Stat(b)' /\ Made(b)' /\ Kept(b)'
  BY DEF SInv
<1>1. /\ Ins(b)' = Ins(b) /\ Outs(b)' = Outs(b) /\ Method(b)' = Method(b)
      /\ hash_build(b)' = hash_build(b) /\ hash_input_set(b)' = hash_input_set(b)
      /\ Alone(b)' = Alone(b)
  BY DEF Undisturbed, Ins, Outs, Method, hash_build, hash_input_set, Alone
<1>2. Stat(b) /\ Made(b) /\ Kept(b)
  BY <1>1 DEF SInv, Undisturbed
<1>3. \A f \in Ins(b) \cup Outs(b) :
        mtime'[f] = mtime[f] /\ content'[f] = content[f] /\ Exists(f)' = Exists(f)
  BY DEF Undisturbed, Exists
<1>4. Output(b)' = Output(b)
  BY <1>1, <1>3 DEF Output, Undisturbed
<1>5. SameEntries(db, db', hash_build(b), Outs(b))
  BY DEF Undisturbed
<1>6. HasInfo(db, b)' = HasInfo(db, b)
      /\ (HasInfo(db, b) => BuildInfo(db, b)' = BuildInfo(db, b))
  BY <1>1, <1>5 DEF SameEntries, HasInfo, BuildInfo
<1>7. \A f \in Ins(b) : InputChanged(db, b, f)' = InputChanged(db, b, f)
  BY <1>3, <1>6 DEF InputChanged
<1>8. \A f \in Outs(b) : OutputChanged(db, b, f)' = OutputChanged(db, b, f)
  BY <1>1, <1>3, <1>5 DEF OutputChanged, SameEntries
<1>9. Fresh(b)' = Fresh(b)
  BY <1>1, <1>3, <1>4 DEF Fresh
<1>10. Stat(b)'
  <2>1. stage'[b] \in {"ins", "outs"} => SameEntries(view[b], db', hash_build(b), Outs(b))
    BY <1>2, <1>5 DEF Undisturbed, Stat, SameEntries
  <2> QED BY <2>1, <1>1, <1>2, <1>3, <1>6, <1>7, <1>8 DEF Undisturbed, Stat, InFine, OutFine
<1>11. Made(b)'
  BY <1>2, <1>4, <1>9 DEF Undisturbed, Made
<1>12. Kept(b)'
  <2>1. /\ HasInfo(db, b) /\ Blind(b) => Blind(b)'
        /\ HasInfo(db, b) /\ Mistaken(b) => Mistaken(b)'
    BY <1>1, <1>6 DEF Blind, Mistaken, Undisturbed
  <2>2. UpToDate(b) => UpToDate(b)'
    BY <1>1, <1>3, <1>6, <1>7, <1>8 DEF UpToDate, InputSetChanged
  <2>3. Ready(b)' = Ready(b)
    BY <1>1, <1>3 DEF Ready
  <2> QED BY <1>2, <1>6, <1>9, <2>1, <2>2, <2>3 DEF Undisturbed, Kept
<1> QED BY <1>10, <1>11, <1>12

\* Nothing is claimed of a build at these places.
LEMMA NothingClaimed ==
  ASSUME NEW b \in BuildId, Base',
         stage'[b] \notin {"none", "ins", "outs", "read", "partial", "written"} \cup Successful
  PROVE  SInv(b)'
BY DEF SInv, Stat, Made, Kept, Good, Base

LEMMA NothingClaimedOfIdle ==
  ASSUME NEW b, stage'[b] = "none", ~Answered(b)'
  PROVE  SInv(b)'
BY DEF SInv, Stat, Made, Kept, Good, Successful

\* The commands that run while b is at work or done do not write its files, if
\* it is alone: those that write its inputs have ended.
LEMMA OthersApart ==
  ASSUME Base, NEW b \in DOMAIN manifest, NEW c \in DOMAIN manifest \ {b}, Alone(b),
         stage[b] # "none" \/ Good(b), stage[c] # "none"
  PROVE  /\ Outs(c) \cap (Ins(b) \cup Outs(b)) = {}
         /\ hash_build(c) # hash_build(b)
<1>1. /\ b \in BuildId /\ c \in BuildId /\ graph = DependenciesIn(manifest)
  BY ScenarioManifests DEF Base, VInv, World
<1>2. kind[c] = "Started"
  BY <1>1 DEF Base, Places, Placed, IInv, TaskMatchesKind
<1>3. kind[b] \in {"Started"} \cup Finished
  <2>1. CASE stage[b] # "none"
    BY <2>1, <1>1 DEF Base, Places, Placed, IInv, TaskMatchesKind
  <2>2. CASE Answered(b)
    BY <2>2, <1>1 DEF Answered, Base, IInv, ChannelExact, Finished, Successful
  <2>3. "none" \notin Successful
    BY DEF Successful
  <2> QED BY <2>1, <2>2, <2>3 DEF Good
<1>4. c \notin graph[b]
  <2>1. Unbuilt(b) = {}
    BY <1>1, <1>3 DEF Base, IInv, BuiltInOrder
  <2> QED BY <2>1, <1>2 DEF Unbuilt, build_dependencies, Successful
<1>5. Outs(c) \cap Ins(b) = {}
  BY <1>1, <1>4 DEF DependenciesIn, Ins, Outs
<1> QED BY <1>5 DEF Alone

LEMMA SameEntriesReflexive ==
  ASSUME NEW D, NEW h, NEW fs
  PROVE  SameEntries(D, D, h, fs)
BY DEF SameEntries

\* A step of the caller's thread answers no build anew, and tracks no build
\* but by want().
LEMMA CallerAnswers ==
  ASSUME Base, Caller
  PROVE  /\ \A b \in BuildId : Answered(b)' => Answered(b)
         /\ Tracked' = Tracked
<1> USE DEF Base
<1>1. CASE Run \/ LeaveLoop \/ Wait
  BY <1>1 DEF Run, LeaveLoop, Wait, Answered, Tracked, builds
<1>2. CASE Join
  BY <1>2 DEF Join, Answered, Tracked, builds
<1>3. CASE ReceiveErr
  <2>1. chan # <<>> /\ chan' = Tail(chan) /\ kind' = kind
    BY <1>3 DEF ReceiveErr, Received, builds
  <2>2. chan \in Seq(Message)
    BY DEF IInv, TypeOK
  <2>3. \A i \in DOMAIN Tail(chan) : i + 1 \in DOMAIN chan /\ Tail(chan)[i] = chan[i + 1]
    BY <2>1, <2>2
  <2> QED BY <2>1, <2>3 DEF Answered, Tracked
<1>4. ASSUME NEW r \in Successful, ReceiveSuccess(r)
      PROVE  /\ \A b \in BuildId : Answered(b)' => Answered(b)
             /\ Tracked' = Tracked
  <2> DEFINE id == Head(chan).id
  <2>1. /\ id \in BuildId /\ kind[id] = "Started" /\ chan # <<>>
        /\ chan' = Tail(chan) /\ kind' = [kind EXCEPT ![id] = r]
    BY <1>4, ReceiveSuccessEffect
  <2>2. chan \in Seq(Message) /\ kind \in [BuildId -> Kinds]
    BY DEF IInv, TypeOK
  <2>3. \A i \in DOMAIN Tail(chan) : i + 1 \in DOMAIN chan /\ Tail(chan)[i] = chan[i + 1]
    BY <2>1, <2>2
  <2>4. Head(chan) = chan[1] /\ 1 \in DOMAIN chan /\ chan[1].result = r
    BY <1>4, <2>1, <2>2 DEF ReceiveSuccess, Received
  <2> HIDE DEF id
  <2>5. chan[1].id = id
    BY <2>4 DEF id
  <2>6. Tracked' = Tracked
    BY <2>1, <2>2 DEF Tracked, Successful
  <2>7. ASSUME NEW b \in BuildId, Answered(b)'
        PROVE  Answered(b)
    <3>1. CASE b = id
      BY <3>1, <2>4, <2>5 DEF Answered
    <3>2. CASE b # id
      BY <3>2, <2>1, <2>2, <2>3, <2>7 DEF Answered
    <3> QED BY <3>1, <3>2
  <2> QED BY <2>6, <2>7
<1>5. CASE ReceiveFailed
  <2> DEFINE id == Head(chan).id
  <2>1. /\ id \in BuildId /\ kind[id] = "Started" /\ chan # <<>>
        /\ chan' = Tail(chan) /\ kind' = [kind EXCEPT ![id] = "Failed"]
    BY <1>5, ReceiveFailedEffect
  <2>2. chan \in Seq(Message) /\ kind \in [BuildId -> Kinds]
    BY DEF IInv, TypeOK
  <2>3. \A i \in DOMAIN Tail(chan) : i + 1 \in DOMAIN chan /\ Tail(chan)[i] = chan[i + 1]
    BY <2>1, <2>2
  <2> HIDE DEF id
  <2>4. Tracked' = Tracked
    BY <2>1, <2>2 DEF Tracked
  <2>5. \A b \in BuildId : Answered(b)' => Answered(b)
    BY <2>1, <2>2, <2>3 DEF Answered, Successful
  <2> QED BY <2>4, <2>5
<1> QED BY <1>1, <1>2, <1>3, <1>4, <1>5 DEF Caller

\* want() takes only builds of the manifest.
LEMMA WantAnswers ==
  ASSUME Base, Shape, NEW S, WantTargets(S)
  PROVE  /\ \A b \in BuildId : Answered(b)' => Answered(b)
         /\ Tracked' \subseteq DOMAIN manifest
<1> DEFINE unmet == [b \in BuildId |-> build_dependencies(graph, b) \ Tracked]
           new == Reach(unmet, S \ Tracked)
<1>1. /\ kind' = [b \in BuildId |-> IF b \in new THEN "Fresh" ELSE kind[b]]
      /\ chan' = chan /\ S \subseteq DOMAIN manifest
  BY DEF WantTargets, Want
<1>2. DOMAIN manifest \subseteq BuildId /\ graph = DependenciesIn(manifest)
      /\ IsManifest(manifest)
  BY ScenarioManifests DEF Base, VInv, World
<1>3. DepClosed(unmet, DOMAIN manifest)
  BY <1>2 DEF DepClosed, build_dependencies, DependenciesIn, IsManifest
<1> HIDE DEF unmet
<1>4. new \subseteq DOMAIN manifest
  BY <1>1, <1>2, <1>3, ReachLeast
<1> HIDE DEF new
<1>5. Tracked' \subseteq DOMAIN manifest
  BY <1>1, <1>4 DEF Shape, Tracked
<1>6. \A b \in BuildId : Answered(b)' => Answered(b)
  BY <1>1 DEF Answered, Successful
<1> QED BY <1>5, <1>6

LEMMA SpawnAnswers ==
  ASSUME Base, NEW c \in BuildId, Spawn(c)
  PROVE  /\ \A b \in BuildId : Answered(b)' => Answered(b)
         /\ Tracked' = Tracked
<1>1. /\ kind' = [kind EXCEPT ![c] = "Started"] /\ chan' = chan /\ c \in pending
  BY DEF Spawn, StartBuild
<1>2. kind[c] = "Fresh" /\ kind \in [BuildId -> Kinds]
  BY <1>1 DEF Base, IInv, PendingExact, OfKind, TypeOK
<1> QED BY <1>1, <1>2 DEF Answered, Tracked, Successful

\* The session goes on and nothing happens to files and database.
LEMMA QuietSteps ==
  ASSUME Shape, \A b \in DOMAIN manifest : SInv(b), Base,
         UNCHANGED <<manifest, graph, edited, mtime, content, db, blind, stage,
                     view, todo, product>>,
         \A b \in BuildId : Answered(b)' => Answered(b),
         Tracked' \subseteq DOMAIN manifest
  PROVE  Shape' /\ \A b \in DOMAIN manifest' : SInv(b)'
<1>1. Shape'
  BY DEF Shape
<1>2. ASSUME NEW b \in DOMAIN manifest
      PROVE  SInv(b)'
  <2>1. b \in BuildId
    BY ScenarioManifests DEF Base, VInv
  <2>2. Undisturbed(b)
    BY <2>1, SameEntriesReflexive DEF Undisturbed, Good
  <2> QED BY <2>2, UndisturbedSound
<1> QED BY <1>1, <1>2

-----------------------------------------------------------------------------
(* Steps of a task: what they leave alone.                                 *)

\* stat_node changes nothing but the place and the transaction of its task.
StatFrame(c) ==
  /\ UNCHANGED <<manifest, graph, edited, mtime, content, db, blind, product, kind, chan>>
  /\ view' = view \/ \E v : view' = [view EXCEPT ![c] = v]
  /\ stage[c] \in {"spawned", "ins", "outs"}

LEMMA StatNodeFrame ==
  ASSUME NEW c, StatNode(c)
  PROVE  StatFrame(c)
<1> USE DEF disk, database, env, history, vars, builds, BeginExecute, StatFrame
<1>1. CASE BeginRead(c)
  BY <1>1 DEF BeginRead
<1>2. ASSUME NEW f \in File, StatInput(c, f)
      PROVE  StatFrame(c)
  BY <1>2 DEF StatInput, LookAt, Verdict, Leave
<1>3. ASSUME NEW f \in File, StatInputTime(c, f)
      PROVE  StatFrame(c)
  BY <1>3 DEF StatInputTime, NextFile, Verdict, Outdated, Leave
<1>4. CASE StatInputsDone(c)
  BY <1>4 DEF StatInputsDone, Outdated, Leave
<1>5. ASSUME NEW f \in File, StatOutput(c, f)
      PROVE  StatFrame(c)
  BY <1>5 DEF StatOutput, LookAt, Outdated, Leave
<1>6. ASSUME NEW f \in File, StatOutputTime(c, f)
      PROVE  StatFrame(c)
  BY <1>6 DEF StatOutputTime, NextFile, Verdict, Outdated, Leave
<1>7. CASE StatDone(c)
  BY <1>7 DEF StatDone, Verdict, Outdated, Leave
<1> QED BY <1>1, <1>2, <1>3, <1>4, <1>5, <1>6, <1>7 DEF StatNode

\* A command, and the recording of its result, touch the files and entries of
\* its own build only.
Touches(c) ==
  /\ UNCHANGED <<manifest, graph, edited, kind, view, todo>>
  /\ stage[c] # "none" /\ blind \subseteq blind'
  /\ \A f \in File \ Outs(c) : mtime'[f] = mtime[f] /\ content'[f] = content[f]
  /\ \A h, fs : h # hash_build(c) /\ fs \cap Outs(c) = {} => SameEntries(db, db', h, fs)
  /\ product' = product \/ product' \in {[product EXCEPT ![c] = Output(c)],
                                         [product EXCEPT ![c] = <<>>]}
  /\ chan' = chan \/ \E r \in Results : chan' = Append(chan, [id |-> c, result |-> r])

LEMMA ExecuteTouches ==
  ASSUME Base, NEW c \in BuildId, Execute(c)
  PROVE  Touches(c)
<1> USE DEF disk, database, env, history, vars, builds, At, Goto, Touches
<1>1. CASE CommandReads(c) \/ CommandFails(c) \/ PhonySucceeds(c)
  BY <1>1, SameEntriesReflexive DEF CommandReads, CommandFails, PhonySucceeds
<1>2. CASE CallbackPanics(c)
  BY <1>2, SameEntriesReflexive DEF CallbackPanics, Panic
<1>3. CASE CommandWritesPart(c) \/ CommandSucceeds(c)
  BY <1>3, SameEntriesReflexive DEF CommandWritesPart, CommandSucceeds, WriteFiles, Disturb
<1>4. CASE WriteBuild(c)
  <2>1. \E t : db' = [build |-> Put(db.build, {hash_build(c)}, NewBuildInfo(c, t)),
                      file |-> FileInfos(c, t)]
    BY <1>4 DEF WriteBuild
  <2>2. \A h, fs : h # hash_build(c) /\ fs \cap Outs(c) = {} => SameEntries(db, db', h, fs)
    BY <2>1 DEF SameEntries, Put, FileInfos
  <2>3. blind \subseteq blind'
    BY <1>4 DEF WriteBuild
  <2> QED BY <1>4, <2>2, <2>3 DEF WriteBuild
<1>5. CASE InvalidateBuild(c)
  <2>1. db' = [build |-> Drop(db.build, {hash_build(c)}), file |-> Drop(db.file, Outs(c))]
    BY <1>5 DEF InvalidateBuild
  <2>2. \A h, fs : h # hash_build(c) /\ fs \cap Outs(c) = {} => SameEntries(db, db', h, fs)
    BY <2>1 DEF SameEntries, Drop, Restrict
  <2> QED BY <1>5, <2>2 DEF InvalidateBuild
<1>6. CASE Send(c)
  <2>1. /\ UNCHANGED <<manifest, graph, edited, kind, view, todo, blind, mtime, content, db, product>>
        /\ stage[c] \in Results
        /\ chan' = Append(chan, [id |-> c, result |-> stage[c]])
    BY <1>6 DEF Send, Report, Sent
  <2>2. "none" \notin Results
    BY DEF Results, Successful
  <2> QED BY <2>1, <2>2, SameEntriesReflexive
<1> QED BY <1>1, <1>2, <1>3, <1>4, <1>5, <1>6 DEF Execute

\* A task disturbs no other build.
LEMMA OthersSound ==
  ASSUME Base, Shape, NEW c \in DOMAIN manifest, StatNode(c) \/ Execute(c),
         NEW b \in DOMAIN manifest \ {c}, SInv(b)
  PROVE  SInv(b)'
<1>1. /\ b \in BuildId /\ c \in BuildId /\ Ins(b) \subseteq File /\ Outs(b) \subseteq File
      /\ view = [d \in BuildId |-> view[d]] /\ product = [d \in BuildId |-> product[d]]
      /\ chan \in Seq(Message)
  BY ScenarioManifests DEF Base, VInv, World, Shape, IInv, TypeOK
<1>2. Moved(c)
  BY <1>1, StatNodeMoves, ExecuteMoves DEF Base
<1>3. StatFrame(c) \/ Touches(c)
  BY <1>1, StatNodeFrame, ExecuteTouches
<1>4. /\ UNCHANGED <<manifest, graph, edited, kind>>
      /\ stage'[b] = stage[b] /\ view'[b] = view[b] /\ todo'[b] = todo[b]
      /\ product'[b] = product[b]
      /\ chan' = chan \/ \E r \in Results : chan' = Append(chan, [id |-> c, result |-> r])
      /\ blind \subseteq blind' /\ stage[c] # "none"
  <2>1. stage'[b] = stage[b] /\ todo'[b] = todo[b]
    BY <1>1, <1>2 DEF Moved
  <2>2. CASE StatFrame(c)
    BY <1>1, <2>1, <2>2 DEF StatFrame
  <2>3. CASE Touches(c)
    BY <1>1, <2>1, <2>3 DEF Touches
  <2> QED BY <1>3, <2>2, <2>3
<1>5. Answered(b)' => Answered(b)
  <2>1. CASE chan' = chan
    BY <1>4, <2>1 DEF Answered
  <2>2. ASSUME NEW r \in Results, chan' = Append(chan, [id |-> c, result |-> r])
        PROVE  Answered(b)' => Answered(b)
    <3>1. [id |-> c, result |-> r] \in Message
      BY <1>1 DEF Message
    <3>2. /\ Len(chan) \in Nat /\ DOMAIN chan = 1 .. Len(chan)
          /\ DOMAIN chan' = 1 .. Len(chan) + 1
          /\ \A i \in DOMAIN chan : chan'[i] = chan[i]
          /\ chan'[Len(chan) + 1].id = c
      BY <1>1, <2>2, <3>1
    <3> QED BY <1>4, <3>2 DEF Answered
  <2> QED BY <1>4, <2>1, <2>2
<1>6. CASE stage[b] = "none" /\ ~Answered(b)
  BY <1>4, <1>5, <1>6, NothingClaimedOfIdle
<1>7. CASE Alone(b) /\ (stage[b] # "none" \/ Good(b))
  <2>1. Outs(c) \cap (Ins(b) \cup Outs(b)) = {} /\ hash_build(b) # hash_build(c)
    BY <1>4, <1>7, OthersApart
  <2>2. \A f \in Ins(b) \cup Outs(b) : mtime'[f] = mtime[f] /\ content'[f] = content[f]
    BY <1>1, <1>3, <2>1 DEF StatFrame, Touches
  <2>3. SameEntries(db, db', hash_build(b), Outs(b))
    <3>1. CASE StatFrame(c)
      BY <3>1, SameEntriesReflexive DEF StatFrame
    <3>2. CASE Touches(c)
      <4>1. Outs(b) \cap Outs(c) = {}
        BY <2>1
      <4> QED BY <3>2, <2>1, <4>1 DEF Touches
    <3> QED BY <1>3, <3>1, <3>2
  <2>4. Undisturbed(b)
    BY <1>4, <1>5, <2>2, <2>3 DEF Undisturbed, Good
  <2> QED BY <2>4, UndisturbedSound
<1>8. CASE ~Alone(b)
  BY <1>4, <1>8 DEF SInv, Alone, Outs, hash_build
<1> QED BY <1>6, <1>7, <1>8 DEF Good

-----------------------------------------------------------------------------
(* Steps of a task: its own build.                                         *)

\* What one look at a file finds is so in the database too.
LEMMA SameEntriesSameFindings ==
  ASSUME NEW b, SameEntries(view[b], db, hash_build(b), Outs(b))
  PROVE  /\ HasInfo(view[b], b) <=> HasInfo(db, b)
         /\ \A f : InputChanged(view[b], b, f) <=> InputChanged(db, b, f)
         /\ \A f \in Outs(b) : OutputChanged(view[b], b, f) <=> OutputChanged(db, b, f)
         /\ HasInfo(db, b) => (InputSetChanged(view[b], b) <=> InputSetChanged(db, b))
BY DEF SameEntries, HasInfo, InputChanged, OutputChanged, InputSetChanged, BuildInfo

LEMMA OwnStatSound ==
  ASSUME Base, Base', Shape, NEW b \in DOMAIN manifest, StatNode(b), SInv(b)
  PROVE  SInv(b)'
<1>1. /\ b \in BuildId /\ stage \in [BuildId -> Stages]
      /\ view = [d \in BuildId |-> view[d]] /\ todo = [d \in BuildId |-> todo[d]]
      /\ at[b] \subseteq todo[b]
  BY ScenarioManifests DEF Base, VInv, Shape, Places, Tables, Placed
<1>2. StatFrame(b)
  BY StatNodeFrame
<1>3. /\ Ins(b)' = Ins(b) /\ Outs(b)' = Outs(b) /\ hash_build(b)' = hash_build(b)
      /\ hash_input_set(b)' = hash_input_set(b) /\ Alone(b)' = Alone(b) /\ db' = db
      /\ edited' = edited /\ \A f : Exists(f)' = Exists(f)
      /\ \A f : InFine(b, f)' = InFine(b, f) /\ OutFine(b, f)' = OutFine(b, f)
      /\ HasInfo(db, b)' = HasInfo(db, b) /\ UpToDate(b)' = UpToDate(b)
  BY <1>2 DEF StatFrame, Ins, Outs, hash_build, hash_input_set, Alone, InFine, OutFine,
              Exists, InputChanged, OutputChanged, InputSetChanged, HasInfo, BuildInfo, UpToDate
<1>4. ASSUME ~edited, Alone(b)
      PROVE  Stat(b)
  BY <1>4 DEF SInv
<1>5. ASSUME NEW s, stage' = [stage EXCEPT ![b] = s], s \in {"run", "Failed", "Err"}
      PROVE  SInv(b)'
  BY <1>1, <1>5, NothingClaimed DEF Successful
<1>6. ASSUME stage' = stage, view' = view, todo' = todo
      PROVE  SInv(b)'
  <2>1. Good(b)' => Good(b)
    BY <1>2, <1>6 DEF Good, Answered, StatFrame
  <2>2. Undisturbed(b)
    BY <1>2, <1>6, <2>1, SameEntriesReflexive DEF Undisturbed, StatFrame
  <2> QED BY <2>2, UndisturbedSound
\* What has to be shown of a build stat_node looks at.
<1>7. ASSUME stage'[b] \in {"ins", "outs"}, ~edited /\ Alone(b) => Stat(b)'
      PROVE  SInv(b)'
  BY <1>1, <1>3, <1>7 DEF SInv, Made, Kept, Good, Base, Successful
<1>8. CASE BeginRead(b)
  <2>1. /\ stage'[b] = "ins" /\ view'[b] = EntriesOf(b) /\ todo'[b] = Ins(b)
    BY <1>1, <1>8 DEF BeginRead
  <2>2. SameEntries(EntriesOf(b), db, hash_build(b), Outs(b))
    BY DEF SameEntries, EntriesOf, Only, Restrict
  <2>3. Stat(b)'
    BY <1>3, <2>1, <2>2 DEF Stat
  <2> QED BY <1>7, <2>1, <2>3
<1>9. ASSUME NEW f \in File, StatInput(b, f)
      PROVE  SInv(b)'
  BY <1>5, <1>6, <1>9 DEF StatInput, LookAt, Verdict, Leave
<1>10. ASSUME NEW f \in File, StatInputTime(b, f)
       PROVE  SInv(b)'
  <2>1. CASE Exists(f) /\ ~InputChanged(view[b], b, f)
    <3>1. /\ stage'[b] = "ins" /\ stage[b] = "ins" /\ view'[b] = view[b]
          /\ todo'[b] = todo[b] \ {f} /\ Exists(f) /\ ~InputChanged(view[b], b, f)
      BY <1>1, <1>10, <2>1 DEF StatInputTime, NextFile
    <3>2. ~edited /\ Alone(b) => Stat(b)'
      BY <1>3, <1>4, <3>1, SameEntriesSameFindings DEF Stat, InFine
    <3> QED BY <1>7, <3>1, <3>2
  <2>2. CASE ~Exists(f) \/ InputChanged(view[b], b, f)
    BY <1>5, <1>10, <2>2 DEF StatInputTime, Verdict, Outdated, Leave
  <2> QED BY <2>1, <2>2
<1>11. CASE StatInputsDone(b)
  <2>1. CASE HasInfo(view[b], b)
    <3>1. /\ stage'[b] = "outs" /\ stage[b] = "ins" /\ view'[b] = view[b]
          /\ todo[b] = {} /\ todo'[b] = Outs(b)
      BY <1>1, <1>11, <2>1 DEF StatInputsDone
    <3>2. ~edited /\ Alone(b) => Stat(b)'
      BY <1>3, <1>4, <2>1, <3>1, SameEntriesSameFindings DEF Stat
    <3> QED BY <1>7, <3>1, <3>2
  <2>2. CASE ~HasInfo(view[b], b)
    BY <1>5, <1>11, <2>2 DEF StatInputsDone, Outdated, Leave
  <2> QED BY <2>1, <2>2
<1>12. ASSUME NEW f \in File, StatOutput(b, f)
       PROVE  SInv(b)'
  BY <1>5, <1>6, <1>12 DEF StatOutput, LookAt, Outdated, Leave
<1>13. ASSUME NEW f \in File, StatOutputTime(b, f)
       PROVE  SInv(b)'
  <2>1. CASE Exists(f) /\ ~OutputChanged(view[b], b, f)
    <3>1. /\ stage'[b] = "outs" /\ stage[b] = "outs" /\ view'[b] = view[b]
          /\ todo'[b] = todo[b] \ {f} /\ Exists(f)
          /\ ~OutputChanged(view[b], b, f)
      BY <1>1, <1>13, <2>1 DEF StatOutputTime, NextFile
    <3>2. ~edited /\ Alone(b) => Stat(b)'
      BY <1>3, <1>4, <3>1, SameEntriesSameFindings DEF Stat, OutFine
    <3> QED BY <1>7, <3>1, <3>2
  <2>2. CASE ~Exists(f) \/ OutputChanged(view[b], b, f)
    BY <1>5, <1>13, <2>2 DEF StatOutputTime, Verdict, Outdated, Leave
  <2> QED BY <2>1, <2>2
<1>14. CASE StatDone(b)
  <2>1. CASE InputSetChanged(view[b], b)
    BY <1>5, <1>14, <2>1 DEF StatDone, Outdated, Leave
  <2>2. CASE ~InputSetChanged(view[b], b)
    <3>1. stage[b] = "outs" /\ todo[b] = {} /\ stage'[b] = "UpToDate"
      BY <1>1, <1>14, <2>2 DEF StatDone, Verdict, Leave
    <3>2. ~edited /\ Alone(b) => UpToDate(b)
      BY <1>4, <2>2, <3>1, SameEntriesSameFindings DEF Stat, UpToDate, InFine, OutFine
    <3>3. b \in DOMAIN manifest'
      BY <1>2 DEF StatFrame
    <3>4. UpToDate(b)' => Fresh(b)' \/ (HasInfo(db, b)' /\ (Blind(b)' \/ Mistaken(b)'))
      BY <3>3 DEF Base, VouchedIsFresh, UpToDate
    <3> QED BY <1>3, <3>1, <3>2, <3>4 DEF SInv, Stat, Made, Kept
  <2> QED BY <2>1, <2>2
<1> QED BY <1>8, <1>9, <1>10, <1>11, <1>12, <1>13, <1>14 DEF StatNode

LEMMA OwnExecuteSound ==
  ASSUME Base, Base', Shape, NEW b \in DOMAIN manifest, Execute(b), SInv(b)
  PROVE  SInv(b)'
<1>1. /\ b \in BuildId /\ stage \in [BuildId -> Stages]
      /\ product = [d \in BuildId |-> product[d]]
      /\ Ins(b) \subseteq File /\ Outs(b) \subseteq File /\ Ins(b) \cap Outs(b) = {}
  BY ScenarioManifests DEF Base, VInv, World
<1>2. Touches(b)
  BY <1>1, ExecuteTouches
<1>3. /\ Ins(b)' = Ins(b) /\ Outs(b)' = Outs(b) /\ hash_build(b)' = hash_build(b)
      /\ hash_input_set(b)' = hash_input_set(b) /\ Alone(b)' = Alone(b)
      /\ edited' = edited /\ Method(b)' = Method(b)
      /\ \A f \in Ins(b) : mtime'[f] = mtime[f] /\ content'[f] = content[f]
  BY <1>1, <1>2 DEF Touches, Ins, Outs, hash_build, hash_input_set, Alone, Method
<1>4. Output(b)' = Output(b)
  BY <1>2, <1>3 DEF Output, Touches
<1>5. ~Answered(b)
  BY <1>1, <1>2 DEF Base, Touches
<1>6. ASSUME stage'[b] \in {"broken", "Failed", "Err"}
      PROVE  SInv(b)'
  BY <1>1, <1>6, NothingClaimed DEF Successful
\* What has to be shown of a build whose command runs.
<1>7. ASSUME stage'[b] \in {"read", "partial", "written"}, ~edited /\ Alone(b) => Made(b)'
      PROVE  SInv(b)'
  BY <1>1, <1>3, <1>7 DEF SInv, Stat, Kept, Good, Base, Successful
<1>8. ASSUME ~edited, Alone(b)
      PROVE  Made(b)
  BY <1>8 DEF SInv
<1>9. CASE CommandReads(b)
  <2>1. stage'[b] = "read" /\ product'[b] = Output(b)
    BY <1>1, <1>9 DEF CommandReads, Goto
  <2> QED BY <1>4, <1>7, <2>1 DEF Made
<1>10. CASE CommandWritesPart(b)
  <2>1. stage[b] = "read" /\ stage'[b] = "partial" /\ product' = product
    BY <1>1, <1>10 DEF CommandWritesPart, Goto, At
  <2> QED BY <1>4, <1>7, <1>8, <2>1 DEF Made
<1>11. CASE CommandSucceeds(b)
  <2>1. /\ stage[b] \in {"read", "partial"} /\ stage'[b] = "written"
        /\ \E t \in Now : WriteFiles(Outs(b), product[b], t)
    BY <1>1, <1>11 DEF CommandSucceeds, Goto, At
  <2>2. PICK t \in Now : WriteFiles(Outs(b), product[b], t)
    BY <2>1
  <2>3. t > 0
    BY ClockRuns DEF Base, VInv, Times
  <2>4. \A f \in Outs(b) : Exists(f)' /\ content'[f] = product[b]
    BY <1>1, <2>2, <2>3 DEF WriteFiles, Exists
  <2>5. ~edited /\ Alone(b) => Fresh(b)'
    BY <1>3, <1>4, <1>8, <2>1, <2>4 DEF Made, Fresh
  <2> QED BY <1>7, <2>1, <2>5 DEF Made
<1>12. CASE CommandFails(b)
  BY <1>1, <1>6, <1>12 DEF CommandFails, Goto
<1>13. CASE CallbackPanics(b)
  <2>1. stage'[b] = "none" /\ UNCHANGED <<kind, chan>>
    BY <1>1, <1>13 DEF CallbackPanics, Panic, Goto, builds
  <2> QED BY <1>5, <2>1, NothingClaimedOfIdle DEF Answered
<1>14. CASE PhonySucceeds(b)
  <2>1. stage'[b] = "written" /\ Method(b) = "phony"
    BY <1>1, <1>14 DEF PhonySucceeds, Goto
  <2> QED BY <1>3, <1>7, <2>1 DEF Made, Fresh
<1>15. CASE WriteBuild(b)
  <2>1. /\ stage[b] = "written" /\ stage'[b] \in Successful
        /\ UNCHANGED <<mtime, content>>
    BY <1>1, <1>15 DEF WriteBuild, Goto, At, Successful
  <2>2. PICK t \in Now :
          db' = [build |-> Put(db.build, {hash_build(b)}, NewBuildInfo(b, t)),
                 file |-> FileInfos(b, t)]
    BY <1>15 DEF WriteBuild
  <2>3. /\ t \in Nat /\ clock \in Nat /\ clock <= t /\ mtime \in [File -> 0 .. clock]
    BY ClockRuns DEF Base, VInv, Times
  <2>4. \A f \in File : ~(t < mtime[f])
    BY <2>3
  <2>5. /\ hash_build(b) \in DOMAIN db'.build
        /\ db'.build[hash_build(b)] = NewBuildInfo(b, t)
        /\ \A f \in Outs(b) :
             /\ f \in DOMAIN db'.file
             /\ db'.file[f].last_seen = t /\ db'.file[f].generated_by = hash_build(b)
    BY <2>2 DEF Put, FileInfos
  <2>6. ASSUME ~edited, Alone(b)
        PROVE  Fresh(b)'
    <3>1. Fresh(b)
      BY <1>8, <2>1, <2>6 DEF Made
    <3> QED BY <3>1, <1>3, <1>4, <2>1 DEF Fresh, Exists
  <2>7. ASSUME Fresh(b)', Ready(b)'
        PROVE  UpToDate(b)'
    <3>1. HasInfo(db, b)' /\ BuildInfo(db, b)' = NewBuildInfo(b, t)
      BY <1>3, <2>5 DEF HasInfo, BuildInfo
    <3>2. \A f \in Ins(b) : Exists(f)' /\ ~InputChanged(db, b, f)'
      BY <1>1, <1>3, <2>1, <2>4, <2>7, <3>1 DEF Ready, InputChanged, NewBuildInfo
    <3>3. \A f \in Outs(b) : Exists(f)'
      BY <1>3, <2>7 DEF Ready, Fresh
    <3>4. \A f \in Outs(b) : ~OutputChanged(db, b, f)'
      BY <1>1, <1>3, <2>1, <2>4, <2>5 DEF OutputChanged
    <3>5. ~InputSetChanged(db, b)'
      BY <1>3, <3>1 DEF InputSetChanged, NewBuildInfo
    <3> QED BY <1>3, <3>1, <3>2, <3>3, <3>4, <3>5 DEF UpToDate
  <2> QED BY <1>3, <2>1, <2>6, <2>7 DEF SInv, Stat, Made, Kept, Successful
<1>16. CASE InvalidateBuild(b)
  BY <1>1, <1>6, <1>16 DEF InvalidateBuild, Goto
<1>17. CASE Send(b)
  <2>1. /\ stage[b] \in Results /\ stage'[b] = "none"
        /\ UNCHANGED <<mtime, content, db, product, view, todo, kind>>
        /\ chan' = Append(chan, [id |-> b, result |-> stage[b]])
    BY <1>1, <1>17 DEF Send, Goto, At, Report, Sent, disk, database, builds
  <2>2. Good(b)' => Good(b)
    <3>1. [id |-> b, result |-> stage[b]] \in Message /\ chan \in Seq(Message)
      BY <1>1, <2>1 DEF Message, Base, IInv, TypeOK
    <3>2. /\ Len(chan) \in Nat /\ DOMAIN chan = 1 .. Len(chan)
          /\ DOMAIN chan' = 1 .. Len(chan) + 1
          /\ \A i \in DOMAIN chan : chan'[i] = chan[i]
          /\ chan'[Len(chan) + 1].result = stage[b]
      BY <2>1, <3>1
    <3> QED BY <2>1, <3>2 DEF Good, Answered, Successful
  <2>3. Undisturbed(b)
    BY <1>2, <1>3, <2>1, <2>2, SameEntriesReflexive DEF Undisturbed, Touches
  <2> QED BY <2>3, UndisturbedSound
<1> QED BY <1>9, <1>10, <1>11, <1>12, <1>13, <1>14, <1>15, <1>16, <1>17 DEF Execute

-----------------------------------------------------------------------------

SessionInv == Shape /\ \A b \in DOMAIN manifest : SInv(b)

\* The step of a task.
LEMMA TaskSound ==
  ASSUME Base, Base', SessionInv, NEW c \in DOMAIN manifest, StatNode(c) \/ Execute(c)
  PROVE  SessionInv'
<1>1. c \in BuildId
  BY ScenarioManifests DEF Base, VInv
<1>2. StatFrame(c) \/ Touches(c)
  BY <1>1, StatNodeFrame, ExecuteTouches
<1>3. UNCHANGED <<manifest, kind>> /\ view' = [b \in BuildId |-> view'[b]]
  BY <1>2 DEF StatFrame, Touches, SessionInv, Shape
<1>4. \A b \in DOMAIN manifest \ {c} : SInv(b)'
  BY OthersSound DEF SessionInv
<1>5. SInv(c)'
  BY OwnStatSound, OwnExecuteSound DEF SessionInv
<1> QED BY <1>3, <1>4, <1>5 DEF SessionInv, Shape, Tracked

\* A build the caller's thread starts is new.
LEMMA SpawnSound ==
  ASSUME Base, Base', SessionInv, NEW c \in DOMAIN manifest, Spawn(c)
  PROVE  SessionInv'
<1>1. /\ c \in BuildId /\ DOMAIN manifest \subseteq BuildId
      /\ stage \in [BuildId -> Stages]
  BY ScenarioManifests DEF Base, VInv, World
<1>2. /\ UNCHANGED <<manifest, graph, edited, mtime, content, db, blind, view, todo, product>>
      /\ stage' = [stage EXCEPT ![c] = "spawned"]
  BY <1>1 DEF Spawn, StartBuild, disk, database, env, history
<1>3. \A b \in BuildId : Answered(b)' => Answered(b)
  BY <1>1, SpawnAnswers
<1>4. Tracked' = Tracked
  BY <1>1, SpawnAnswers
<1>5. Shape'
  BY <1>2, <1>4 DEF SessionInv, Shape
<1>6. ASSUME NEW b \in DOMAIN manifest \ {c}
      PROVE  SInv(b)'
  <2>1. Undisturbed(b)
    BY <1>1, <1>2, <1>3, SameEntriesReflexive DEF Undisturbed, Good
  <2> QED BY <2>1, UndisturbedSound DEF SessionInv
<1>7. SInv(c)'
  BY <1>1, <1>2, NothingClaimed DEF Successful
<1> QED BY <1>2, <1>5, <1>6, <1>7 DEF SessionInv

\* In every session, as long as nobody edits or removes a file: what stat_node
\* has found, what a command has made and what has been recorded of a build
\* holds until the session ends.
THEOREM SessionInvariance == ISpec => []SessionInv
<1>1. IInit => SessionInv
  <2> SUFFICES ASSUME IInit PROVE SessionInv
    OBVIOUS
  <2>1. \A b \in BuildId : stage[b] = "none" /\ ~Answered(b)
    <3>1. /\ kind = [b \in BuildId |-> "Untracked"] /\ chan = <<>>
          /\ stage = [b \in BuildId |-> "none"]
      BY DEF IInit, Init
    <3>2. DOMAIN chan = {}
      BY <3>1
    <3>3. \A b \in BuildId : stage[b] = "none" /\ kind[b] = "Untracked"
      BY <3>1
    <3> QED BY ONLY <3>2, <3>3 DEF Answered, Successful
  <2>2. DOMAIN manifest \subseteq BuildId
    BY ScenariosAssumption DEF IInit, IsManifest
  <2>3. Shape
    BY DEF IInit, Init, Shape, Tracked
  <2>4. \A b \in DOMAIN manifest : SInv(b)
    BY <2>1, <2>2 DEF SInv, Stat, Made, Kept, Good, Successful
  <2> QED BY <2>3, <2>4 DEF SessionInv
<1>2. Base /\ Base' /\ SessionInv /\ [INext]_ivars => SessionInv'
  <2> SUFFICES ASSUME Base, Base', SessionInv, [INext]_ivars
               PROVE  SessionInv'
    OBVIOUS
  <2> USE DEF disk, database, env, history, vars, builds, local
  <2>1. ASSUME NEW S \in SUBSET BuildId, WantTargets(S)
        PROVE  SessionInv'
    <3>1. UNCHANGED <<manifest, graph, edited, mtime, content, db, blind, stage,
                      view, todo, product>>
      BY <2>1 DEF WantTargets, Want
    <3> QED BY <2>1, <3>1, QuietSteps, WantAnswers DEF SessionInv
  <2>2. CASE Caller
    <3>1. UNCHANGED <<manifest, graph, edited, mtime, content, db, blind, stage,
                      view, todo, product>>
      BY <2>2 DEF Caller, Run, LeaveLoop, Wait, ReceiveErr, ReceiveSuccess, ReceiveFailed, Join
    <3>2. (\A b \in BuildId : Answered(b)' => Answered(b)) /\ Tracked' \subseteq DOMAIN manifest
      BY <2>2, CallerAnswers DEF SessionInv, Shape
    <3> QED BY <3>1, <3>2, QuietSteps DEF SessionInv
  <2>3. ASSUME NEW b \in DOMAIN manifest, Spawn(b) \/ StatNode(b) \/ Execute(b)
        PROVE  SessionInv'
    BY <2>3, SpawnSound, TaskSound
  <2>4. ASSUME NEW f \in Used, Edit(f) \/ Remove(f)
        PROVE  SessionInv'
    <3>1. UNCHANGED <<manifest, kind, view>> /\ edited' = TRUE
      BY <2>4 DEF Edit, Remove
    <3> QED BY <3>1 DEF SessionInv, Shape, Tracked, SInv
  <2>5. CASE Finish \/ Kill
    <3>1. PICK m \in scenario.manifests : InitProcess(m)
      BY <2>5 DEF Finish, Kill, NewSession
    <3>2. \A b \in BuildId : stage'[b] = "none" /\ ~Answered(b)'
      BY <3>1 DEF InitProcess, Answered, Successful
    <3>3. DOMAIN manifest' \subseteq BuildId
      BY <3>1, ScenariosAssumption DEF InitProcess, Base, VInv, World, IsManifest
    <3>4. Shape'
      BY <3>1 DEF InitProcess, Shape, Tracked
    <3>5. \A b \in DOMAIN manifest' : SInv(b)'
      BY <3>2, <3>3, NothingClaimedOfIdle
    <3> QED BY <3>4, <3>5 DEF SessionInv
  <2>6. CASE UNCHANGED ivars
    <3>1. /\ UNCHANGED <<manifest, graph, edited, mtime, content, db, blind, stage,
                         view, todo, product>>
          /\ \A b \in BuildId : Answered(b)' => Answered(b)
          /\ Tracked' \subseteq DOMAIN manifest
      BY <2>6 DEF ivars, Answered, SessionInv, Shape, Tracked
    <3> QED BY <3>1, QuietSteps DEF SessionInv
  <2> QED BY <2>1, <2>2, <2>3, <2>4, <2>5, <2>6 DEF INext
<1> QED BY <1>1, <1>2, BaseInvariance, PTL DEF ISpec

\* A session that nobody disturbs leaves every build that was built or found up
\* to date so that stat_node would find it up to date again: running the tool
\* twice runs no command twice.
THEOREM SecondBuildAlwaysNoOp == ISpec => []SecondBuildIsNoOp
<1>1. Base /\ SessionInv => SecondBuildIsNoOp
  <2> SUFFICES ASSUME SessionInv, ~edited, NEW b \in OfKind(Successful), Alone(b), Ready(b)
               PROVE  UpToDate(b)
    BY DEF SecondBuildIsNoOp, Ready
  <2>1. b \in DOMAIN manifest
    BY DEF SessionInv, Shape, OfKind, Tracked, Successful
  <2> QED BY <2>1 DEF SessionInv, SInv, Kept, Good, Answered, OfKind
<1> QED BY <1>1, BaseInvariance, SessionInvariance, PTL

\* A session that returns Ok with no failure and was not disturbed leaves the
\* outputs of all wanted builds as their commands make them of their inputs, or
\* recorded with a time that does not tell of an earlier change or for other
\* inputs of the same digest.
THEOREM SessionAlwaysMakesFresh == ISpec => []SessionMakesFresh
<1>1. Base /\ SessionInv => SessionMakesFresh
  <2> SUFFICES ASSUME Base, SessionInv, ~edited, outcome = "Ok", failed = 0,
                      NEW b \in Tracked, Alone(b)
               PROVE  Fresh(b) \/ (HasInfo(db, b) /\ (Blind(b) \/ Mistaken(b)))
    BY DEF SessionMakesFresh
  <2>1. finished = Cardinality(Tracked)
    BY DEF Base, IInv, CallerExact, AllDone
  <2>2. Cardinality(OfKind(Finished)) = Cardinality(Tracked)
    BY <2>1 DEF Base, IInv, CountersExact
  <2>3. OfKind(Finished) = Tracked
    <3>1. Tracked \in SUBSET BuildId /\ OfKind(Finished) \in SUBSET Tracked
      BY DEF Tracked, OfKind, Finished
    <3> QED BY <3>1, <2>2, CardinalitySubset
  <2>4. OfKind({"Failed", "Skipped"}) = {}
    <3>1. OfKind({"Failed", "Skipped"}) \in SUBSET BuildId
      BY DEF OfKind
    <3>2. Cardinality(OfKind({"Failed", "Skipped"})) = 0
      BY DEF Base, IInv, CountersExact
    <3> QED BY <3>1, <3>2, BuildSetsFinite
  <2>5. kind[b] \in Successful
    BY <2>3, <2>4 DEF OfKind, Finished, Successful
  <2>6. b \in DOMAIN manifest
    BY DEF SessionInv, Shape
  <2> QED BY <2>5, <2>6 DEF SessionInv, SInv, Kept, Good, Answered
<1> QED BY <1>1, BaseInvariance, SessionInvariance, PTL

-----------------------------------------------------------------------------
(* stat_node looks at one file after another, and it is as if it looked at *)
(* all of them when it began.                                              *)

\* Files that are written get a time of their own.
TimeGoesOn ==
  /\ clock <= clock' /\ clock' \in Nat /\ mtime' \in [File -> Nat]
  /\ \A f \in File : mtime'[f] = mtime[f] \/ mtime'[f] = 0 \/ mtime'[f] > clock

\* What the snapshot says is not of the future; a file that passes now passed
\* when the transaction began, and so did those that were looked at.
Looking(b) ==
  stage[b] \in {"ins", "outs"} =>
    /\ Dated(view[b], clock)
    /\ AsRecorded(view[b], b) \subseteq sound[b]
    /\ stage[b] = "ins" => Ins(b) \ todo[b] \subseteq sound[b]
    /\ stage[b] = "outs" => /\ Ins(b) \subseteq sound[b]
                            /\ Outs(b) \ todo[b] \subseteq sound[b]

LInv ==
  /\ view = [b \in BuildId |-> view[b]] /\ sound = [b \in BuildId |-> sound[b]]
  /\ ~scenario.coarse => \A b \in DOMAIN manifest : Looking(b)

\* A step that is none of stat_node for b.
Elsewhere(b) ==
  stage'[b] \in {"ins", "outs"} =>
    UNCHANGED <<manifest, stage[b], view[b], todo[b], sound[b]>>

LEMMA TimeGoesOnStep ==
  ASSUME World, Times, ~scenario.coarse, [INext]_ivars
  PROVE  TimeGoesOn
<1> USE DEF disk, database, env, history, vars, local
<1>1. clock \in Nat /\ mtime \in [File -> Nat] /\ Now = {clock + 1}
  BY DEF World, Now
<1>2. ASSUME NEW fs, NEW c, NEW t \in Now, WriteFiles(fs, c, t)
      PROVE  TimeGoesOn
  BY <1>1, <1>2 DEF WriteFiles, TimeGoesOn
<1>3. ASSUME UNCHANGED <<mtime, clock>>
      PROVE  TimeGoesOn
  BY <1>1, <1>3 DEF TimeGoesOn
<1>4. ASSUME NEW S \in SUBSET BuildId, WantTargets(S)
      PROVE  TimeGoesOn
  BY <1>3, <1>4 DEF WantTargets
<1>5. CASE Caller
  BY <1>3, <1>5 DEF Caller
<1>6. ASSUME NEW b \in DOMAIN manifest, Spawn(b)
      PROVE  TimeGoesOn
  BY <1>3, <1>6 DEF Spawn
<1>7. ASSUME NEW b \in DOMAIN manifest, StatNode(b)
      PROVE  TimeGoesOn
  BY <1>3, <1>7
     DEF StatNode, BeginRead, StatInput, StatInputTime, StatInputsDone, StatOutput,
         StatOutputTime, StatDone, Verdict, Outdated, Leave, LookAt, NextFile
<1>8. ASSUME NEW b \in DOMAIN manifest, CommandWritesPart(b) \/ CommandSucceeds(b)
      PROVE  TimeGoesOn
  BY <1>2, <1>8 DEF CommandWritesPart, CommandSucceeds
<1>9. ASSUME NEW b \in DOMAIN manifest, WriteBuild(b)
      PROVE  TimeGoesOn
  BY <1>1, <1>9 DEF WriteBuild, TimeGoesOn
<1>10. ASSUME NEW b \in DOMAIN manifest,
              \/ CommandReads(b) \/ CommandFails(b) \/ CallbackPanics(b)
              \/ PhonySucceeds(b) \/ InvalidateBuild(b) \/ Send(b)
       PROVE  TimeGoesOn
  BY <1>3, <1>10
     DEF CommandReads, CommandFails, CallbackPanics, PhonySucceeds, InvalidateBuild, Send
<1>11. ASSUME NEW f \in Used, Edit(f)
       PROVE  TimeGoesOn
  BY <1>2, <1>11 DEF Edit
<1>12. ASSUME NEW f \in Used, Remove(f)
       PROVE  TimeGoesOn
  <2>1. clock' = clock /\ mtime' = [mtime EXCEPT ![f] = 0]
    BY <1>12 DEF Remove
  <2>2. 0 \in Nat /\ mtime \in [File -> Nat]
    BY <1>1
  <2>3. mtime' \in [File -> Nat]
    BY ONLY <2>1, <2>2
  <2>4. \A g \in File : mtime'[g] = mtime[g] \/ mtime'[g] = 0
    BY ONLY <2>1, <2>2
  <2>5. clock <= clock' /\ clock' \in Nat
    BY <1>1, <2>1
  <2> QED BY <2>3, <2>4, <2>5 DEF TimeGoesOn
<1>13. CASE Finish \/ Kill
  BY <1>3, <1>13 DEF Finish, Kill, NewSession
<1>14. CASE UNCHANGED ivars
  BY <1>3, <1>14 DEF ivars
<1> QED BY <1>4, <1>5, <1>6, <1>7, <1>8, <1>9, <1>10, <1>11, <1>12, <1>13, <1>14
       DEF INext, Execute

\* Whatever is written, removed or recorded meanwhile, no file comes to look
\* as recorded that did not when the transaction began.
LEMMA LookingStill ==
  ASSUME World, NEW b \in DOMAIN manifest, Looking(b), TimeGoesOn, Elsewhere(b)
  PROVE  Looking(b)'
<1> SUFFICES ASSUME stage'[b] \in {"ins", "outs"}
             PROVE  Looking(b)'
  BY DEF Looking
<1>1. UNCHANGED <<manifest, stage[b], view[b], todo[b], sound[b]>>
  BY DEF Elsewhere
<1>2. /\ Ins(b)' = Ins(b) /\ Outs(b)' = Outs(b) /\ hash_build(b)' = hash_build(b)
      /\ Ins(b) \subseteq File /\ Outs(b) \subseteq File
  BY <1>1, ScenarioManifests DEF Ins, Outs, hash_build
<1>3. clock \in Nat /\ clock' \in Nat /\ clock <= clock' /\ mtime \in [File -> Nat]
      /\ mtime' \in [File -> Nat]
  BY DEF World, TimeGoesOn
<1>4. Dated(view[b], clock) /\ AsRecorded(view[b], b) \subseteq sound[b]
  BY <1>1 DEF Looking
<1>5. Dated(view[b], clock')
  BY <1>3, <1>4, LaterStillDated
<1>6. ASSUME NEW f \in Ins(b), Exists(f)', ~InputChanged(view[b], b, f)'
      PROVE  f \in sound[b]
  <2>1. HasInfo(view[b], b) /\ ~(BuildInfo(view[b], b).last_start < mtime'[f])
    BY <1>1, <1>2, <1>6 DEF InputChanged, HasInfo, BuildInfo
  <2>2. BuildInfo(view[b], b).last_start \in 1 .. clock
    BY <2>1, <1>4 DEF Dated, HasInfo, BuildInfo
  <2>3. mtime'[f] = mtime[f]
    BY <2>1, <2>2, <1>2, <1>3, <1>6 DEF TimeGoesOn, Exists
  <2>4. Exists(f) /\ ~InputChanged(view[b], b, f)
    BY <2>1, <2>3, <1>6 DEF Exists, InputChanged
  <2> QED BY <2>4, <1>4 DEF AsRecorded
<1>7. ASSUME NEW f \in Outs(b), Exists(f)', ~OutputChanged(view[b], b, f)'
      PROVE  f \in sound[b]
  <2>1. /\ f \in DOMAIN view[b].file /\ view[b].file[f].generated_by = hash_build(b)
        /\ ~(view[b].file[f].last_seen < mtime'[f])
    BY <1>1, <1>2, <1>7 DEF OutputChanged
  <2>2. view[b].file[f].last_seen \in 1 .. clock
    BY <2>1, <1>4 DEF Dated
  <2>3. mtime'[f] = mtime[f]
    BY <2>1, <2>2, <1>2, <1>3, <1>7 DEF TimeGoesOn, Exists
  <2>4. Exists(f) /\ ~OutputChanged(view[b], b, f)
    BY <2>1, <2>3, <1>7 DEF Exists, OutputChanged
  <2> QED BY <2>4, <1>4 DEF AsRecorded
<1>8. AsRecorded(view[b], b)' \subseteq sound[b]
  BY <1>1, <1>2, <1>6, <1>7 DEF AsRecorded
<1> QED BY <1>1, <1>2, <1>5, <1>8 DEF Looking

\* stat_node goes on to the next file only if the one it looks at passes.
LEMMA OwnLook ==
  ASSUME World, Times, Tables, LInv, ~scenario.coarse,
         NEW b \in DOMAIN manifest, StatNode(b)
  PROVE  Looking(b)'
<1>1. /\ b \in BuildId /\ stage \in [BuildId -> Stages] /\ Looking(b)
      /\ view = [d \in BuildId |-> view[d]] /\ todo = [d \in BuildId |-> todo[d]]
      /\ sound = [d \in BuildId |-> sound[d]]
  BY ScenarioManifests DEF Tables, LInv
<1>2. UNCHANGED <<manifest, mtime, clock, db>>
  BY DEF StatNode, BeginRead, StatInput, StatInputTime, StatInputsDone, StatOutput,
         StatOutputTime, StatDone, Verdict, Outdated, Leave, LookAt, NextFile,
         disk, env, database
<1>3. /\ Ins(b)' = Ins(b) /\ Outs(b)' = Outs(b)
      /\ \A D : AsRecorded(D, b)' = AsRecorded(D, b)
  BY <1>2 DEF Ins, Outs, AsRecorded, Exists, InputChanged, OutputChanged, HasInfo, BuildInfo,
              hash_build
<1>4. ASSUME stage'[b] \notin {"ins", "outs"}
      PROVE  Looking(b)'
  BY <1>4 DEF Looking
<1>5. ASSUME NEW s, stage' = [stage EXCEPT ![b] = s], s \in {"run", "Failed", "Err", "UpToDate"}
      PROVE  Looking(b)'
  BY <1>1, <1>4, <1>5
<1>6. ASSUME UNCHANGED <<stage, view, todo, sound>>
      PROVE  Looking(b)'
  BY <1>1, <1>2, <1>3, <1>6 DEF Looking
<1>7. CASE BeginRead(b)
  <2>1. /\ stage'[b] = "ins" /\ view'[b] = EntriesOf(b) /\ todo'[b] = Ins(b)
        /\ sound'[b] = AsRecorded(db, b)
    BY <1>1, <1>7 DEF BeginRead
  <2>2. Dated(EntriesOf(b), clock)
    BY DEF Times, Dated, EntriesOf, Only, Restrict
  <2>3. AsRecorded(EntriesOf(b), b) \subseteq AsRecorded(db, b)
    BY DEF AsRecorded, EntriesOf, Only, Restrict, InputChanged, OutputChanged, HasInfo, BuildInfo
  <2> QED BY <2>1, <2>2, <2>3, <1>2, <1>3 DEF Looking
<1>8. ASSUME NEW f \in File, StatInput(b, f) \/ StatOutput(b, f)
      PROVE  Looking(b)'
  BY <1>5, <1>6, <1>8 DEF StatInput, StatOutput, LookAt, Verdict, Outdated, Leave, history
<1>9. ASSUME NEW f \in File, StatInputTime(b, f)
      PROVE  Looking(b)'
  <2>1. CASE Exists(f) /\ ~InputChanged(view[b], b, f)
    <3>1. /\ stage'[b] = "ins" /\ stage[b] = "ins" /\ view'[b] = view[b]
          /\ todo'[b] = todo[b] \ {f} /\ sound'[b] = sound[b]
      BY <1>1, <1>9, <2>1 DEF StatInputTime, NextFile, history
    <3>2. f \in Ins(b) => f \in AsRecorded(view[b], b)
      BY <2>1 DEF AsRecorded
    <3> QED BY <1>1, <1>2, <1>3, <3>1, <3>2 DEF Looking
  <2>2. CASE ~Exists(f) \/ InputChanged(view[b], b, f)
    BY <1>5, <1>9, <2>2 DEF StatInputTime, Verdict, Outdated, Leave
  <2> QED BY <2>1, <2>2
<1>10. CASE StatInputsDone(b)
  <2>1. CASE HasInfo(view[b], b)
    <3>1. /\ stage'[b] = "outs" /\ stage[b] = "ins" /\ view'[b] = view[b]
          /\ todo[b] = {} /\ todo'[b] = Outs(b) /\ sound'[b] = sound[b]
      BY <1>1, <1>10, <2>1 DEF StatInputsDone, history
    <3> QED BY <1>1, <1>2, <1>3, <3>1 DEF Looking
  <2>2. CASE ~HasInfo(view[b], b)
    BY <1>5, <1>10, <2>2 DEF StatInputsDone, Outdated, Leave
  <2> QED BY <2>1, <2>2
<1>11. ASSUME NEW f \in File, StatOutputTime(b, f)
       PROVE  Looking(b)'
  <2>1. CASE Exists(f) /\ ~OutputChanged(view[b], b, f)
    <3>1. /\ stage'[b] = "outs" /\ stage[b] = "outs" /\ view'[b] = view[b]
          /\ todo'[b] = todo[b] \ {f} /\ sound'[b] = sound[b]
      BY <1>1, <1>11, <2>1 DEF StatOutputTime, NextFile, history
    <3>2. f \in Outs(b) => f \in AsRecorded(view[b], b)
      BY <2>1 DEF AsRecorded
    <3> QED BY <1>1, <1>2, <1>3, <3>1, <3>2 DEF Looking
  <2>2. CASE ~Exists(f) \/ OutputChanged(view[b], b, f)
    BY <1>5, <1>11, <2>2 DEF StatOutputTime, Verdict, Outdated, Leave
  <2> QED BY <2>1, <2>2
<1>12. CASE StatDone(b)
  BY <1>5, <1>12 DEF StatDone, Verdict, Outdated, Leave
<1> QED BY <1>7, <1>8, <1>9, <1>10, <1>11, <1>12 DEF StatNode

\* All other steps.
LEMMA ElsewhereStep ==
  ASSUME World, Places, LInv, NEW b \in DOMAIN manifest, [INext]_ivars
  PROVE  StatNode(b) \/ Elsewhere(b)
<1> USE DEF Elsewhere, LInv, Places, Tables
<1>1. b \in BuildId /\ DOMAIN manifest \subseteq BuildId
  BY ScenarioManifests
<1>2. CASE \/ \E S \in SUBSET BuildId : WantTargets(S)
           \/ Caller
           \/ \E f \in Used : Edit(f) \/ Remove(f)
           \/ UNCHANGED ivars
  BY <1>2 DEF WantTargets, Caller, Edit, Remove, ivars, local, env, history
<1>3. ASSUME NEW c \in DOMAIN manifest, Spawn(c)
      PROVE  Elsewhere(b)
  BY <1>1, <1>3 DEF Spawn, env, history
<1>4. ASSUME NEW c \in DOMAIN manifest, c # b, StatNode(c)
      PROVE  Elsewhere(b)
  <2>1. CASE BeginRead(c)
    BY <1>1, <1>4, <2>1 DEF BeginRead, env
  <2>2. ASSUME NEW s, Leave(c, s)
        PROVE  Elsewhere(b)
    BY <1>1, <1>4, <2>2 DEF Leave, env
  <2>3. ASSUME NEW f, LookAt(c, f) \/ NextFile(c, f)
        PROVE  Elsewhere(b)
    BY <1>1, <1>4, <2>3 DEF LookAt, NextFile, env, history
  <2>4. CASE StatInputsDone(c)
    BY <1>1, <1>4, <2>2, <2>4 DEF StatInputsDone, Outdated, env, history
  <2>5. ASSUME NEW f \in File,
               \/ StatInput(c, f) \/ StatInputTime(c, f)
               \/ StatOutput(c, f) \/ StatOutputTime(c, f)
        PROVE  Elsewhere(b)
    BY <2>2, <2>3, <2>5
       DEF StatInput, StatInputTime, StatOutput, StatOutputTime, Verdict, Outdated
  <2>6. CASE StatDone(c)
    BY <2>2, <2>6 DEF StatDone, Verdict, Outdated
  <2> QED BY <1>4, <2>1, <2>4, <2>5, <2>6 DEF StatNode
<1>5. ASSUME NEW c \in DOMAIN manifest, Execute(c)
      PROVE  Elsewhere(b)
  <2>1. /\ UNCHANGED <<manifest, view, todo, sound>>
        /\ \E s \in {"read", "partial", "written", "broken", "none"} \cup Results :
             stage' = [stage EXCEPT ![c] = s]
    BY <1>5 DEF Execute, CommandReads, CommandWritesPart, CommandSucceeds, CommandFails,
                CallbackPanics, PhonySucceeds, WriteBuild, InvalidateBuild, Send, Goto,
                env, history, Results, Successful
  <2> QED BY <1>1, <2>1 DEF Results, Successful
<1>6. CASE Finish \/ Kill
  <2>1. \E m : InitProcess(m)
    BY <1>6 DEF Finish, Kill, NewSession
  <2> QED BY <1>1, <2>1 DEF InitProcess
<1> QED BY <1>2, <1>3, <1>4, <1>5, <1>6 DEF INext

LEMMA LInvStep ==
  ASSUME World, World', Times, Places, LInv, [INext]_ivars
  PROVE  LInv'
<1> USE DEF local, env, history
<1>1. view' = [b \in BuildId |-> view'[b]] /\ sound' = [b \in BuildId |-> sound'[b]]
  <2> USE DEF LInv
  <2>1. CASE \/ \E S \in SUBSET BuildId : WantTargets(S)
             \/ Caller
             \/ \E b \in DOMAIN manifest : Spawn(b) \/ Execute(b)
             \/ \E f \in Used : Edit(f) \/ Remove(f)
             \/ UNCHANGED ivars
    <3>1. UNCHANGED <<view, sound>>
      BY <2>1
         DEF WantTargets, Caller, Spawn, Edit, Remove, ivars, Execute, CommandReads,
             CommandWritesPart, CommandSucceeds, CommandFails, CallbackPanics,
             PhonySucceeds, WriteBuild, InvalidateBuild, Send
    <3> QED BY <3>1
  <2>2. ASSUME NEW b \in DOMAIN manifest, StatNode(b)
        PROVE  <1>1
    BY <2>2
       DEF StatNode, BeginRead, StatInput, StatInputTime, StatInputsDone, StatOutput,
           StatOutputTime, StatDone, Verdict, Outdated, Leave, LookAt, NextFile
  <2>3. CASE Finish \/ Kill
    BY <2>3 DEF Finish, Kill, NewSession, InitProcess
  <2> QED BY <2>1, <2>2, <2>3 DEF INext
<1>2. ASSUME ~scenario'.coarse, NEW b \in DOMAIN manifest'
      PROVE  Looking(b)'
  <2>1. CASE Finish \/ Kill
    <3>1. (\E m : InitProcess(m)) /\ b \in BuildId
      BY <2>1, ScenariosAssumption DEF Finish, Kill, NewSession, World, IsManifest
    <3>2. stage'[b] = "none"
      BY <3>1 DEF InitProcess
    <3> QED BY <3>2 DEF Looking
  <2>2. CASE ~Finish /\ ~Kill
    <3>1. UNCHANGED <<scenario, manifest>>
      <4>1. ASSUME NEW c \in DOMAIN manifest, StatNode(c)
            PROVE  <3>1
        BY <4>1
           DEF StatNode, BeginRead, StatInput, StatInputTime, StatInputsDone, StatOutput,
               StatOutputTime, StatDone, Verdict, Outdated, Leave, LookAt, NextFile
      <4>2. ASSUME NEW c \in DOMAIN manifest, Execute(c)
            PROVE  <3>1
        BY <4>2
           DEF Execute, CommandReads, CommandWritesPart, CommandSucceeds, CommandFails,
               CallbackPanics, PhonySucceeds, WriteBuild, InvalidateBuild, Send
      <4>3. CASE \/ \E S \in SUBSET BuildId : WantTargets(S)
                 \/ Caller
                 \/ \E c \in DOMAIN manifest : Spawn(c)
                 \/ \E f \in Used : Edit(f) \/ Remove(f)
                 \/ UNCHANGED ivars
        BY <4>3 DEF WantTargets, Caller, Spawn, Edit, Remove, ivars
      <4> QED BY <2>2, <4>1, <4>2, <4>3 DEF INext
    <3>2. ~scenario.coarse /\ b \in DOMAIN manifest /\ Looking(b)
      BY <3>1, <1>2 DEF LInv
    <3>3. TimeGoesOn
      BY <3>2, TimeGoesOnStep
    <3>4. StatNode(b) \/ Elsewhere(b)
      BY <3>2, ElsewhereStep
    <3> QED BY <3>2, <3>3, <3>4, OwnLook, LookingStill DEF Places
  <2> QED BY <2>1, <2>2
<1> QED BY <1>1, <1>2 DEF LInv

\* Whoever writes, edits, removes or records while stat_node looks from one file
\* to the next: it finds a build up to date only if all its inputs and outputs
\* were as recorded at the moment its read transaction began.
THEOREM StatLooksAtOnce == ISpec => LooksAtOnce
<1>1. IInit => LInv
  <2> SUFFICES ASSUME IInit
               PROVE  LInv
    OBVIOUS
  <2>1. DOMAIN manifest \subseteq BuildId
    BY ScenariosAssumption DEF IInit, IsManifest
  <2> QED BY <2>1 DEF IInit, LInv, Looking
<1>2. /\ World /\ World' /\ Times /\ Places /\ LInv /\ [INext]_ivars => LInv'
  BY LInvStep
<1>3. World /\ Places /\ LInv /\ [INext]_ivars =>
        \A b \in DOMAIN manifest :
          stage[b] = "outs" /\ stage'[b] = "UpToDate" /\ ~scenario.coarse
          => Ins(b) \cup Outs(b) \subseteq sound[b]
  <2> SUFFICES ASSUME World, Places, LInv, [INext]_ivars, NEW b \in DOMAIN manifest,
                      stage[b] = "outs", stage'[b] = "UpToDate", ~scenario.coarse
               PROVE  Ins(b) \cup Outs(b) \subseteq sound[b]
    OBVIOUS
  <2>1. /\ b \in BuildId /\ Looking(b) /\ stage = [d \in BuildId |-> stage[d]]
        /\ DOMAIN manifest \subseteq BuildId
    BY ScenarioManifests DEF LInv, World
  <2>2. StatNode(b)
    <3>1. stage' # stage
      BY <2>1
    <3>2. ASSUME NEW c \in DOMAIN manifest, Spawn(c) \/ Execute(c)
          PROVE  FALSE
      BY <2>1, <3>2
         DEF Spawn, Execute, CommandReads, CommandWritesPart, CommandSucceeds, CommandFails,
             CallbackPanics, PhonySucceeds, WriteBuild, InvalidateBuild, Send, Goto, At,
             Results, Successful
    <3>3. ASSUME NEW c \in DOMAIN manifest, StatNode(c)
          PROVE  c = b
      BY <2>1, <3>3, StatNodeMoves DEF Moved
    <3>4. ASSUME Finish \/ Kill
          PROVE  FALSE
      BY <2>1, <3>4 DEF Finish, Kill, NewSession, InitProcess
    <3> QED BY <3>1, <3>2, <3>3, <3>4
            DEF INext, WantTargets, Caller, Edit, Remove, ivars, local
  <2>3. todo[b] = {}
    BY <2>1, <2>2
       DEF StatNode, BeginRead, StatInput, StatInputTime, StatInputsDone, StatOutput,
           StatOutputTime, StatDone, Verdict, Outdated, Leave, LookAt, NextFile
  <2> QED BY <2>1, <2>3 DEF Looking
<1>4. IInit => Times /\ Places
  BY DEF IInit, Init, Times, Dated, EmptyDb, Places, Tables, Placed, Stages, Live
<1>5. VInv => World
  BY DEF VInv
<1>6. World /\ IInv /\ (Times /\ Places) /\ [INext]_ivars => (Times /\ Places)'
  BY TimesStep, PlacesStep
<1> QED BY <1>1, <1>2, <1>3, <1>4, <1>5, <1>6, VInvariance, SessionsKeepInvariance, PTL
       DEF ISpec, LooksAtOnce
===============================================================================
