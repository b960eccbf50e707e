--------------------------- MODULE NinjaGraphProof ---------------------------
(***************************************************************************)
(* Theorems about NinjaGraph, for every set of builds and names, every set *)
(* of parsed files and every command line.                                 *)
(***************************************************************************)
EXTENDS NinjaGraph, Naturals, TLAPS

-----------------------------------------------------------------------------
(* What a walk over phony names reaches.                                   *)

\* A walk reaches where it starts, is closed, and stays among the names.
LEMMA WalkCloses ==
  ASSUME NEW g, NEW S \in SUBSET Name
  PROVE  /\ S \subseteq Names!Reach(g, S)
         /\ Names!Reach(g, S) \subseteq Name
         /\ \A n \in Names!Reach(g, S) :
              g[n] \subseteq Name => g[n] \subseteq Names!Reach(g, S)
BY DEF Names!Reach, Names!DepClosed, Names!build_dependencies

\* It reaches no more than any closed set that contains its start.
LEMMA WalkIsLeast ==
  ASSUME NEW g, NEW S \in SUBSET Name, NEW T \in SUBSET Name,
         S \subseteq T, \A n \in T : g[n] \subseteq T
  PROVE  Names!Reach(g, S) \subseteq T
BY DEF Names!Reach, Names!DepClosed, Names!build_dependencies

\* What phony names list are names.
LEMMA PhonyLists ==
  ASSUME file \in NinjaFiles
  PROVE  /\ Phonies \subseteq Name
         /\ \A n \in Name :
              /\ PhonyIns[n] \subseteq Name /\ PhonyAll[n] \subseteq Name
              /\ PhonyIns[n] \subseteq PhonyAll[n]
              /\ n \in Phonies =>
                   /\ file.phony[n].order_only \subseteq Name
                   /\ PhonyAll[n] = PhonyIns[n] \cup file.phony[n].order_only
              /\ n \notin Phonies => PhonyIns[n] = {} /\ PhonyAll[n] = {}
BY NinjaFilesAssumption DEF Phonies, PhonyIns, PhonyAll, PhonyBuild

\* All that statements mention are names, and none of it is phony.
LEMMA StatementNames ==
  ASSUME file \in NinjaFiles, NEW b \in BuildId
  PROVE  /\ file.builds[b].ins \subseteq Name
         /\ file.builds[b].order_only \subseteq Name
         /\ file.builds[b].outs \subseteq Name
         /\ Outs(b) \subseteq Name \ Phonies
         /\ Reads(b) \subseteq Name
BY NinjaFilesAssumption
   DEF Statement, Outs, Reads, Ins, OrderOnly, Desugared, DesugaredIns,
       DesugaredOrderOnly, Names!Reach

\* The file does not change, so neither does what its statements stand for.
LEMMA SameFile ==
  ASSUME file' = file
  PROVE  \A b : Outs(b)' = Outs(b) /\ Reads(b)' = Reads(b)
BY DEF Outs, Reads, Ins, OrderOnly, Desugared, DesugaredIns, DesugaredOrderOnly,
       PhonyIns, PhonyAll, Phonies, Names!Reach
-----------------------------------------------------------------------------
(* The inductive invariant.                                                *)

\* build_out_files has the outputs of the translated builds, each with one of
\* its producers.
AnnouncedExact ==
  /\ DOMAIN build_out_files = UNION {Outs(p) : p \in translated}
  /\ \A f \in DOMAIN build_out_files :
       build_out_files[f] \in translated /\ f \in Outs(build_out_files[f])

\* Every edge is between translated builds and leads to a producer.
EdgesSound ==
  \A b \in BuildId :
    /\ deps[b] \subseteq translated
    /\ b \notin translated => deps[b] = {}
    /\ \A p \in deps[b] : Outs(p) \cap Reads(b) # {}

\* The targets are looked at only when the graph was accepted, and it is
\* rejected only for a cycle.
AcceptedFirst ==
  stage \notin {"converting", "aborted"} =>
    translated = BuildId /\ (Acyclic(deps) <=> stage # "ContainsCycle")

\* "No matching builds" is said when some were asked for and none was found.
RefusedFirst ==
  stage \in {"resolved", "NoMatchingBuilds"} =>
    (stage = "NoMatchingBuilds" <=> wanted = {} /\ targets # {})

\* The names add_target_rec was first called with.
Asked == IF targets = {} THEN file.defaults ELSE targets

\* add_target_rec has nothing more to do for n.
Settled(n) ==
  IF n \in DOMAIN build_out_files THEN build_out_files[n] \in wanted
  ELSE n \in Phonies => n \in phony_visited

\* While targets are resolved: what was asked for, and what the phony targets
\* met so far list, is settled or still to do, and nothing else was met.
ResolutionExact ==
  stage \in {"resolving", "resolved", "NoMatchingBuilds"} =>
    IF Asked = {} THEN todo = {} /\ wanted = BuildId
    ELSE /\ \A n \in Asked \cup UNION {PhonyAll[p] : p \in phony_visited} :
              n \in todo \/ Settled(n)
         /\ todo \cup phony_visited \subseteq Names!Reach(PhonyAll, Asked)
         /\ \A b \in wanted :
              \E n \in Names!Reach(PhonyAll, Asked) \cap DOMAIN build_out_files :
                b = build_out_files[n]
         /\ stage # "resolving" => todo = {}

\* No phony target is met before targets are resolved.
EmptyVisited ==
  stage \notin {"resolving", "resolved", "NoMatchingBuilds"} => phony_visited = {}

NGInv ==
  /\ TypeOK
  /\ EmptyVisited
  /\ AnnouncedExact
  /\ PendingInputsExact
  /\ EdgesSound
  /\ NoInputForgotten
  /\ AcceptedFirst
  /\ RefusedFirst
  /\ ResolutionExact

LEMMA InitNG == Init => NGInv
<1> SUFFICES ASSUME Init
             PROVE  NGInv
  OBVIOUS
<1>1. TypeOK
  BY DEF Init, TypeOK, BuildGraphs, Stages
<1>2. AnnouncedExact /\ PendingInputsExact /\ EdgesSound /\ NoInputForgotten
  BY DEF Init, AnnouncedExact, PendingInputsExact, EdgesSound, NoInputForgotten
<1>3. AcceptedFirst /\ RefusedFirst /\ ResolutionExact /\ EmptyVisited
  BY DEF Init, AcceptedFirst, RefusedFirst, ResolutionExact, EmptyVisited
<1> QED BY <1>1, <1>2, <1>3 DEF NGInv

-----------------------------------------------------------------------------
(* translate_build.                                                        *)

\* What translate_build changes, in terms of the sets of names.
LEMMA TranslateStep ==
  ASSUME NGInv, NEW b \in BuildId, TranslateBuild(b)
  PROVE  /\ file' = file /\ stage = "converting" /\ stage' = stage
         /\ UNCHANGED resolution
         /\ b \notin translated /\ translated' = translated \cup {b}
         /\ DOMAIN build_out_files' = DOMAIN build_out_files \cup Outs(b)
         /\ \A f \in DOMAIN build_out_files' :
              build_out_files'[f] =
                IF f \in Outs(b) THEN b ELSE build_out_files[f]
         /\ \A c \in BuildId :
              deps'[c] = deps[c] \cup (IF c \in WaitingFor(b) THEN {b} ELSE {})
                                \cup (IF c = b THEN Producers(b) ELSE {})
         /\ Producers(b) =
              {build_out_files'[f] : f \in Reads(b) \cap DOMAIN build_out_files'}
         /\ deps' \in [BuildId -> SUBSET BuildId]
<1>1. build_out_files' = Announced(b)
  BY DEF TranslateBuild
<1>2. /\ DOMAIN build_out_files' = DOMAIN build_out_files \cup Outs(b)
      /\ \A f \in DOMAIN build_out_files' :
           build_out_files'[f] = IF f \in Outs(b) THEN b ELSE build_out_files[f]
  BY <1>1 DEF Announced
<1>3. Producers(b) =
        {build_out_files'[f] : f \in Reads(b) \cap DOMAIN build_out_files'}
  BY <1>1 DEF Producers
<1>4. Producers(b) \subseteq BuildId
  BY <1>2, <1>3 DEF NGInv, TypeOK
<1>5. deps' = [c \in BuildId |->
                deps[c] \cup (IF c \in WaitingFor(b) THEN {b} ELSE {})
                        \cup (IF c = b THEN Producers(b) ELSE {})]
  BY DEF TranslateBuild
<1>6. deps \in [BuildId -> SUBSET BuildId]
  BY DEF NGInv, TypeOK, BuildGraphs
<1>7. deps' \in [BuildId -> SUBSET BuildId]
  BY <1>4, <1>5, <1>6
<1> QED BY <1>2, <1>3, <1>5, <1>7 DEF TranslateBuild

\* Who waits for an output of b: the translated builds that read one nobody has
\* announced.
LEMMA WaitingExact ==
  ASSUME NGInv, NEW b \in BuildId
  PROVE  WaitingFor(b) =
           {c \in translated : \E f \in Outs(b) \ DOMAIN build_out_files :
                                 f \in Reads(c)}
<1>1. Outs(b) \subseteq Name
  BY StatementNames DEF NGInv, TypeOK
<1>2. \A f \in Name \ DOMAIN build_out_files :
        {c \in translated : f \in Reads(c)} =
          IF f \in DOMAIN pending_inputs THEN pending_inputs[f] ELSE {}
  BY DEF NGInv, PendingInputsExact
<1>3. DOMAIN pending_inputs \cap DOMAIN build_out_files = {}
  BY DEF NGInv, TypeOK
<1> QED BY <1>1, <1>2, <1>3 DEF WaitingFor

\* A translated build's edges lead to producers it has, old and new.
LEMMA TranslateInv ==
  ASSUME NGInv, NEW b \in BuildId, TranslateBuild(b)
  PROVE  NGInv'
<1>1. /\ file' = file /\ stage = "converting" /\ stage' = stage
      /\ UNCHANGED resolution
      /\ b \notin translated /\ translated' = translated \cup {b}
      /\ DOMAIN build_out_files' = DOMAIN build_out_files \cup Outs(b)
      /\ \A f \in DOMAIN build_out_files' :
           build_out_files'[f] = IF f \in Outs(b) THEN b ELSE build_out_files[f]
      /\ \A c \in BuildId :
           deps'[c] = deps[c] \cup (IF c \in WaitingFor(b) THEN {b} ELSE {})
                             \cup (IF c = b THEN Producers(b) ELSE {})
      /\ Producers(b) =
           {build_out_files'[f] : f \in Reads(b) \cap DOMAIN build_out_files'}
      /\ deps' \in [BuildId -> SUBSET BuildId]
  BY TranslateStep
<1>2. \A c : Outs(c)' = Outs(c) /\ Reads(c)' = Reads(c)
  BY <1>1, SameFile
<1>3. /\ file \in NinjaFiles /\ translated \subseteq BuildId
      /\ \A c \in BuildId : Outs(c) \subseteq Name /\ Reads(c) \subseteq Name
  BY StatementNames DEF NGInv, TypeOK
<1>4. AnnouncedExact'
  <2>1. DOMAIN build_out_files' = UNION {Outs(p) : p \in translated'}
    BY <1>1 DEF NGInv, AnnouncedExact
  <2>2. \A f \in DOMAIN build_out_files' :
          build_out_files'[f] \in translated' /\ f \in Outs(build_out_files'[f])
    BY <1>1 DEF NGInv, AnnouncedExact
  <2> QED BY <2>1, <2>2, <1>2 DEF AnnouncedExact
<1>5. WaitingFor(b) =
        {c \in translated : \E f \in Outs(b) \ DOMAIN build_out_files :
                              f \in Reads(c)}
  BY WaitingExact
<1>6. /\ DOMAIN pending_inputs' =
           (DOMAIN pending_inputs \ Outs(b))
             \cup (Reads(b) \ DOMAIN build_out_files')
      /\ \A f \in DOMAIN pending_inputs' :
           pending_inputs'[f] =
             (IF f \in DOMAIN pending_inputs \ Outs(b) THEN pending_inputs[f] ELSE {})
             \cup (IF f \in Reads(b) \ DOMAIN build_out_files' THEN {b} ELSE {})
  <2>1. pending_inputs' = StillPending(b) /\ build_out_files' = Announced(b)
    BY DEF TranslateBuild
  <2> QED BY <2>1 DEF StillPending
<1>7. TypeOK'
  <2>1. /\ DOMAIN pending_inputs \subseteq Name
        /\ \A f \in DOMAIN pending_inputs :
             pending_inputs[f] \subseteq BuildId /\ pending_inputs[f] # {}
        /\ DOMAIN pending_inputs \cap DOMAIN build_out_files = {}
        /\ DOMAIN build_out_files \subseteq Name
        /\ \A f \in DOMAIN build_out_files : build_out_files[f] \in BuildId
    BY DEF NGInv, TypeOK
  <2>2. /\ DOMAIN pending_inputs' \subseteq Name
        /\ \A f \in DOMAIN pending_inputs' :
             pending_inputs'[f] \in (SUBSET BuildId) \ {{}}
        /\ DOMAIN pending_inputs' \cap DOMAIN build_out_files' = {}
        /\ DOMAIN build_out_files' \subseteq Name
        /\ \A f \in DOMAIN build_out_files' : build_out_files'[f] \in BuildId
    BY <2>1, <1>1, <1>3, <1>6
  <2>3. /\ pending_inputs' = [f \in DOMAIN pending_inputs' |-> pending_inputs'[f]]
        /\ build_out_files' = [f \in DOMAIN build_out_files' |-> build_out_files'[f]]
    BY DEF TranslateBuild, StillPending, Announced
  <2>4. /\ pending_inputs' \in [DOMAIN pending_inputs' -> (SUBSET BuildId) \ {{}}]
        /\ build_out_files' \in [DOMAIN build_out_files' -> BuildId]
    BY <2>2, <2>3
  <2>5. Phonies' = Phonies
    BY <1>1 DEF Phonies
  <2> QED BY <2>2, <2>4, <2>5, <1>1, <1>3
          DEF NGInv, TypeOK, BuildGraphs, resolution, Stages
<1>8. PendingInputsExact'
  <2> SUFFICES ASSUME NEW f \in Name \ DOMAIN build_out_files'
               PROVE  {c \in translated' : f \in Reads(c)} =
                        IF f \in DOMAIN pending_inputs' THEN pending_inputs'[f] ELSE {}
    BY <1>2 DEF PendingInputsExact
  <2>1. {c \in translated : f \in Reads(c)} =
          IF f \in DOMAIN pending_inputs THEN pending_inputs[f] ELSE {}
    BY <1>1 DEF NGInv, PendingInputsExact
  <2>2. f \notin Outs(b)
    BY <1>1
  <2> QED BY <2>1, <2>2, <1>1, <1>6
<1>9. EdgesSound'
  <2> SUFFICES ASSUME NEW c \in BuildId
               PROVE  /\ deps'[c] \subseteq translated'
                      /\ c \notin translated' => deps'[c] = {}
                      /\ \A p \in deps'[c] : Outs(p) \cap Reads(c) # {}
    BY <1>2 DEF EdgesSound
  <2>1. /\ deps[c] \subseteq translated
        /\ c \notin translated => deps[c] = {}
        /\ \A p \in deps[c] : Outs(p) \cap Reads(c) # {}
    BY DEF NGInv, EdgesSound
  <2>2. c \in WaitingFor(b) => c \in translated /\ Outs(b) \cap Reads(c) # {}
    BY <1>5
  <2>3. \A p \in Producers(b) : p \in translated' /\ Outs(p) \cap Reads(b) # {}
    BY <1>1, <1>2, <1>4 DEF AnnouncedExact
  <2> QED BY <2>1, <2>2, <2>3, <1>1
<1>10. NoInputForgotten'
  <2> SUFFICES ASSUME NEW c \in translated', NEW f \in Reads(c),
                      NEW p \in translated', f \in Outs(p)
               PROVE  \E q \in deps'[c] : f \in Outs(q)
    BY <1>2 DEF NoInputForgotten
  <2>1. f \in DOMAIN build_out_files' /\ c \in BuildId
    BY <1>1, <1>2, <1>3, <1>4 DEF AnnouncedExact
  <2>2. CASE c = b
    <3>1. build_out_files'[f] \in Producers(b) /\ f \in Outs(build_out_files'[f])
      BY <2>1, <2>2, <1>1, <1>2, <1>4 DEF AnnouncedExact
    <3> QED BY <3>1, <2>2, <1>1
  <2>3. CASE c # b /\ \E o \in translated : f \in Outs(o)
    <3>1. \E q \in deps[c] : f \in Outs(q)
      BY <2>3, <1>1 DEF NGInv, NoInputForgotten
    <3> QED BY <3>1, <2>1, <1>1
  <2>4. CASE c # b /\ ~\E o \in translated : f \in Outs(o)
    <3>1. f \in Outs(b) /\ f \notin DOMAIN build_out_files
      BY <2>4, <1>1 DEF NGInv, AnnouncedExact
    <3>2. c \in WaitingFor(b)
      BY <3>1, <2>4, <1>1, <1>5
    <3> QED BY <3>1, <3>2, <2>1, <1>1
  <2> QED BY <2>2, <2>3, <2>4
<1>11. AcceptedFirst' /\ RefusedFirst' /\ ResolutionExact' /\ EmptyVisited'
  BY <1>1 DEF NGInv, AcceptedFirst, RefusedFirst, ResolutionExact, EmptyVisited, resolution
<1> QED BY <1>4, <1>7, <1>8, <1>9, <1>10, <1>11 DEF NGInv

-----------------------------------------------------------------------------
(* The other steps.                                                        *)

\* Nothing but the stage and the resolution changes.
LEMMA SameTranslation ==
  ASSUME NGInv, UNCHANGED <<file, cx>>
  PROVE  /\ AnnouncedExact' /\ PendingInputsExact' /\ EdgesSound'
         /\ NoInputForgotten'
         /\ Phonies' = Phonies /\ PhonyAll' = PhonyAll
<1>1. \A c : Outs(c)' = Outs(c) /\ Reads(c)' = Reads(c)
  BY SameFile
<1>2. Phonies' = Phonies /\ PhonyAll' = PhonyAll
  BY DEF Phonies, PhonyAll
<1> QED BY <1>1, <1>2
        DEF NGInv, cx, AnnouncedExact, PendingInputsExact, EdgesSound, NoInputForgotten

LEMMA StageInv ==
  ASSUME NGInv,
         (\E b \in BuildId : Overflow(b)) \/ BuildTheGraph
  PROVE  NGInv'
<1>1. /\ UNCHANGED <<file, cx, resolution>>
      /\ stage' \in {"aborted", "converted", "ContainsCycle"}
      /\ stage' # "aborted" =>
           translated = BuildId /\ (Acyclic(deps) <=> stage' # "ContainsCycle")
  BY DEF Overflow, BuildTheGraph
<1>2. /\ AnnouncedExact' /\ PendingInputsExact' /\ EdgesSound'
      /\ NoInputForgotten' /\ Phonies' = Phonies
  BY <1>1, SameTranslation
<1>3. TypeOK'
  BY <1>1, <1>2 DEF NGInv, TypeOK, cx, resolution, Stages
<1>4. AcceptedFirst' /\ RefusedFirst' /\ ResolutionExact'
  BY <1>1 DEF AcceptedFirst, RefusedFirst, ResolutionExact, cx
<1>5. EmptyVisited'
  BY <1>1 DEF Overflow, BuildTheGraph, NGInv, EmptyVisited, resolution
<1> QED BY <1>2, <1>3, <1>4, <1>5 DEF NGInv

LEMMA ResolveInv ==
  ASSUME NGInv, NEW T \in TargetLists, ResolveTargets(T)
  PROVE  NGInv'
<1>1. /\ UNCHANGED <<file, cx, phony_visited>> /\ stage = "converted"
      /\ stage' = "resolving" /\ targets' = T /\ T \subseteq Name
      /\ todo' = IF T = {} THEN file.defaults ELSE T
      /\ wanted' = IF T = {} /\ file.defaults = {} THEN BuildId ELSE {}
      /\ file \in NinjaFiles
  BY TargetListsAssumption DEF ResolveTargets, NGInv, TypeOK
<1>2. /\ AnnouncedExact' /\ PendingInputsExact' /\ EdgesSound'
      /\ NoInputForgotten' /\ Phonies' = Phonies /\ PhonyAll' = PhonyAll
  BY <1>1, SameTranslation
<1>3. todo' \subseteq Name /\ Asked' = todo'
  BY <1>1, NinjaFilesAssumption DEF Asked
<1>4. TypeOK'
  BY <1>1, <1>2, <1>3 DEF NGInv, TypeOK, cx, Stages
<1>5. AcceptedFirst' /\ RefusedFirst'
  BY <1>1 DEF NGInv, AcceptedFirst, RefusedFirst, cx
<1>6. phony_visited = {}
  BY <1>1 DEF NGInv, EmptyVisited
<1>7. ResolutionExact'
  <2>1. todo' \subseteq Names!Reach(PhonyAll', Asked')
    BY <1>3, WalkCloses
  <2>2. /\ wanted' = IF Asked' = {} THEN BuildId ELSE {}
        /\ stage' = "resolving" /\ phony_visited' = {}
    BY <1>1, <1>3, <1>6
  <2> HIDE DEF Asked
  <2> QED BY <2>1, <2>2, <1>3 DEF ResolutionExact
<1>8. EmptyVisited'
  BY <1>1 DEF EmptyVisited
<1> QED BY <1>2, <1>4, <1>5, <1>7, <1>8 DEF NGInv

\* add_target_rec settles one name, and what a phony name lists is to do.
LEMMA AddTargetInv ==
  ASSUME NGInv, NEW n \in Name, AddTarget(n)
  PROVE  NGInv'
<1>1. /\ UNCHANGED <<file, cx, targets>> /\ stage = "resolving" /\ stage' = stage
      /\ n \in todo /\ file \in NinjaFiles
  BY DEF AddTarget, NGInv, TypeOK
<1>2. /\ AnnouncedExact' /\ PendingInputsExact' /\ EdgesSound'
      /\ NoInputForgotten' /\ Phonies' = Phonies /\ PhonyAll' = PhonyAll
  BY <1>1, SameTranslation
<1>3. PhonyAll[n] \subseteq Name /\ Asked \subseteq Name
  BY <1>1, PhonyLists, NinjaFilesAssumption DEF NGInv, TypeOK, Asked
<1>4. Asked' = Asked
  BY <1>1 DEF Asked
<1>5. /\ Asked # {}
      /\ \A m \in Asked \cup UNION {PhonyAll[p] : p \in phony_visited} :
           m \in todo \/ Settled(m)
      /\ todo \cup phony_visited \subseteq Names!Reach(PhonyAll, Asked)
      /\ \A b \in wanted :
           \E m \in Names!Reach(PhonyAll, Asked) \cap DOMAIN build_out_files :
             b = build_out_files[m]
  BY <1>1 DEF NGInv, ResolutionExact
<1>6. PhonyAll[n] \subseteq Names!Reach(PhonyAll, Asked)
  BY <1>1, <1>3, <1>5, WalkCloses
<1>7. /\ todo \ {n} \subseteq todo' /\ todo' \subseteq (todo \ {n}) \cup PhonyAll[n]
      /\ phony_visited \subseteq phony_visited'
      /\ phony_visited' \subseteq phony_visited \cup ({n} \cap Phonies)
      /\ n \in phony_visited' => n \in phony_visited \/ PhonyAll[n] \subseteq todo'
      /\ wanted \subseteq wanted'
      /\ \A b \in wanted' : \/ b \in wanted
                            \/ n \in DOMAIN build_out_files /\ b = build_out_files[n]
      /\ IF n \in DOMAIN build_out_files THEN build_out_files[n] \in wanted'
         ELSE n \in Phonies => n \in phony_visited'
  BY <1>1 DEF AddTarget, FirstVisit, Expanded
<1>8. TypeOK'
  BY <1>1, <1>2, <1>3, <1>7 DEF NGInv, TypeOK, cx
<1>9. AcceptedFirst' /\ RefusedFirst' /\ EmptyVisited'
  BY <1>1 DEF NGInv, AcceptedFirst, RefusedFirst, EmptyVisited, cx
<1>10. \A m : Settled(m) \/ m = n => Settled(m)'
  BY <1>1, <1>2, <1>7 DEF Settled, cx
<1>11. \A m \in Asked \cup UNION {PhonyAll[p] : p \in phony_visited'} :
         m \in todo' \/ Settled(m)'
  BY <1>5, <1>7, <1>10
<1>12. todo' \cup phony_visited' \subseteq Names!Reach(PhonyAll, Asked)
  BY <1>1, <1>5, <1>6, <1>7
<1>13. \A b \in wanted' :
         \E m \in Names!Reach(PhonyAll, Asked) \cap DOMAIN build_out_files :
           b = build_out_files[m]
  BY <1>1, <1>5, <1>7
<1>14. ResolutionExact'
  <2>1. build_out_files' = build_out_files /\ stage' = "resolving"
    BY <1>1 DEF cx
  <2>2. Names!Reach(PhonyAll, Asked)' = Names!Reach(PhonyAll, Asked)
    BY <1>2, <1>4 DEF Names!Reach, Names!DepClosed, Names!build_dependencies
  <2> HIDE DEF Asked, Settled
  <2> QED BY <2>1, <2>2, <1>2, <1>4, <1>5, <1>11, <1>12, <1>13 DEF ResolutionExact
<1> QED BY <1>2, <1>8, <1>9, <1>14 DEF NGInv

\* The answer is given when nothing is left to do.
LEMMA TargetsResolvedInv ==
  ASSUME NGInv, TargetsResolved
  PROVE  NGInv'
<1>1. /\ UNCHANGED <<file, cx, resolution>>
      /\ stage = "resolving" /\ todo = {}
      /\ stage' = IF wanted = {} /\ targets # {} THEN "NoMatchingBuilds" ELSE "resolved"
  BY DEF TargetsResolved
<1>2. /\ AnnouncedExact' /\ PendingInputsExact' /\ EdgesSound'
      /\ NoInputForgotten' /\ Phonies' = Phonies /\ PhonyAll' = PhonyAll
  BY <1>1, SameTranslation
<1>3. TypeOK'
  BY <1>1, <1>2 DEF NGInv, TypeOK, cx, resolution, Stages
<1>4. AcceptedFirst' /\ RefusedFirst' /\ EmptyVisited'
  BY <1>1 DEF NGInv, AcceptedFirst, RefusedFirst, EmptyVisited, cx, resolution
<1>5. ResolutionExact'
  <2>1. /\ build_out_files' = build_out_files /\ todo' = todo /\ wanted' = wanted
        /\ phony_visited' = phony_visited /\ Asked' = Asked
    BY <1>1 DEF cx, resolution, Asked
  <2>2. \A m : Settled(m)' = Settled(m)
    BY <2>1, <1>2 DEF Settled
  <2>3. Names!Reach(PhonyAll, Asked)' = Names!Reach(PhonyAll, Asked)
    BY <2>1, <1>2 DEF Names!Reach, Names!DepClosed, Names!build_dependencies
  <2> HIDE DEF Asked, Settled
  <2> QED BY <2>1, <2>2, <2>3, <1>1, <1>2 DEF NGInv, ResolutionExact
<1> QED BY <1>2, <1>3, <1>4, <1>5 DEF NGInv

LEMMA StutterNG ==
  ASSUME NGInv, UNCHANGED vars
  PROVE  NGInv'
<1>1. UNCHANGED <<file, cx, stage, resolution>>
  BY DEF vars
<1>2. /\ AnnouncedExact' /\ PendingInputsExact' /\ EdgesSound'
      /\ NoInputForgotten' /\ Phonies' = Phonies /\ PhonyAll' = PhonyAll
  BY <1>1, SameTranslation
<1>3. TypeOK' /\ AcceptedFirst' /\ RefusedFirst' /\ EmptyVisited'
  BY <1>1, <1>2
     DEF NGInv, TypeOK, AcceptedFirst, RefusedFirst, EmptyVisited, cx, resolution
<1>4. ResolutionExact'
  <2>1. /\ build_out_files' = build_out_files /\ todo' = todo /\ wanted' = wanted
        /\ phony_visited' = phony_visited /\ Asked' = Asked
    BY <1>1 DEF cx, resolution, Asked
  <2>2. \A m : Settled(m)' = Settled(m)
    BY <2>1, <1>2 DEF Settled
  <2>3. Names!Reach(PhonyAll, Asked)' = Names!Reach(PhonyAll, Asked)
    BY <2>1, <1>2 DEF Names!Reach, Names!DepClosed, Names!build_dependencies
  <2> HIDE DEF Asked, Settled
  <2> QED BY <2>1, <2>2, <2>3, <1>1, <1>2 DEF NGInv, ResolutionExact
<1> QED BY <1>2, <1>3, <1>4 DEF NGInv

\* The invariant on which the theorems below rest holds in every state of the
\* front end, from the first statement to the answer for the command line.
THEOREM NGInvariance == Spec => []NGInv
<1>1. NGInv /\ [Next]_vars => NGInv'
  <2> SUFFICES ASSUME NGInv, [Next]_vars
               PROVE  NGInv'
    OBVIOUS
  <2>1. ASSUME NEW b \in BuildId, TranslateBuild(b)
        PROVE  NGInv'
    BY <2>1, TranslateInv
  <2>2. CASE (\E b \in BuildId : Overflow(b)) \/ BuildTheGraph
    BY <2>2, StageInv
  <2>3. ASSUME NEW T \in TargetLists, ResolveTargets(T)
        PROVE  NGInv'
    BY <2>3, ResolveInv
  <2>4. ASSUME NEW n \in Name, AddTarget(n)
        PROVE  NGInv'
    BY <2>4, AddTargetInv
  <2>5. CASE TargetsResolved
    BY <2>5, TargetsResolvedInv
  <2>6. CASE UNCHANGED vars
    BY <2>6, StutterNG
  <2> QED BY <2>1, <2>2, <2>3, <2>4, <2>5, <2>6 DEF Next
<1> QED BY <1>1, InitNG, PTL DEF Spec

-----------------------------------------------------------------------------
(* What follows.                                                           *)

\* The front end's state has its types, and no file is at once announced and
\* waited for: TypeOK, about translate_build's two maps and add_target_rec's
\* two sets.
THEOREM NinjaTypeCorrect == Spec => []TypeOK
<1>1. NGInv => TypeOK
  BY DEF NGInv
<1> QED BY <1>1, NGInvariance, PTL

\* A build waits for a producer of each thing it reads that has one, wherever
\* the two statements stand in the file and however many producers there are:
\* NoInputForgotten, about translate_build.
THEOREM NoInputEverForgotten == Spec => []NoInputForgotten
<1>1. NGInv => NoInputForgotten
  BY DEF NGInv
<1> QED BY <1>1, NGInvariance, PTL

\* pending_inputs lists every translated build that reads a file nobody has
\* announced, and no other: PendingInputsExact, about translate_build.
THEOREM PendingInputsAlwaysExact == Spec => []PendingInputsExact
<1>1. NGInv => PendingInputsExact
  BY DEF NGInv
<1> QED BY <1>1, NGInvariance, PTL

\* The edges that the invariant allows and demands are the exact ones.
LEMMA EdgesFromInv == NGInv => EdgesExact
<1> SUFFICES ASSUME NGInv, OneProducer, NEW b \in BuildId
             PROVE  deps[b] = IF b \in translated
                              THEN {p \in translated : Outs(p) \cap Reads(b) # {}}
                              ELSE {}
  BY DEF EdgesExact
<1>1. /\ translated \subseteq BuildId
      /\ deps[b] \subseteq translated
      /\ b \notin translated => deps[b] = {}
      /\ \A p \in deps[b] : Outs(p) \cap Reads(b) # {}
  BY DEF NGInv, TypeOK, EdgesSound
<1>2. ASSUME b \in translated, NEW p \in translated, Outs(p) \cap Reads(b) # {}
      PROVE  p \in deps[b]
  <2>1. PICK f \in Outs(p) \cap Reads(b) : TRUE
    BY <1>2
  <2>2. PICK q \in deps[b] : f \in Outs(q)
    BY <1>2, <2>1 DEF NGInv, NoInputForgotten
  <2>3. q = p
    BY <1>1, <1>2, <2>1, <2>2 DEF OneProducer
  <2> QED BY <2>2, <2>3
<1> QED BY <1>1, <1>2

\* Wherever the statements stand in the file, the edges are exactly those from
\* readers to producers: EdgesExact, about translate_build.
THEOREM EdgesAlwaysExact == Spec => []EdgesExact
BY EdgesFromInv, NGInvariance, PTL

\* If no file has two producers, a graph that ninja_to_n2o5 accepts can be built
\* in an order that puts producers first, and no other is rejected for a cycle:
\* AcceptedIsBuildable, about translate_build and GraphBuilder::build.
THEOREM AcceptedAlwaysBuildable == Spec => []AcceptedIsBuildable
<1>1. NGInv => AcceptedIsBuildable
  <2> SUFFICES ASSUME NGInv, OneProducer, stage \notin {"converting", "aborted"}
               PROVE  stage # "ContainsCycle" <=>
                        Acyclic([b \in BuildId |->
                          {p \in BuildId : Outs(p) \cap Reads(b) # {}}])
    BY DEF AcceptedIsBuildable
  <2>1. translated = BuildId /\ (Acyclic(deps) <=> stage # "ContainsCycle")
    BY DEF NGInv, AcceptedFirst
  <2>2. \A b \in BuildId : deps[b] = {p \in BuildId : Outs(p) \cap Reads(b) # {}}
    BY <2>1, EdgesFromInv DEF EdgesExact
  <2>3. deps = [b \in BuildId |-> deps[b]]
    BY DEF NGInv, TypeOK, BuildGraphs
  <2> HIDE DEF OneProducer
  <2>4. deps = [b \in BuildId |-> {p \in BuildId : Outs(p) \cap Reads(b) # {}}]
    BY <2>2, <2>3
  <2> QED BY <2>1, <2>4
<1> QED BY <1>1, NGInvariance, PTL

\* When nothing is left to do, the builds wanted are those behind the names
\* that were asked for.
LEMMA ResolvedExact ==
  ASSUME NGInv, OneProducer, stage \in {"resolved", "NoMatchingBuilds"}, Asked # {}
  PROVE  wanted = BehindNames(Asked)
<1> DEFINE R == Names!Reach(PhonyAll, Asked)
<1>1. /\ file \in NinjaFiles /\ wanted \subseteq BuildId /\ Asked \subseteq Name
      /\ translated = BuildId /\ phony_visited \subseteq Name
  BY NinjaFilesAssumption, PhonyLists DEF NGInv, TypeOK, AcceptedFirst, Asked
<1>2. /\ todo = {}
      /\ \A m \in Asked \cup UNION {PhonyAll[p] : p \in phony_visited} :
           m \in todo \/ Settled(m)
      /\ \A b \in wanted : \E m \in R \cap DOMAIN build_out_files :
                             b = build_out_files[m]
  BY DEF NGInv, ResolutionExact
<1>3. /\ DOMAIN build_out_files = UNION {Outs(p) : p \in BuildId}
      /\ \A f \in DOMAIN build_out_files :
           build_out_files[f] \in BuildId /\ f \in Outs(build_out_files[f])
  BY <1>1 DEF NGInv, AnnouncedExact
<1>4. \A f \in DOMAIN build_out_files : f \notin Phonies
  BY <1>1, <1>3, StatementNames
<1>5. R \subseteq {m \in Name : Settled(m)}
  <2> DEFINE T == {m \in Name : Settled(m)}
  <2>1. T \in SUBSET Name /\ Asked \subseteq T
    BY <1>1, <1>2
  <2>2. ASSUME NEW m \in T
        PROVE  PhonyAll[m] \subseteq T
    <3>1. m \in Phonies => m \in phony_visited
      BY <1>4, <2>2 DEF Settled
    <3>2. m \notin Phonies => PhonyAll[m] = {}
      BY <1>1, <2>2, PhonyLists
    <3>3. m \in phony_visited => PhonyAll[m] \subseteq T
      BY <1>1, <1>2, <2>2, PhonyLists
    <3> QED BY <3>1, <3>2, <3>3
  <2> HIDE DEF T
  <2>3. R \subseteq T
    BY <1>1, <2>1, <2>2, WalkIsLeast
  <2> QED BY <2>3 DEF T
<1>6. \A f \in R \cap DOMAIN build_out_files : build_out_files[f] \in wanted
  BY <1>5 DEF Settled
<1>7. BehindNames(Asked) = {b \in BuildId : Outs(b) \cap (R \ Phonies) # {}}
  BY DEF BehindNames, Desugared
<1> HIDE DEF R
<1>8. ASSUME NEW b \in wanted
      PROVE  b \in BehindNames(Asked)
  BY <1>1, <1>2, <1>3, <1>4, <1>7, <1>8
<1>9. ASSUME NEW b \in BehindNames(Asked)
      PROVE  b \in wanted
  <2>1. PICK f \in Outs(b) : f \in R /\ b \in BuildId
    BY <1>7, <1>9
  <2>2. f \in DOMAIN build_out_files
    BY <2>1, <1>3
  <2>3. build_out_files[f] = b
    BY <2>1, <2>2, <1>3 DEF OneProducer
  <2> QED BY <2>1, <2>2, <2>3, <1>6
<1> HIDE DEF Asked
<1> QED BY <1>8, <1>9

\* What is wanted is what the command line, the defaults, or else the whole
\* file stands for, whatever order names are met in and however phony targets
\* list each other: TargetsExact, about resolve_targets_to_build_ids.
LEMMA TargetsFromInv == NGInv => TargetsExact
<1> SUFFICES ASSUME NGInv, OneProducer, stage \in {"resolved", "NoMatchingBuilds"}
             PROVE  wanted = IF Asked # {} THEN BehindNames(Asked) ELSE BuildId
  BY DEF TargetsExact, Asked
<1>1. CASE Asked # {}
  BY <1>1, ResolvedExact
<1>2. CASE Asked = {}
  BY <1>2 DEF NGInv, ResolutionExact
<1> QED BY <1>1, <1>2

\* Whenever the targets are resolved, TargetsExact.
THEOREM TargetsAlwaysExact == Spec => []TargetsExact
BY TargetsFromInv, NGInvariance, PTL

\* A build reads what all it lists stands for: taking the order-only inputs
\* behind a phony input apart from the others loses none and adds none.
LEMMA ReadsAreWhatNamesMean ==
  ASSUME file \in NinjaFiles, NEW b \in BuildId
  PROVE  Reads(b) = Desugared(file.builds[b].ins \cup file.builds[b].order_only)
<1> DEFINE A == file.builds[b].ins
           B == file.builds[b].order_only
           U == UNION {file.phony[p].order_only :
                         p \in Names!Reach(PhonyIns, A) \cap Phonies}
           T == Names!Reach(PhonyIns, A) \cup Names!Reach(PhonyAll, U)
                                         \cup Names!Reach(PhonyAll, B)
           R == Names!Reach(PhonyAll, A \cup B)
<1>1. A \in SUBSET Name /\ B \in SUBSET Name /\ A \cup B \in SUBSET Name
  BY StatementNames
<1>2. Reads(b) = T \ Phonies
  BY DEF Reads, Ins, OrderOnly, DesugaredIns, DesugaredOrderOnly, Desugared
<1>3. Desugared(A \cup B) = R \ Phonies
  BY DEF Desugared
<1>4. \A n \in Names!Reach(PhonyIns, A) \cap Phonies :
        file.phony[n].order_only \subseteq U
  OBVIOUS
<1>5. \A u \in U : \E n \in Names!Reach(PhonyIns, A) \cap Phonies :
                     u \in file.phony[n].order_only
  OBVIOUS
<1> HIDE DEF A, B, U
<1>6. U \in SUBSET Name
  BY <1>5, PhonyLists
<1>7. \A n \in Name : /\ PhonyAll[n] \subseteq Name /\ PhonyIns[n] \subseteq Name
                      /\ PhonyIns[n] \subseteq PhonyAll[n]
                      /\ n \in Phonies =>
                           PhonyAll[n] = PhonyIns[n] \cup file.phony[n].order_only
                      /\ n \notin Phonies => PhonyAll[n] = {}
  BY PhonyLists
<1>8. T \subseteq R
  <2>1. /\ R \in SUBSET Name /\ A \subseteq R /\ B \subseteq R
        /\ \A n \in R : PhonyAll[n] \subseteq R /\ PhonyIns[n] \subseteq R
    BY <1>1, <1>7, WalkCloses
  <2> HIDE DEF R
  <2>2. Names!Reach(PhonyIns, A) \subseteq R
    BY <1>1, <2>1, WalkIsLeast
  <2>3. Names!Reach(PhonyAll, B) \subseteq R
    BY <1>1, <2>1, WalkIsLeast
  <2>4. U \subseteq R
    BY <1>5, <1>7, <2>1, <2>2
  <2>5. Names!Reach(PhonyAll, U) \subseteq R
    BY <1>6, <2>1, <2>4, WalkIsLeast
  <2> QED BY <2>2, <2>3, <2>5
<1>9. R \subseteq T
  <2>1. /\ Names!Reach(PhonyIns, A) \subseteq Name /\ A \subseteq T
        /\ \A n \in Names!Reach(PhonyIns, A) :
             PhonyIns[n] \subseteq Names!Reach(PhonyIns, A)
    BY <1>1, <1>7, WalkCloses
  <2>2. /\ Names!Reach(PhonyAll, B) \subseteq Name /\ B \subseteq T
        /\ \A n \in Names!Reach(PhonyAll, B) : PhonyAll[n] \subseteq T
    BY <1>1, <1>7, WalkCloses
  <2>3. /\ Names!Reach(PhonyAll, U) \subseteq Name /\ U \subseteq T
        /\ \A n \in Names!Reach(PhonyAll, U) : PhonyAll[n] \subseteq T
    BY <1>6, <1>7, WalkCloses
  <2>4. \A n \in Names!Reach(PhonyIns, A) : PhonyAll[n] \subseteq T
    BY <1>4, <1>7, <2>1, <2>3
  <2>5. T \in SUBSET Name /\ \A n \in T : PhonyAll[n] \subseteq T
    BY <2>1, <2>2, <2>3, <2>4
  <2> HIDE DEF T
  <2> QED BY <1>1, <2>1, <2>2, <2>5, WalkIsLeast
<1> QED BY <1>2, <1>3, <1>8, <1>9 DEF A, B

\* The targets on the command line and the inputs of a build that lists the
\* same names mean the same builds: NamesMeanTheSame, about
\* rec_desugar_possible_phony and add_target_rec.
THEOREM NamesAlwaysMeanTheSame == Spec => []NamesMeanTheSame
<1>1. NGInv => NamesMeanTheSame
  <2> SUFFICES ASSUME NGInv, OneProducer, stage = "resolved", targets # {},
                      NEW b \in BuildId,
                      file.builds[b].ins \cup file.builds[b].order_only = targets
               PROVE  deps[b] = wanted
    BY DEF NamesMeanTheSame
  <2>1. wanted = BehindNames(targets)
    BY TargetsFromInv DEF TargetsExact
  <2>2. translated = BuildId
    BY DEF NGInv, AcceptedFirst
  <2>3. deps[b] = {p \in BuildId : Outs(p) \cap Reads(b) # {}}
    BY <2>2, EdgesFromInv DEF EdgesExact
  <2>4. Reads(b) = Desugared(targets)
    BY ReadsAreWhatNamesMean DEF NGInv, TypeOK
  <2> QED BY <2>1, <2>3, <2>4 DEF BehindNames
<1> QED BY <1>1, NGInvariance, PTL

-----------------------------------------------------------------------------
(* What run() passes on.                                                   *)

\* The executor is given a graph as module Executor assumes it, and some of its
\* builds; and there is no executor exactly if no build is behind the names on
\* the command line.
HandedOver ==
  /\ stage = "resolved" =>
       deps \in {g \in BuildGraphs : Acyclic(g)} /\ wanted \subseteq BuildId
  /\ stage \in {"resolved", "NoMatchingBuilds"} /\ OneProducer =>
       (stage = "NoMatchingBuilds" <=> targets # {} /\ BehindNames(targets) = {})

\* For every ninja file and command line, what run() hands to the executor is
\* what the executor's own theorems assume, and "No matching builds for targets"
\* is the answer exactly to a command line that stands for no build: about
\* GraphBuilder::build, resolve_targets_to_build_ids and the test that follows it.
THEOREM FrontEndHandsOver == Spec => []HandedOver
<1>1. NGInv => HandedOver
  <2> SUFFICES ASSUME NGInv PROVE HandedOver
    OBVIOUS
  <2>1. stage = "resolved" =>
          deps \in {g \in BuildGraphs : Acyclic(g)} /\ wanted \subseteq BuildId
    BY DEF NGInv, TypeOK, AcceptedFirst
  <2>2. ASSUME stage \in {"resolved", "NoMatchingBuilds"}, OneProducer
        PROVE  stage = "NoMatchingBuilds" <=> targets # {} /\ BehindNames(targets) = {}
    <3>1. stage = "NoMatchingBuilds" <=> wanted = {} /\ targets # {}
      BY <2>2 DEF NGInv, RefusedFirst
    <3>2. targets # {} => wanted = BehindNames(targets)
      BY <2>2, TargetsFromInv DEF TargetsExact
    <3> QED BY <3>1, <3>2
  <2> QED BY <2>1, <2>2 DEF HandedOver
<1> QED BY <1>1, NGInvariance, PTL

-----------------------------------------------------------------------------
(* The front end gets somewhere.                                           *)

\* How many stages may still follow.
StagesLeft ==
  IF stage = "converting" THEN 3
  ELSE IF stage = "converted" THEN 2
  ELSE IF stage = "resolving" THEN 1
  ELSE 0

Grows(S, T) == S \subseteq T /\ S # T

\* In the order of the stages, of the statements translated, of the phony names
\* visited and of the calls still to be made.
Nearer ==
  \/ StagesLeft' < StagesLeft
  \/ /\ stage' = stage
     /\ \/ Grows(translated, translated')
        \/ /\ translated' = translated
           /\ \/ Grows(phony_visited, phony_visited')
              \/ phony_visited' = phony_visited /\ Grows(todo', todo)

Bounded ==
  translated \subseteq BuildId /\ phony_visited \subseteq Name /\ todo \subseteq Name

\* Every step of the front end brings it nearer to an end: it goes on to a later
\* stage, or translates one statement more, or visits one phony name more, or has
\* one name less to add; none of which can go on for ever, as the translated
\* statements, the visited names and the names to add are always among those of
\* the file.  So phony targets that lead to each other do not keep add_target_rec
\* busy, though each visit adds names to those still to be added.
THEOREM FrontEndGoesOn == Spec => [][Nearer]_vars /\ []Bounded
<1>1. ASSUME Next PROVE Nearer
  <2>1. ASSUME NEW b \in BuildId, TranslateBuild(b) PROVE Nearer
    BY <2>1 DEF TranslateBuild, Nearer, Grows
  <2>2. ASSUME NEW b \in BuildId, Overflow(b) PROVE Nearer
    BY <2>2 DEF Overflow, Nearer, StagesLeft
  <2>3. ASSUME BuildTheGraph PROVE Nearer
    BY <2>3 DEF BuildTheGraph, Nearer, StagesLeft
  <2>4. ASSUME NEW T \in TargetLists, ResolveTargets(T) PROVE Nearer
    BY <2>4 DEF ResolveTargets, Nearer, StagesLeft
  <2>5. ASSUME NEW n \in Name, AddTarget(n) PROVE Nearer
    <3>1. stage' = stage /\ translated' = translated /\ n \in todo
      BY <2>5 DEF AddTarget, cx
    <3>2. CASE phony_visited' = phony_visited /\ todo' = todo \ {n}
      BY <3>1, <3>2 DEF Nearer, Grows
    <3>3. CASE n \notin phony_visited /\ phony_visited' = phony_visited \cup {n}
      BY <3>1, <3>3 DEF Nearer, Grows
    <3> QED BY <2>5, <3>2, <3>3 DEF AddTarget, FirstVisit
  <2>6. ASSUME TargetsResolved PROVE Nearer
    BY <2>6 DEF TargetsResolved, Nearer, StagesLeft
  <2> QED BY <1>1, <2>1, <2>2, <2>3, <2>4, <2>5, <2>6 DEF Next
<1>2. NGInv => Bounded
  BY PhonyLists DEF NGInv, TypeOK, Bounded
<1>3. [Next]_vars => [Nearer]_vars
  BY <1>1
<1> QED BY <1>2, <1>3, NGInvariance, PTL DEF Spec
=============================================================================
