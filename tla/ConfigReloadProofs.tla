------------------------- MODULE ConfigReloadProofs -------------------------
(***************************************************************************)
(* Proofs about ConfigReload.  The keys and their values stay opaque: what *)
(* is used of them is that every source gives values of the right type.    *)
(***************************************************************************)
EXTENDS ConfigReload, TLAPS

-----------------------------------------------------------------------------
(***************************************************************************)
(* Layers.                                                                 *)
(***************************************************************************)

(* Config::default() and the minimal default give every key a value. *)
LEMMA DefaultIsConfig == IsConfig(Default) /\ IsConfig(MinimalDefault)
<1>1. DOMAIN Default = Keys
  BY DEF Default, Keys, ValuesOf
<1>2. Keys = {"config_path", "worker_threads", "docker_enabled", "docker_interval",
              "le_enabled", "le_email", "le_renew", "le_path", "routes",
              "reload_enabled", "reload_interval", "reload_paths", "store_type",
              "redis_url"}
  BY DEF Keys, ValuesOf
<1>3. ASSUME NEW k \in Keys
      PROVE  Default[k] \in ValuesOf[k]
  <2>1. {} \in SUBSET Route /\ {} \in SUBSET Files
    OBVIOUS
  <2>2. CASE k = "config_path"
    BY <2>2 DEF Default, ValuesOf
  <2>3. CASE k = "worker_threads"
    BY <2>3 DEF Default, ValuesOf
  <2>4. CASE k = "docker_enabled"
    BY <2>4 DEF Default, ValuesOf
  <2>5. CASE k = "docker_interval"
    BY <2>5 DEF Default, ValuesOf
  <2>6. CASE k = "le_enabled"
    BY <2>6 DEF Default, ValuesOf
  <2>7. CASE k = "le_email"
    BY <2>7 DEF Default, ValuesOf
  <2>8. CASE k = "le_renew"
    BY <2>8 DEF Default, ValuesOf
  <2>9. CASE k = "le_path"
    BY <2>9 DEF Default, ValuesOf
  <2>10. CASE k = "routes"
    BY <2>1, <2>10 DEF Default, ValuesOf
  <2>11. CASE k = "reload_enabled"
    BY <2>11 DEF Default, ValuesOf
  <2>12. CASE k = "reload_interval"
    BY <2>12 DEF Default, ValuesOf
  <2>13. CASE k = "reload_paths"
    BY <2>1, <2>13 DEF Default, ValuesOf
  <2>14. CASE k = "store_type"
    BY <2>14 DEF Default, ValuesOf
  <2>15. CASE k = "redis_url"
    BY <2>15 DEF Default, ValuesOf
  <2>. QED
    BY <1>2, <1>3, <2>2, <2>3, <2>4, <2>5, <2>6, <2>7, <2>8,
       <2>9, <2>10, <2>11, <2>12, <2>13, <2>14, <2>15
<1>4. FALSE \in ValuesOf["le_enabled"] /\ "le_enabled" \in Keys
  BY DEF ValuesOf, Keys
<1>5. MinimalDefault = [Default EXCEPT !["le_enabled"] = FALSE]
  BY DEF MinimalDefault
<1>. QED
  BY <1>1, <1>3, <1>4, <1>5 DEF IsConfig, IsLayer

(* A source that is not there is a layer of no keys. *)
LEMMA NoKeysIsLayer == IsLayer(NoKeys) /\ DOMAIN NoKeys = {}
  BY DEF NoKeys, IsLayer

(* Merging a layer over a configuration gives a configuration. *)
LEMMA MergeIsConfig ==
  ASSUME NEW l, IsLayer(l), NEW c, IsConfig(c)
  PROVE  IsConfig([k \in Keys |-> IF k \in DOMAIN l THEN l[k] ELSE c[k]])
  BY DEF IsConfig, IsLayer

(* What an existing file that parses says is a layer. *)
LEMMA LayerOfIsLayer ==
  ASSUME disk \in [Files -> Texts \cup {None}],
         NEW f \in Files, Exists(f), Parses(f)
  PROVE  IsLayer(LayerOf(disk[f]))
<1>. DEFINE t == disk[f]
<1>1. t \in Texts /\ IsText(t)
  BY TextsType DEF Exists
<1>2. CASE t.format # "hcl" \/ t.import = None
  BY <1>1, <1>2 DEF LayerOf, IsText
<1>3. CASE t.format = "hcl" /\ t.import # None
  <2>. DEFINE i == disk[t.import]
  <2>1. t.import \in Files /\ i # None
    BY <1>1, <1>3 DEF IsText, Files, Parses, ImportReadable
  <2>2. IsLayer(i.sets)
    BY <2>1, TextsType DEF IsText
  <2>3. IsLayer(t.sets)
    BY <1>1 DEF IsText
  <2>. QED
    BY <1>3, <2>2, <2>3 DEF LayerOf, IsLayer
<1>. QED
  BY <1>2, <1>3
-----------------------------------------------------------------------------
(***************************************************************************)
(* Type correctness.                                                       *)
(***************************************************************************)

(* The orders of the code and of the property, spelled out. *)
LEMMA Orders ==
  /\ Len(MergeOrder) = 6 /\ Len(Rank) = 7
  /\ Rank[1] = "args" /\ Rank[2] = "minimal" /\ Rank[3] = "yml" /\ Rank[4] = "yaml"
  /\ Rank[5] = "hcl" /\ Rank[6] = "direct" /\ Rank[7] = "env"
  /\ MergeOrder[1] = Rank[2] /\ MergeOrder[2] = Rank[3] /\ MergeOrder[3] = Rank[4]
  /\ MergeOrder[4] = Rank[5] /\ MergeOrder[5] = Rank[6] /\ MergeOrder[6] = Rank[7]
  BY DEF MergeOrder, Rank

LEMMA MergeType ==
  ASSUME TypeOK, NEW s \in Sources, NEW l, IsLayer(l), Merge(s, l)
  PROVE  /\ IsConfig(config')
         /\ DOMAIN used' = Sources /\ \A x \in Sources : IsLayer(used'[x])
<1>1. IsConfig(config')
  BY MergeIsConfig DEF TypeOK, Merge
<1>2. used' = [used EXCEPT ![s] = l] /\ DOMAIN used = Sources
      /\ \A x \in Sources : IsLayer(used[x])
  BY DEF TypeOK, Merge
<1>3. \A x \in Sources : used'[x] = IF x = s THEN l ELSE used[x]
  BY <1>2
<1>. QED
  BY <1>1, <1>2, <1>3

LEMMA TurnType ==
  ASSUME TypeOK, NEW s, Turn(s)
  PROVE  at' \in 1 .. Len(MergeOrder) + 1
  BY Orders DEF TypeOK, Turn

LEMMA MachineType ==
  ASSUME TypeOK
  PROVE  IsConfig(machine.args) /\ IsLayer(machine.env)
  BY MachinesType DEF TypeOK, IsMachine

LEMMA FilesAreSources ==
  /\ MainFiles \cup {"direct"} \subseteq Files
  /\ MainFiles \cup {"direct"} \subseteq Sources
  /\ "minimal" \in Sources /\ "env" \in Sources /\ "args" \in Sources
  BY DEF Files, Sources, MainFiles

LEMMA InitType == Init => TypeOK
<1>. SUFFICES ASSUME Init PROVE TypeOK
  OBVIOUS
<1>1. disk \in [Files -> Texts \cup {None}]
  BY DisksType DEF Init
<1>2. IsConfig(config)
  BY DefaultIsConfig DEF Init
<1>3. DOMAIN used = Sources /\ \A s \in Sources : IsLayer(used[s])
  BY NoKeysIsLayer DEF Init
<1>4. at \in 1 .. Len(MergeOrder) + 1
  BY Orders DEF Init
<1>5. edits \in 0 .. MaxEdits
  BY MaxEditsType DEF Init
<1>. QED
  BY <1>1, <1>2, <1>3, <1>4, <1>5 DEF Init, TypeOK

LEMMA TypeStep == TypeOK /\ [Next]_vars => TypeOK'
<1>. SUFFICES ASSUME TypeOK, [Next]_vars PROVE TypeOK'
  OBVIOUS
<1>1. CASE ParseArgs
  <2>1. IsConfig(config') /\ IsLayer(machine.args)
    BY <1>1, MachineType DEF ParseArgs, IsConfig
  <2>2. DOMAIN used' = Sources /\ \A s \in Sources : IsLayer(used'[s])
    BY <1>1, <2>1, NoKeysIsLayer DEF ParseArgs
  <2>3. mode' \in {"dir", "direct", "minimal", "nothing"}
    BY <1>1 DEF ParseArgs, LoadMode
  <2>4. at' \in 1 .. Len(MergeOrder) + 1
    BY <1>1, Orders DEF ParseArgs
  <2>. QED
    BY <1>1, <2>1, <2>2, <2>3, <2>4 DEF ParseArgs, TypeOK, envVars, bgVars
<1>2. ASSUME NEW s \in Sources, PassOver(s)
      PROVE  TypeOK'
  BY <1>2, TurnType, Orders DEF PassOver, Turn, TypeOK, envVars, bgVars
<1>3. CASE MergeMinimal
  <2>1. IsLayer(MinimalDefault)
    BY DefaultIsConfig DEF IsConfig
  <2>2. /\ IsConfig(config')
        /\ DOMAIN used' = Sources /\ \A x \in Sources : IsLayer(used'[x])
    BY <1>3, <2>1, MergeType, FilesAreSources DEF MergeMinimal
  <2>. QED
    BY <1>3, <2>2, TurnType, Orders DEF MergeMinimal, Turn, TypeOK, envVars, bgVars
<1>4. CASE MergeEnv
  <2>1. /\ IsConfig(config')
        /\ DOMAIN used' = Sources /\ \A x \in Sources : IsLayer(used'[x])
    BY <1>4, MachineType, MergeType, FilesAreSources DEF MergeEnv
  <2>. QED
    BY <1>4, <2>1, TurnType, Orders DEF MergeEnv, Turn, TypeOK, envVars, bgVars
<1>5. ASSUME NEW f \in MainFiles \cup {"direct"}, MergeFile(f)
      PROVE  TypeOK'
  <2>1. f \in Files /\ f \in Sources
    BY FilesAreSources
  <2>2. /\ IsConfig(config')
        /\ DOMAIN used' = Sources /\ \A x \in Sources : IsLayer(used'[x])
        /\ valid' \in BOOLEAN
    <3>1. CASE Exists(f) /\ Parses(f) /\ Merge(f, LayerOf(disk[f])) /\ UNCHANGED valid
      <4>1. IsLayer(LayerOf(disk[f]))
        BY <2>1, <3>1, LayerOfIsLayer DEF TypeOK
      <4>. QED
        BY <2>1, <3>1, <4>1, MergeType DEF TypeOK
    <3>2. CASE UNCHANGED <<config, used>> /\ (valid' = FALSE \/ UNCHANGED valid)
      BY <3>2 DEF TypeOK
    <3>. QED
      BY <1>5, <3>1, <3>2 DEF MergeFile
  <2>3. seen' \in [Files -> Nat \cup {None}]
    BY <1>5 DEF MergeFile, TypeOK
  <2>. QED
    BY <1>5, <2>2, <2>3, TurnType, Orders DEF MergeFile, Turn, TypeOK, envVars, bgVars
<1>6. CASE Extract
  BY <1>6 DEF Extract, TypeOK, envVars, loadVars, bgVars
<1>7. CASE RunForever
  BY <1>7 DEF RunForever, TypeOK, envVars, loadVars, bgVars
<1>8. CASE StartBackground
  <2>1. config.reload_paths \in SUBSET Files
    <3>1. "reload_paths" \in Keys /\ ValuesOf["reload_paths"] = SUBSET Files
      BY DEF Keys, ValuesOf
    <3>. QED
      BY <3>1 DEF TypeOK, IsConfig, IsLayer
  <2>2. WatchPaths(config) \subseteq Files
    BY <2>1 DEF WatchPaths, Files, MainFiles
  <2>. QED
    BY <1>8, <2>2 DEF StartBackground, TypeOK, envVars, loadVars
<1>9. CASE PollSkips
  BY <1>9 DEF PollSkips, TypeOK, envVars, loadVars
<1>10. CASE PollRestarts
  BY <1>10 DEF PollRestarts, Restart, TypeOK, envVars, loadVars
<1>11. CASE PollQuits
  BY <1>11 DEF PollQuits, TypeOK, envVars, loadVars
<1>12. ASSUME NEW f \in Files, NEW t \in TextsOf[f], Edit(f, t)
       PROVE  TypeOK'
  <2>1. t \in Texts \cup {None}
    BY TextsOfType
  <2>. QED
    BY <1>12, <2>1, MaxEditsType DEF Edit, TypeOK, loadVars, bgVars
<1>13. CASE UNCHANGED vars
  BY <1>13 DEF TypeOK, vars, envVars, loadVars, bgVars
<1>14. CASE BackgroundDies
  BY <1>14 DEF BackgroundDies, TypeOK, envVars, loadVars
<1>. QED
  BY <1>1, <1>2, <1>3, <1>4, <1>5, <1>6, <1>7, <1>8, <1>9, <1>10, <1>11, <1>12, <1>13, <1>14
     DEF Next, ProcessNext, LoadNext

(* TypeOK holds throughout, for every set of texts, machines and imports. *)
THEOREM TypeCorrect == Spec => []TypeOK
  BY InitType, TypeStep, PTL DEF Spec

-----------------------------------------------------------------------------
(***************************************************************************)
(* Precedence of the sources.                                              *)
(***************************************************************************)

(* Every position of the property's order is a source of its own, and the  *)
(* code merges them in that order.                                         *)
LEMMA RankFacts ==
  /\ \A i \in 1 .. 7 : Rank[i] \in Sources
  /\ \A i, j \in 1 .. 7 : Rank[i] = Rank[j] => i = j
  /\ \A i \in 1 .. 6 : MergeOrder[i] = Rank[i + 1]
<1>1. 1 .. 7 = {1, 2, 3, 4, 5, 6, 7} /\ 1 .. 6 = {1, 2, 3, 4, 5, 6}
  OBVIOUS
<1>2. \A i \in {1, 2, 3, 4, 5, 6, 7} : Rank[i] \in Sources
  BY Orders DEF Sources, MainFiles
<1>3. \A i, j \in {1, 2, 3, 4, 5, 6, 7} : Rank[i] = Rank[j] => i = j
  BY Orders
<1>4. \A i \in {1, 2, 3, 4, 5, 6} : MergeOrder[i] = Rank[i + 1]
  BY Orders
<1>. QED
  BY <1>1, <1>2, <1>3, <1>4

(* The turn of a source adds it above all the ones merged so far. *)
LEMMA MergeKeepsOrder ==
  ASSUME TypeOK, MergedInOrder, NEW s, Turn(s), NEW l, Merge(s, l)
  PROVE  /\ \A i \in at' + 1 .. Len(Rank) : used'[Rank[i]] = NoKeys
         /\ IsStrongest(config)'
<1>1. /\ at \in 1 .. 6 /\ at' = at + 1 /\ s = Rank[at + 1]
      /\ phase = "merge"
  BY Orders, RankFacts DEF Turn, TypeOK
<1>2. /\ \A i \in at + 1 .. 7 : used[Rank[i]] = NoKeys
      /\ \A k \in Keys : \A i \in 1 .. 7 :
           /\ k \in DOMAIN used[Rank[i]]
           /\ \A j \in i + 1 .. 7 : k \notin DOMAIN used[Rank[j]]
           => config[k] = used[Rank[i]][k]
  BY <1>1, Orders DEF MergedInOrder, IsStrongest
<1>3. \A i \in 1 .. 7 : used'[Rank[i]] = IF i = at + 1 THEN l ELSE used[Rank[i]]
  BY <1>1, RankFacts DEF Merge, TypeOK
<1>4. \A i \in at' + 1 .. 7 : used'[Rank[i]] = NoKeys
  BY <1>1, <1>2, <1>3
<1>5. ASSUME NEW k \in Keys, NEW i \in 1 .. 7,
             k \in DOMAIN used'[Rank[i]],
             \A j \in i + 1 .. 7 : k \notin DOMAIN used'[Rank[j]]
      PROVE  config'[k] = used'[Rank[i]][k]
  <2>1. config'[k] = IF k \in DOMAIN l THEN l[k] ELSE config[k]
    BY DEF Merge
  <2>2. CASE i > at + 1
    <3>1. used'[Rank[i]] = NoKeys
      BY <1>1, <1>4, <2>2
    <3>. QED
      BY <1>5, <3>1, NoKeysIsLayer
  <2>3. CASE i = at + 1
    BY <1>3, <1>5, <2>1, <2>3
  <2>4. CASE i < at + 1
    <3>1. at + 1 \in i + 1 .. 7 /\ at + 1 \in 1 .. 7
      BY <1>1, <2>4
    <3>2. k \notin DOMAIN l
      BY <1>3, <1>5, <3>1
    <3>3. \A j \in i + 1 .. 7 : k \notin DOMAIN used[Rank[j]]
      <4>. SUFFICES ASSUME NEW j \in i + 1 .. 7
                    PROVE  k \notin DOMAIN used[Rank[j]]
        OBVIOUS
      <4>1. CASE j = at + 1
        BY <1>2, <3>1, <4>1, NoKeysIsLayer
      <4>2. CASE j # at + 1
        BY <1>3, <1>5, <4>2
      <4>. QED
        BY <4>1, <4>2
    <3>4. used'[Rank[i]] = used[Rank[i]]
      BY <1>1, <1>3, <2>4
    <3>5. config[k] = used[Rank[i]][k]
      BY <1>2, <1>5, <3>3, <3>4
    <3>. QED
      BY <2>1, <3>2, <3>4, <3>5
  <2>. QED
    BY <1>1, <2>2, <2>3, <2>4
<1>. QED
  BY <1>4, <1>5, Orders DEF IsStrongest

(* A turn that merges nothing leaves a source above that says nothing. *)
LEMMA IdleTurnKeepsOrder ==
  ASSUME TypeOK, MergedInOrder, NEW s, Turn(s), UNCHANGED <<config, used, phase>>
  PROVE  MergedInOrder'
<1>1. at \in 1 .. 6 /\ at' = at + 1
  BY Orders DEF Turn, TypeOK
<1>. QED
  BY <1>1, Orders DEF MergedInOrder, IsStrongest, Turn

(* Right after Config::parse() the command line is the only source. *)
LEMMA ParseArgsInOrder ==
  ASSUME TypeOK, ParseArgs
  PROVE  MergedInOrder'
<1>1. \A i \in 1 .. 7 : used'[Rank[i]] = IF i = 1 THEN machine.args ELSE NoKeys
  BY RankFacts, Orders DEF ParseArgs
<1>2. \A i \in at' + 1 .. 7 : used'[Rank[i]] = NoKeys
  BY <1>1 DEF ParseArgs
<1>3. \A k \in Keys : \A i \in 1 .. 7 :
        k \in DOMAIN used'[Rank[i]] => config'[k] = used'[Rank[i]][k]
  BY <1>1, NoKeysIsLayer DEF ParseArgs
<1>. QED
  BY <1>2, <1>3, Orders DEF MergedInOrder, IsStrongest

LEMMA OrderStep == TypeOK /\ MergedInOrder /\ [Next]_vars => MergedInOrder'
<1>. SUFFICES ASSUME TypeOK, MergedInOrder, [Next]_vars PROVE MergedInOrder'
  OBVIOUS
<1>1. CASE ParseArgs
  BY <1>1, ParseArgsInOrder
<1>2. ASSUME NEW s \in Sources, PassOver(s)
      PROVE  MergedInOrder'
  BY <1>2, IdleTurnKeepsOrder DEF PassOver
<1>3. CASE MergeMinimal
  BY <1>3, MergeKeepsOrder DEF MergeMinimal, MergedInOrder
<1>4. CASE MergeEnv
  BY <1>4, MergeKeepsOrder DEF MergeEnv, MergedInOrder
<1>5. ASSUME NEW f \in MainFiles \cup {"direct"}, MergeFile(f)
      PROVE  MergedInOrder'
  <2>1. CASE Merge(f, LayerOf(disk[f]))
    BY <1>5, <2>1, MergeKeepsOrder DEF MergeFile, MergedInOrder
  <2>2. CASE UNCHANGED <<config, used>>
    BY <1>5, <2>2, IdleTurnKeepsOrder DEF MergeFile
  <2>. QED
    BY <1>5, <2>1, <2>2 DEF MergeFile
<1>6. ASSUME UNCHANGED loadVars, phase' \notin {"merge"} \/ UNCHANGED phase,
             phase' \in {"main", "serving"} => phase \in {"merge", "main", "serving"}
      PROVE  MergedInOrder'
  BY <1>6 DEF MergedInOrder, IsStrongest, loadVars
<1>7. CASE Extract \/ RunForever
  BY <1>6, <1>7 DEF Extract, RunForever
<1>8. CASE StartBackground \/ BackgroundDies \/ PollSkips \/ PollRestarts \/ PollQuits
  BY <1>6, <1>8 DEF StartBackground, BackgroundDies, PollSkips, PollRestarts, PollQuits, Restart
<1>9. ASSUME NEW f \in Files, NEW t \in TextsOf[f], Edit(f, t)
      PROVE  MergedInOrder'
  BY <1>6, <1>9 DEF Edit
<1>10. CASE UNCHANGED vars
  BY <1>6, <1>10 DEF vars
<1>. QED
  BY <1>1, <1>2, <1>3, <1>4, <1>5, <1>7, <1>8, <1>9, <1>10
     DEF Next, ProcessNext, LoadNext

(* However the files change while they are read, what a process runs with  *)
(* is for every key the word of the strongest source.                      *)
THEOREM StrongestSource == Spec => []StrongestSourceWins
<1>1. Init => MergedInOrder
  BY DEF Init, MergedInOrder
<1>2. MergedInOrder => StrongestSourceWins
  BY DEF MergedInOrder, StrongestSourceWins
<1>. QED
  BY <1>1, <1>2, TypeCorrect, OrderStep, PTL DEF Spec

-----------------------------------------------------------------------------
(***************************************************************************)
(* What check_config rules out.                                            *)
(***************************************************************************)
(* The keys of lets_encrypt that check_config looks at. *)
LEMMA LetsEncryptKeys ==
  ASSUME NEW c, IsConfig(c)
  PROVE  c.le_enabled \in {TRUE, FALSE, None} /\ c.le_email \in {"", "@example", "mail"}
<1>1. "le_enabled" \in Keys /\ ValuesOf["le_enabled"] = {TRUE, FALSE, None}
  BY DEF Keys, ValuesOf
<1>2. "le_email" \in Keys /\ ValuesOf["le_email"] = {"", "@example", "mail"}
  BY DEF Keys, ValuesOf
<1>. QED
  BY <1>1, <1>2 DEF IsConfig, IsLayer

LEMMA AcceptedStep ==
  TypeOK /\ RunsAccepted /\ OnlyUncheckedPanics /\ [Next]_vars
    => RunsAccepted' /\ OnlyUncheckedPanics'
<1>. SUFFICES ASSUME TypeOK, RunsAccepted, OnlyUncheckedPanics, [Next]_vars
              PROVE  RunsAccepted' /\ OnlyUncheckedPanics'
  OBVIOUS
<1>. USE DEF RunsAccepted, OnlyUncheckedPanics
<1>1. CASE ParseArgs
  BY <1>1 DEF ParseArgs, bgVars
<1>2. ASSUME phase = "merge", UNCHANGED <<phase, background>>
      PROVE  RunsAccepted' /\ OnlyUncheckedPanics'
  BY <1>2
<1>3. ASSUME NEW s \in Sources, PassOver(s)
      PROVE  RunsAccepted' /\ OnlyUncheckedPanics'
  BY <1>2, <1>3 DEF PassOver, Turn, bgVars
<1>4. CASE MergeMinimal \/ MergeEnv
  BY <1>2, <1>4 DEF MergeMinimal, MergeEnv, Turn, bgVars
<1>5. ASSUME NEW f \in MainFiles \cup {"direct"}, MergeFile(f)
      PROVE  RunsAccepted' /\ OnlyUncheckedPanics'
  BY <1>2, <1>5 DEF MergeFile, Turn, bgVars
<1>6. CASE Extract
  BY <1>6 DEF Extract, loadVars, envVars, bgVars, Deserializes, CheckConfig
<1>7. CASE RunForever
  <2>1. phase = "main" /\ background = "off" /\ config.worker_threads # 0
    BY <1>7 DEF RunForever, CheckConfig
  <2>. QED
    BY <1>7, <2>1 DEF RunForever, MainPanics, loadVars, envVars, bgVars,
                      Deserializes, CheckConfig
<1>8. CASE StartBackground
  <2>1. /\ config.docker_interval # 0
        /\ ~(config.le_enabled = TRUE /\ config.le_email \in {"", "@example"})
    BY <1>8 DEF StartBackground, CheckConfig
  <2>2. config.le_enabled \in {TRUE, FALSE, None} /\ config.le_email \in {"", "@example", "mail"}
    BY LetsEncryptKeys DEF TypeOK
  <2>3. BackgroundPanics(config) =>
          \/ machine.faults \cap {"docker", "docker answer", "notify", "ca", "cert dir", "redis lost"} # {}
          \/ config.reload_interval = 0 \/ config.le_renew = 0
          \/ config.le_enabled = None
          \/ \E route \in config.routes : route.headers = "rejected"
    BY <2>1, <2>2 DEF BackgroundPanics, RoutingPanics, DockerPanics, WatcherPanics,
                      LetsEncryptPanics, LetsEncryptRuns
  <2>. QED
    BY <1>8, <2>3 DEF StartBackground, loadVars, envVars, Deserializes, CheckConfig
<1>12. CASE BackgroundDies
  BY <1>12 DEF BackgroundDies, loadVars, envVars, Deserializes, CheckConfig
<1>9. CASE PollSkips \/ PollRestarts \/ PollQuits
  BY <1>9 DEF PollSkips, PollRestarts, PollQuits, Restart, loadVars, envVars,
              Deserializes, CheckConfig
<1>10. ASSUME NEW f \in Files, NEW t \in TextsOf[f], Edit(f, t)
       PROVE  RunsAccepted' /\ OnlyUncheckedPanics'
  BY <1>10 DEF Edit, loadVars, bgVars, Deserializes, CheckConfig
<1>11. CASE UNCHANGED vars
  BY <1>11 DEF vars, envVars, loadVars, bgVars, Deserializes, CheckConfig
<1>. QED
  BY <1>1, <1>3, <1>4, <1>5, <1>6, <1>7, <1>8, <1>9, <1>10, <1>11, <1>12
     DEF Next, ProcessNext, LoadNext

(* Nothing that check_config looks at makes main() or a background service *)
(* panic later.                                                            *)
THEOREM CheckedValuesSafe == Spec => []OnlyUncheckedPanics
<1>1. Init => RunsAccepted /\ OnlyUncheckedPanics
  BY DEF Init, RunsAccepted, OnlyUncheckedPanics
<1>. QED
  BY <1>1, TypeCorrect, AcceptedStep, PTL DEF Spec
=============================================================================
