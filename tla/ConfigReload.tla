---------------------------- MODULE ConfigReload ----------------------------
(***************************************************************************)
(* How proksi comes by its configuration and comes by a new one: load()    *)
(* (config/mod.rs), check_config (config/validate.rs), the start of main() *)
(* and of the background services (main.rs, services/mod.rs), and the file *)
(* watcher that replaces the process by exec when an .hcl file changes     *)
(* (services/config/mod.rs).                                               *)
(*                                                                         *)
(* The operator edits files at any moment: between two reads of one load,  *)
(* between load() and the watcher's first scan, and while the process      *)
(* serves.                                                                 *)
(***************************************************************************)
EXTENDS Naturals, Sequences

CONSTANTS
  Imports,    \* the .hcl files that import("..") may name
  Texts,      \* what may be written into a file
  TextsOf,    \* per file, the texts an edit may give it, None to remove it
  Disks,      \* what the files may hold when the process starts
  DirectExt,  \* extension of the file that -c may name directly
  Machines,   \* command line, environment and faults the process may start with
  MaxEdits,   \* bound: edits in one behaviour
  None        \* an Option that is None, a missing file

-----------------------------------------------------------------------------
(***************************************************************************)
(* The keys of Config that the code below branches on.  A duration counts  *)
(* as zero or not; a route is its upstream, and whether HeaderName and     *)
(* HeaderValue take the headers it adds.                                   *)
(***************************************************************************)
MainFiles == {"yml", "yaml", "hcl"}

Files == MainFiles \cup {"direct"} \cup Imports

Route == [ip : {"", "ip"}, port : {0, 80}, headers : {"taken", "rejected"}]

ValuesOf ==
  [config_path     |-> {"dir", "direct", "elsewhere", None},
   worker_threads  |-> {0, 2, None},
   docker_enabled  |-> {TRUE, FALSE, None},
   docker_interval |-> {0, 15, None},
   le_enabled      |-> {TRUE, FALSE, None},
   le_email        |-> {"", "@example", "mail"},
   le_renew        |-> {0, 84600, None},
   le_path         |-> {"", "path"},
   routes          |-> SUBSET Route,
   reload_enabled  |-> {TRUE, FALSE, None},
   reload_interval |-> {0, 30, None},
   reload_paths    |-> SUBSET Files,
   store_type      |-> {"memory", "redis", "unknown"},
   redis_url       |-> {"url", None}]

Keys == DOMAIN ValuesOf

(* Config::default() *)
Default ==
  [config_path     |-> "elsewhere",
   worker_threads  |-> 2,
   docker_enabled  |-> FALSE,
   docker_interval |-> 15,
   le_enabled      |-> FALSE,
   le_email        |-> "@example",
   le_renew        |-> 84600,
   le_path         |-> "path",
   routes          |-> {},
   reload_enabled  |-> FALSE,
   reload_interval |-> 30,
   reload_paths    |-> {},
   store_type      |-> "memory",
   redis_url       |-> None]

(* create_minimal_default_config *)
MinimalDefault == [Default EXCEPT !.le_enabled = FALSE]

(* What one source says: values for some of the keys. *)
IsLayer(l) == DOMAIN l \subseteq Keys /\ \A k \in DOMAIN l : l[k] \in ValuesOf[k]

IsConfig(c) == DOMAIN c = Keys /\ IsLayer(c)

NoKeys == [k \in {} |-> None]

(***************************************************************************)
(* A text is in one format, or in none.  An .hcl text may give some of its *)
(* keys by import: their values are what the imported file says.  Bound:   *)
(* one import in a text, and none in an imported one.                      *)
(***************************************************************************)
IsText(t) ==
  /\ DOMAIN t = {"format", "sets", "import"}
  /\ t.format \in {"yaml", "hcl", "broken"}
  /\ IsLayer(t.sets)
  /\ t.import \in Imports \cup {None}

(* What fails on the machine.  "redis lost" comes after main() has had a   *)
(* connection; "docker answer" is an answer of the daemon that lacks a     *)
(* field, or labels with a header that HeaderName rejects.                 *)
Faults == {"current_exe", "exec", "notify", "docker", "docker answer", "redis", "redis lost",
           "ca", "cert dir", "dns"}

IsMachine(m) ==
  /\ DOMAIN m = {"args", "env", "faults"}
  /\ IsConfig(m.args) /\ m.args.config_path # "elsewhere"
  /\ IsLayer(m.env)
  /\ m.faults \subseteq Faults

ASSUME ImportsFresh == Imports \cap (MainFiles \cup {"direct"}) = {}

ASSUME TextsType == \A t \in Texts : IsText(t)

ASSUME TextsOfType == TextsOf \in [Files -> SUBSET (Texts \cup {None})]

ASSUME DisksType == Disks \subseteq [Files -> Texts \cup {None}]

ASSUME DirectExtType == DirectExt \in {"yaml", "hcl", "other"}

ASSUME MachinesType == \A m \in Machines : IsMachine(m)

ASSUME MaxEditsType == MaxEdits \in Nat

ASSUME NoneFresh == None \notin Texts /\ None \notin Imports /\ None \notin Nat

VARIABLES
  machine,    \* what the process was started with; exec keeps it
  disk,       \* environment: per file, its text
  version,    \* environment: per file, its modification time
  edits,      \* edits so far
  phase,      \* life of the process
  mode,       \* which of its branches load_from_path took
  at,         \* position in MergeOrder
  config,     \* the figment while it is merged, then the Config
  valid,      \* no provider has returned an error
  background, \* state of the background services
  watched,    \* files the PollWatcher knows
  base,       \* per file, its modification time at the last scan
  used,       \* history: per source, what this process merged from it
  seen        \* history: per file, the version this process read

envVars  == <<machine, disk, version, edits>>
loadVars == <<mode, at, config, valid, used, seen>>
bgVars   == <<background, watched, base>>
vars == <<envVars, phase, loadVars, bgVars>>

-----------------------------------------------------------------------------
(***************************************************************************)
(* load and load_from_path.  Every merge reads its source there and then,  *)
(* and a provider that fails makes extract() fail in the end.              *)
(***************************************************************************)

(* Plausible bug: proksi.hcl is merged before the YAML files. *)
MergeOrderHclFirst == <<"minimal", "hcl", "yml", "yaml", "direct", "env">>

(* The order of the calls of merge after the one for the command line. *)
MergeOrder == <<"minimal", "yml", "yaml", "hcl", "direct", "env">>

Sources == {"args", "minimal", "env"} \cup MainFiles \cup {"direct"}

SourcesOf(m) ==
  {"env"} \cup CASE m = "dir"     -> MainFiles
                 [] m = "direct"  -> {"direct"}
                 [] m = "minimal" -> {"minimal"}
                 [] OTHER         -> {}

(* The formats a file is parsed as: both of them if the extension is neither. *)
FormatsOf(f) ==
  CASE f = "hcl" -> {"hcl"}
    [] f \in {"yml", "yaml"} -> {"yaml"}
    [] OTHER -> CASE DirectExt = "other" -> {"yaml", "hcl"}
                  [] OTHER -> {DirectExt}

(* read_hcl_file: the import must be there and be HCL. *)
ImportReadable(t) ==
  t.import # None => disk[t.import] # None /\ disk[t.import].format = "hcl"

Parses(f) ==
  /\ \A x \in FormatsOf(f) : disk[f].format = x
  /\ disk[f].format = "hcl" => ImportReadable(disk[f])

(* What a text says; `import` is only a function of HCL. *)
LayerOf(t) ==
  IF t.format # "hcl" \/ t.import = None THEN t.sets
  ELSE LET i == disk[t.import].sets
       IN  [k \in DOMAIN t.sets \cup DOMAIN i |->
              IF k \in DOMAIN t.sets THEN t.sets[k] ELSE i[k]]

Exists(f) == disk[f] # None

(* The branches of load_from_path: file, directory, minimal default. *)
LoadMode(path) ==
  CASE path = "direct" /\ Exists("direct") -> "direct"
    [] path = "direct" /\ ~Exists("direct") -> "nothing"
    [] path = None /\ ~(\E f \in MainFiles : Exists(f)) -> "minimal"
    [] OTHER -> "dir"

(* Config::parse(), the merge of the command line, and the choice of files. *)
ParseArgs ==
  /\ phase = "exec"
  /\ phase' = "merge"
  /\ mode' = LoadMode(machine.args.config_path)
  /\ at' = 1
  /\ config' = machine.args
  /\ used' = [s \in Sources |-> IF s = "args" THEN machine.args ELSE NoKeys]
  /\ valid' = TRUE
  /\ seen' = [f \in Files |-> None]
  /\ UNCHANGED <<envVars, bgVars>>

Turn(s) ==
  /\ phase = "merge"
  /\ at <= Len(MergeOrder)
  /\ s = MergeOrder[at]
  /\ at' = at + 1

Merge(s, l) ==
  /\ config' = [k \in Keys |-> IF k \in DOMAIN l THEN l[k] ELSE config[k]]
  /\ used' = [used EXCEPT ![s] = l]

(* A source this branch has no call for. *)
PassOver(s) ==
  /\ Turn(s)
  /\ s \notin SourcesOf(mode)
  /\ UNCHANGED <<envVars, phase, mode, config, valid, used, seen, bgVars>>

MergeMinimal ==
  /\ Turn("minimal")
  /\ "minimal" \in SourcesOf(mode)
  /\ Merge("minimal", MinimalDefault)
  /\ UNCHANGED <<envVars, phase, mode, valid, seen, bgVars>>

MergeEnv ==
  /\ Turn("env")
  /\ Merge("env", machine.env)
  /\ UNCHANGED <<envVars, phase, mode, valid, seen, bgVars>>

Reads(f) == {f} \cup (IF Exists(f) THEN {disk[f].import} \cap Imports ELSE {})

(* Plausible bug: a file starts a new Figment, which has none of the keys  *)
(* merged before.                                                          *)
MergeFileStartsAnew(f) ==
  /\ Turn(f)
  /\ f \in SourcesOf(mode)
  /\ seen' = [g \in Files |-> IF g \in Reads(f) THEN version[g] ELSE seen[g]]
  /\ Exists(f) /\ Parses(f)
  /\ config' = LayerOf(disk[f])
  /\ used' = [used EXCEPT ![f] = LayerOf(disk[f])]
  /\ UNCHANGED <<envVars, phase, mode, valid, bgVars>>

(* A file that is missing says nothing; one that does not parse is an error. *)
MergeFile(f) ==
  /\ Turn(f)
  /\ f \in SourcesOf(mode)
  /\ seen' = [g \in Files |-> IF g \in Reads(f) THEN version[g] ELSE seen[g]]
  /\ \/ /\ ~Exists(f)
        /\ UNCHANGED <<config, used, valid>>
     \/ /\ Exists(f) /\ Parses(f)
        /\ Merge(f, LayerOf(disk[f]))
        /\ UNCHANGED valid
     \/ /\ Exists(f) /\ ~Parses(f)
        /\ valid' = FALSE
        /\ UNCHANGED <<config, used>>
  /\ UNCHANGED <<envVars, phase, mode, bgVars>>

(* The *_deser functions turn down a name they do not know; store_type     *)
(* stands for all the keys that have one.                                  *)
Deserializes(c) == c.store_type \in {"memory", "redis"}

(* Plausible bug: the docker interval is not looked at. *)
CheckConfigNoInterval(c) ==
  /\ c.worker_threads # 0
  /\ ~(c.le_enabled = TRUE /\ c.le_email \in {"", "@example"})
  /\ c.le_path # ""
  /\ \A route \in c.routes : route.ip # "" /\ route.port # 0

(* check_config; None.unwrap() panics, which main() does not tell apart. *)
CheckConfig(c) ==
  /\ c.worker_threads # 0
  /\ c.docker_interval \notin {0, None}
  /\ ~(c.le_enabled = TRUE /\ c.le_email \in {"", "@example"})
  /\ c.le_path # ""
  /\ \A route \in c.routes : route.ip # "" /\ route.port # 0

(* extract, check_config and the expect(..) in main(). *)
Extract ==
  /\ phase = "merge"
  /\ at > Len(MergeOrder)
  /\ phase' = IF valid /\ Deserializes(config) /\ CheckConfig(config)
              THEN "main" ELSE "failed"
  /\ UNCHANGED <<envVars, loadVars, bgVars>>

-----------------------------------------------------------------------------
(***************************************************************************)
(* main() after load, and the services it starts.                          *)
(***************************************************************************)

(* The certificate store, and the runtime of the HTTPS service. *)
MainPanics(c) ==
  \/ c.store_type = "redis" /\ (c.redis_url = None \/ "redis" \in machine.faults)
  \/ c.worker_threads = 0

RunForever ==
  /\ phase = "main"
  /\ phase' = IF MainPanics(config) THEN "down" ELSE "serving"
  /\ UNCHANGED <<envVars, loadVars, bgVars>>

(* FileWatcherService: the files it would watch, if they exist. *)
WatchPaths(c) ==
  (IF c.config_path = "dir" THEN {"hcl", "yaml"} ELSE {}) \cup c.reload_paths

WatcherRuns(c) == c.reload_enabled # FALSE /\ c.config_path # None

LetsEncryptRuns(c) == c.le_enabled # FALSE

(***************************************************************************)
(* What makes a branch of join! panic at its start, and so ends all of     *)
(* them.                                                                   *)
(***************************************************************************)

(* add_route_to_router; a route whose upstreams do not resolve is left out *)
(* before its headers are looked at.                                       *)
RoutingPanics(c) ==
  /\ \E route \in c.routes : route.headers = "rejected"
  /\ "dns" \notin machine.faults

(* The docker client, also for a disabled service; tokio's interval of 0.  *)
DockerPanics(c) ==
  \/ "docker" \in machine.faults
  \/ c.docker_enabled # FALSE /\ c.docker_interval = 0

(* The PollWatcher, and its interval. *)
WatcherPanics(c) == WatcherRuns(c) /\ (c.reload_interval = 0 \/ "notify" \in machine.faults)

(* The directory or the Redis connection the certificates are kept with,   *)
(* then the ACME directory and account, then the interval of renewals.     *)
LetsEncryptPanics(c) ==
  /\ LetsEncryptRuns(c)
  /\ \/ c.store_type = "memory" /\ "cert dir" \in machine.faults
     \/ c.store_type = "redis" /\ "redis lost" \in machine.faults
     \/ "ca" \in machine.faults \/ c.le_email # "mail" \/ c.le_renew = 0

BackgroundPanics(c) ==
  RoutingPanics(c) \/ DockerPanics(c) \/ WatcherPanics(c) \/ LetsEncryptPanics(c)

StartBackground ==
  /\ phase = "serving"
  /\ background = "off"
  /\ \/ /\ BackgroundPanics(config)
        /\ background' = "panicked"
        /\ UNCHANGED <<watched, base>>
     \/ /\ ~BackgroundPanics(config) /\ ~WatcherRuns(config)
        /\ background' = "unwatched"
        /\ UNCHANGED <<watched, base>>
     \/ /\ ~BackgroundPanics(config) /\ WatcherRuns(config)
        /\ background' = "watching"
        /\ watched' = {f \in WatchPaths(config) : Exists(f)}
        /\ base' = version
  /\ UNCHANGED <<envVars, phase, loadVars>>

(* Such an answer panics its branch when it comes, whatever has started.   *)
BackgroundDies ==
  /\ background \in {"unwatched", "watching"}
  /\ config.docker_enabled # FALSE /\ "docker answer" \in machine.faults
  /\ background' = "panicked"
  /\ UNCHANGED <<envVars, phase, loadVars, watched, base>>

(* The extension test of handle_event. *)
HclFile(f) == f = "hcl" \/ f \in Imports \/ (f = "direct" /\ DirectExt = "hcl")

Changed == {f \in watched : version[f] # base[f]}

(* A new image of the same binary with the same arguments and environment. *)
Restart ==
  /\ phase' = "exec"
  /\ background' = "off"
  /\ watched' = {}
  /\ UNCHANGED base

(* The poll finds no .hcl file changed, or cannot tell which binary to run; *)
(* the scan has taken note of the change all the same.                     *)
PollSkips ==
  /\ background = "watching"
  /\ Changed # {}
  /\ (\A f \in Changed : ~HclFile(f)) \/ "current_exe" \in machine.faults
  /\ base' = version
  /\ UNCHANGED <<envVars, phase, loadVars, background, watched>>

(* Plausible bug: only the main file makes the process restart. *)
PollMainFileOnly ==
  /\ background = "watching"
  /\ "hcl" \in Changed
  /\ "current_exe" \notin machine.faults
  /\ "exec" \notin machine.faults
  /\ Restart
  /\ UNCHANGED <<envVars, loadVars>>

PollRestarts ==
  /\ background = "watching"
  /\ \E f \in Changed : HclFile(f)
  /\ "current_exe" \notin machine.faults
  /\ "exec" \notin machine.faults
  /\ Restart
  /\ UNCHANGED <<envVars, loadVars>>

(* exec returned, so it failed: SIGQUIT to the process itself. *)
PollQuits ==
  /\ background = "watching"
  /\ \E f \in Changed : HclFile(f)
  /\ "current_exe" \notin machine.faults
  /\ "exec" \in machine.faults
  /\ phase' = "down"
  /\ background' = "off"
  /\ UNCHANGED <<envVars, loadVars, watched, base>>

-----------------------------------------------------------------------------
(* The operator writes, replaces or removes a file. *)
Edit(f, t) ==
  /\ edits < MaxEdits
  /\ t # disk[f]
  /\ edits' = edits + 1
  /\ disk' = [disk EXCEPT ![f] = t]
  /\ version' = [version EXCEPT ![f] = @ + 1]
  /\ UNCHANGED <<machine, phase, loadVars, bgVars>>

Init ==
  /\ machine \in Machines
  /\ disk \in Disks
  /\ version = [f \in Files |-> 0]
  /\ edits = 0
  /\ phase = "exec"
  /\ mode = "nothing"
  /\ at = 1
  /\ config = Default
  /\ valid = TRUE
  /\ background = "off"
  /\ watched = {}
  /\ base = [f \in Files |-> 0]
  /\ used = [s \in Sources |-> NoKeys]
  /\ seen = [f \in Files |-> None]

LoadNext ==
  \/ ParseArgs
  \/ \E s \in Sources : PassOver(s)
  \/ MergeMinimal \/ MergeEnv
  \/ \E f \in MainFiles \cup {"direct"} : MergeFile(f)
  \/ Extract

ProcessNext ==
  \/ LoadNext
  \/ RunForever \/ StartBackground
  \/ PollSkips \/ PollRestarts \/ PollQuits

Next ==
  \/ ProcessNext \/ BackgroundDies
  \/ \E f \in Files : \E t \in TextsOf[f] : Edit(f, t)

(* The process goes on, and the interval of the watcher fires again. *)
Spec == Init /\ [][Next]_vars /\ WF_vars(ProcessNext)

-----------------------------------------------------------------------------
(***************************************************************************)
(* Properties.                                                             *)
(***************************************************************************)

(* Every variable stays in its type. *)
TypeOK ==
  /\ machine \in Machines
  /\ disk \in [Files -> Texts \cup {None}]
  /\ version \in [Files -> Nat]
  /\ edits \in 0 .. MaxEdits
  /\ phase \in {"exec", "merge", "failed", "main", "serving", "down"}
  /\ mode \in {"dir", "direct", "minimal", "nothing"}
  /\ at \in 1 .. Len(MergeOrder) + 1
  /\ IsConfig(config)
  /\ valid \in BOOLEAN
  /\ background \in {"off", "panicked", "unwatched", "watching"}
  /\ watched \subseteq Files
  /\ base \in [Files -> Nat]
  /\ DOMAIN used = Sources /\ \A s \in Sources : IsLayer(used[s])
  /\ seen \in [Files -> Nat \cup {None}]

(* From the weakest source to the strongest. *)
Rank == <<"args", "minimal", "yml", "yaml", "hcl", "direct", "env">>

IsStrongest(c) ==
  \A k \in Keys : \A i \in 1 .. Len(Rank) :
    /\ k \in DOMAIN used[Rank[i]]
    /\ \A j \in i + 1 .. Len(Rank) : k \notin DOMAIN used[Rank[j]]
    => c[k] = used[Rank[i]][k]

(* The configuration a process runs with holds for every key what the      *)
(* strongest source that sets the key said: the environment over the files *)
(* (docs/configuration/environment-variables.md), HCL over YAML, the files *)
(* over the command line, however the files changed while they were read.  *)
StrongestSourceWins == phase \in {"main", "serving"} => IsStrongest(config)

(***************************************************************************)
(* check_config is there so "that we program won't panic when we try to    *)
(* use them".  Once it has accepted the values, main() and the start of    *)
(* the background services panic only for what it does not look at: a zero *)
(* auto_reload or renewal interval, a null lets_encrypt.enabled, a header  *)
(* of a route, a redis store, and faults of the machine.                   *)
(***************************************************************************)
OnlyUncheckedPanics ==
  /\ background = "panicked" =>
       \/ machine.faults \cap {"docker", "docker answer", "notify", "ca", "cert dir", "redis lost"} # {}
       \/ config.reload_interval = 0 \/ config.le_renew = 0
       \/ config.le_enabled = None
       \/ \E route \in config.routes : route.headers = "rejected"
  /\ phase = "down" => config.store_type = "redis" \/ "exec" \in machine.faults

(***************************************************************************)
(* A change of a watched .hcl file, made while the watcher is up, comes to *)
(* be what the process runs with, or the process ends: also if the file is *)
(* edited again while the new process loads.  A panic of another service   *)
(* takes the watcher with it.                                              *)
(***************************************************************************)
WatchedEditsArrive ==
  \A f \in Files : \A n \in 1 .. MaxEdits :
    (/\ background = "watching" /\ f \in watched /\ HclFile(f)
     /\ base[f] < n /\ version[f] = n
     /\ "current_exe" \notin machine.faults)
    ~> \/ phase \in {"failed", "down"}
       \/ background = "panicked" /\ "docker answer" \in machine.faults
       \/ phase = "serving" /\ (seen[f] = None \/ seen[f] >= n)

-----------------------------------------------------------------------------
(***************************************************************************)
(* Inductive strengthenings, used by ConfigReloadProofs.                   *)
(***************************************************************************)

(* The sources from `at` on are still unread; the others are merged in     *)
(* their order of strength.                                                *)
MergedInOrder ==
  phase \in {"merge", "main", "serving"} =>
    /\ \A i \in at + 1 .. Len(Rank) : used[Rank[i]] = NoKeys
    /\ IsStrongest(config)

(* What runs has been accepted, and background services only run in it. *)
RunsAccepted ==
  /\ phase \in {"main", "serving"} => Deserializes(config) /\ CheckConfig(config)
  /\ background # "off" => phase = "serving"
=============================================================================
